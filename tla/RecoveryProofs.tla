---------------------------- MODULE RecoveryProofs ----------------------------
(***************************************************************************)
(* However many slices there are and however often the process ends: a     *)
(* start vouches for no file that was cut off, and forgets no file.        *)
(***************************************************************************)
EXTENDS Recovery, TLAPS

(* Every step keeps the types.                                             *)
LEMMA TypeStep == TypeOK /\ [Next]_vars => TypeOK'
<1> SUFFICES ASSUME TypeOK, [Next]_vars PROVE TypeOK'
  OBVIOUS
<1> USE NoHashAssumption, MaxStartsAssumption
<1> USE DEF TypeOK, Working, diskVars, startVars, flushVars, runVars
<1>1. CASE Start
  BY <1>1 DEF Start
<1>2. CASE WriteBraces
  BY <1>2 DEF WriteBraces
<1>3. CASE ReadMetadata
  BY <1>3 DEF ReadMetadata
<1>4. CASE Loaded
  BY <1>4 DEF Loaded
<1>5. CASE AskSize
  BY <1>5 DEF AskSize
<1>6. CASE TakeUp
  BY <1>6 DEF TakeUp
<1>7. CASE Reorganized
  BY <1>7 DEF Reorganized
<1>8. CASE FlushStart
  BY <1>8 DEF FlushStart
<1>9. CASE FlushTruncate
  BY <1>9 DEF FlushTruncate
<1>10. CASE FlushWrite
  BY <1>10 DEF FlushWrite
<1>11. CASE Crash
  BY <1>11 DEF Crash, Forget
<1>12. ASSUME NEW h \in Hashes, LoadEntry(h) PROVE TypeOK'
  BY <1>12 DEF LoadEntry, Good, Bad
<1>13. ASSUME NEW h \in Hashes, Look(h) PROVE TypeOK'
  BY <1>13 DEF Look, Good, Bad
<1>14. ASSUME NEW h \in Hashes, CreateFile(h) PROVE TypeOK'
  BY <1>14 DEF CreateFile
<1>15. ASSUME NEW h \in Hashes, Transfer(h) PROVE TypeOK'
  BY <1>15 DEF Transfer
<1>16. ASSUME NEW h \in Hashes, LoadDownloaded(h) PROVE TypeOK'
  BY <1>16 DEF LoadDownloaded
<1>17. ASSUME NEW h \in Hashes, LoadFound(h) PROVE TypeOK'
  BY <1>17 DEF LoadFound
<1>18. ASSUME NEW h \in Hashes, Evict(h) PROVE TypeOK'
  BY <1>18 DEF Evict
<1>19. ASSUME NEW h \in Hashes, RemoveVictim(h) PROVE TypeOK'
  BY <1>19 DEF RemoveVictim
<1>20. ASSUME NEW h \in Hashes, FlushVisit(h) PROVE TypeOK'
  BY <1>20 DEF FlushVisit
<1>21. CASE UNCHANGED vars
  BY <1>21 DEF vars
<1> QED
  BY <1>1, <1>2, <1>3, <1>4, <1>5, <1>6, <1>7, <1>8, <1>9, <1>10, <1>11, <1>12, <1>13,
     <1>14, <1>15, <1>16, <1>17, <1>18, <1>19, <1>20, <1>21 DEF Next

(* A cacher that was never started has the types.                          *)
LEMMA InitTypes == Init => TypeOK
<1> SUFFICES ASSUME Init PROVE TypeOK
  OBVIOUS
<1>1. /\ disk \in [Hashes -> {"none", "partial", "whole"}]
      /\ task \in [Hashes -> {"none", "receive", "load"}]
      /\ \A h \in Hashes : task[h] = "none"
  BY DEF Init
<1>2. starts \in 0..MaxStarts
  BY MaxStartsAssumption DEF Init
<1> QED
  BY <1>1, <1>2 DEF Init, TypeOK

(* The variables keep their types, and memory is used only by the stages   *)
(* that have it.                                                           *)
THEOREM TypeCorrect == Spec => []TypeOK
<1> QED
  BY InitTypes, TypeStep, PTL DEF Spec

-----------------------------------------------------------------------------
(* What Reorganizate has seen: the file it is about to load was checked    *)
(* and nobody else writes before it is done; and a file it has not to look *)
(* at any more is known, unanswered for, or evicted.                       *)
LoadsNoPartial == loading # NoHash => disk[loading] # "partial"

Seen ==
    stage = "reorganize" =>
        \A h \in Hashes : disk[h] = "none" \/ h = loading \/
                           h \in todo \cup table \cup silent \cup evicted

IInv == TypeOK /\ LoadsNoPartial /\ Seen

(* Every step keeps them, given the types.                                 *)
LEMMA SeenStep ==
    TypeOK /\ LoadsNoPartial /\ Seen /\ [Next]_vars => (LoadsNoPartial /\ Seen)'
<1> SUFFICES ASSUME TypeOK, LoadsNoPartial, Seen, [Next]_vars
             PROVE  (LoadsNoPartial /\ Seen)'
  OBVIOUS
<1> USE NoHashAssumption
<1> USE DEF TypeOK, LoadsNoPartial, Seen, Working, diskVars, startVars, flushVars, runVars
<1>1. CASE Start
  BY <1>1 DEF Start
<1>2. CASE WriteBraces
  BY <1>2 DEF WriteBraces
<1>3. CASE ReadMetadata
  BY <1>3 DEF ReadMetadata
<1>4. CASE Loaded
  BY <1>4 DEF Loaded
<1>5. CASE AskSize
  BY <1>5 DEF AskSize
<1>6. CASE TakeUp
  BY <1>6 DEF TakeUp
<1>7. CASE Reorganized
  BY <1>7 DEF Reorganized
<1>8. CASE FlushStart
  BY <1>8 DEF FlushStart
<1>9. CASE FlushTruncate
  BY <1>9 DEF FlushTruncate
<1>10. CASE FlushWrite
  BY <1>10 DEF FlushWrite
<1>11. CASE Crash
  BY <1>11 DEF Crash, Forget
<1>12. ASSUME NEW h \in Hashes, LoadEntry(h) PROVE (LoadsNoPartial /\ Seen)'
  BY <1>12 DEF LoadEntry, Good, Bad
<1>13. ASSUME NEW h \in Hashes, Look(h) PROVE (LoadsNoPartial /\ Seen)'
  BY <1>13 DEF Look, Good, Bad
<1>14. ASSUME NEW h \in Hashes, CreateFile(h) PROVE (LoadsNoPartial /\ Seen)'
  BY <1>14 DEF CreateFile
<1>15. ASSUME NEW h \in Hashes, Transfer(h) PROVE (LoadsNoPartial /\ Seen)'
  BY <1>15 DEF Transfer
<1>16. ASSUME NEW h \in Hashes, LoadDownloaded(h) PROVE (LoadsNoPartial /\ Seen)'
  BY <1>16 DEF LoadDownloaded
<1>17. ASSUME NEW h \in Hashes, LoadFound(h) PROVE (LoadsNoPartial /\ Seen)'
  BY <1>17 DEF LoadFound
<1>18. ASSUME NEW h \in Hashes, Evict(h) PROVE (LoadsNoPartial /\ Seen)'
  BY <1>18 DEF Evict
<1>19. ASSUME NEW h \in Hashes, RemoveVictim(h) PROVE (LoadsNoPartial /\ Seen)'
  BY <1>19 DEF RemoveVictim
<1>20. ASSUME NEW h \in Hashes, FlushVisit(h) PROVE (LoadsNoPartial /\ Seen)'
  BY <1>20 DEF FlushVisit
<1>21. CASE UNCHANGED vars
  BY <1>21 DEF vars
<1> QED
  BY <1>1, <1>2, <1>3, <1>4, <1>5, <1>6, <1>7, <1>8, <1>9, <1>10, <1>11, <1>12, <1>13,
     <1>14, <1>15, <1>16, <1>17, <1>18, <1>19, <1>20, <1>21 DEF Next

(* They hold in every state of a run.                                      *)
LEMMA Invariant == Spec => []IInv
<1>1. Init => IInv
  BY InitTypes DEF Init, IInv, LoadsNoPartial, Seen
<1>2. IInv /\ [Next]_vars => IInv'
  BY TypeStep, SeenStep DEF IInv
<1> QED
  BY <1>1, <1>2, PTL DEF Spec

(* What a start puts into the table is whole, or was removed since it was  *)
(* checked, whatever the ends of the process before it left.               *)
THEOREM StartsSafely == Spec => StartVouchesWhole
<1> DEFINE A == \A h \in table' \ table :
                    stage \in {"load", "reorganize"} => disk[h] # "partial"
<1>1. IInv /\ [Next]_vars => [A]_vars
  <2> SUFFICES ASSUME IInv, Next, stage \in {"load", "reorganize"},
                      NEW g \in table' \ table
               PROVE  disk[g] # "partial"
    OBVIOUS
  <2> USE DEF IInv, TypeOK, diskVars, startVars, flushVars, runVars
  <2>1. CASE TakeUp
    BY <2>1 DEF TakeUp, LoadsNoPartial
  <2>2. ASSUME NEW h \in Hashes, LoadEntry(h) PROVE disk[g] # "partial"
    BY <2>2 DEF LoadEntry, Good
  <2>3. ASSUME NEW h \in Hashes, LoadDownloaded(h) \/ LoadFound(h) PROVE FALSE
    BY <2>3 DEF LoadDownloaded, LoadFound
  <2>4. CASE table' \subseteq table
    BY <2>4
  <2>5. CASE \/ Start \/ WriteBraces \/ ReadMetadata \/ Loaded \/ AskSize \/ Reorganized
            \/ FlushStart \/ FlushTruncate \/ FlushWrite \/ Crash
    BY <2>4, <2>5 DEF Start, WriteBraces, ReadMetadata, Loaded, AskSize, Reorganized,
                      FlushStart, FlushTruncate, FlushWrite, Crash, Forget
  <2>6. ASSUME NEW h \in Hashes, \/ Look(h) \/ CreateFile(h) \/ Transfer(h) \/ Evict(h)
                                 \/ RemoveVictim(h) \/ FlushVisit(h)
        PROVE  disk[g] # "partial"
    BY <2>4, <2>6 DEF Look, CreateFile, Transfer, Evict, RemoveVictim, FlushVisit
  <2> QED
    BY <2>1, <2>2, <2>3, <2>5, <2>6 DEF Next
<1> QED
  BY <1>1, Invariant, PTL DEF Spec, StartVouchesWhole

(* A start that is over has every file in the table, but for those the     *)
(* chain was silent on and those evicted meanwhile.                        *)
THEOREM ForgetsNothing == Spec => NothingForgotten
<1> DEFINE A == stage = "reorganize" /\ stage' = "run" =>
                  \A h \in Hashes :
                      disk[h] # "none" => h \in table \cup silent \cup evicted
<1>1. IInv /\ [Next]_vars => [A]_vars
  <2> SUFFICES ASSUME IInv, Next, stage = "reorganize", stage' = "run" PROVE A
    OBVIOUS
  <2>1. Reorganized
    BY DEF Next, Start, WriteBraces, ReadMetadata, Loaded, AskSize, TakeUp, FlushStart,
           FlushTruncate, FlushWrite, Crash, LoadEntry, Look, CreateFile, Transfer,
           LoadDownloaded, LoadFound, Evict, RemoveVictim, FlushVisit
  <2> QED
    BY <2>1, NoHashAssumption DEF Reorganized, IInv, Seen
<1> QED
  BY <1>1, Invariant, PTL DEF Spec, NothingForgotten
=============================================================================
