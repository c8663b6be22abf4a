--------------------------- MODULE ProcRunProofs ---------------------------
(* Proofs about ProcRun, for any cap and any amount of output.              *)
(*                                                                          *)
(* Neither "nothing is closed twice" nor "the result tells the truth" is    *)
(* inductive.  The first needs to know who owns what at every place of the  *)
(* task and of the helper (LedgerSound, PlacesSound); the second, that a    *)
(* stream is closed only at its end of file or on a failed read, that a     *)
(* stop without a timeout is a cancel, and that nothing is written once     *)
(* nobody holds a stream.                                                   *)
EXTENDS ProcRun, Integers, TLAPS

USE ProcAssumption

TaskPlaces   == {"idle", "pipes", "fork", "exec", "start", "abort", "park", "late", "finish", "ended", "dropped"}
HelperPlaces == {"none", "poll", "reap", "close", "wake", "shut", "drop", "gone"}
ProcResults  == {"none", "not_started", "overflow", "timeout", "exit", "signal", "noexec"}
ProcFlags    == {"stop", "timed_out", "done", "failure", "overflow"}
Children     == {"none", "forked", "running", "zombie", "reaped"}
ProcEnds     == RequestEnds \cup ChildEnds \cup {"execR"}
ProcThings   == ProcEnds \cup {"argv", "path", "stdin", "req"}

TaskType   == [pc : TaskPlaces, args : ProcArgs, arr : SUBSET ProcEnds, result : ProcResults]
ReqType    == [helper : HelperPlaces, ends : SUBSET RequestEnds, refs : Int, exited : BOOLEAN,
               flags : SUBSET ProcFlags, ready : SUBSET {"out", "err", "in"},
               read : [ProcStreams -> Nat], kept : [ProcStreams -> Nat], broken : SUBSET ProcStreams]
WorldType  == [child : Children, status : {"exit", "signal", "noexec"}, strike : BOOLEAN,
               holds : [ProcStreams -> SUBSET {"child", "kin", "stray"}], wrote : [ProcStreams -> Nat]]
LedgerType == [live : SUBSET ProcThings, wrong : SUBSET ProcThings]

ProcType == /\ procTask \in TaskType /\ procReq \in ReqType
            /\ procWorld \in WorldType /\ procLedger \in LedgerType

Before   == {"idle", "pipes", "fork", "exec", "start", "abort"}  \* no helper yet
Waiting  == {"park", "late", "finish"}                           \* the task holds a reference
Finished == {"close", "wake", "shut", "drop", "gone"}            \* the helper has reaped the child

(* Every end the call creates, given its arguments. *)
AllEnds == ProcEnds \ (IF procTask.args.stdin = "none" THEN {"inR", "inW"} ELSE {})
StdinCopy == IF procTask.args.stdin = "data" THEN {"stdin"} ELSE {}

(* Who owns what: the frame of the task, the helper, and both of them. *)
TaskHeld == (IF procTask.pc \in {"pipes", "fork"} THEN {"argv", "path"} ELSE {})
            \cup (IF procTask.pc \in {"pipes", "fork", "exec", "start", "abort"}
                  THEN StdinCopy \cup procTask.arr ELSE {})
            \cup (IF procTask.pc \in Waiting THEN {"doneR", "stopW"} ELSE {})
HelperEnds == {"outR", "errR", "inW", "doneW", "stopR"}
HelperHeld == procReq.ends \cap HelperEnds
SharedHeld == IF procReq.refs > 0 THEN {"req"} \cup StdinCopy ELSE {}

LedgerSound == procLedger.wrong = {} /\ procLedger.live = TaskHeld \cup HelperHeld \cup SharedHeld

(* What each place of the task and of the helper says of the arrays, the    *)
(* request and the child.                                                   *)
PlacesSound ==
  /\ procTask.pc \in {"idle", "pipes"} => procTask.arr = {}
  /\ procTask.pc = "fork"  => procTask.arr = AllEnds
  /\ procTask.pc = "exec"  => procTask.arr = AllEnds \ ChildEnds
  /\ procTask.pc = "start" => procTask.arr = AllEnds \ (ChildEnds \cup {"execR"})
  /\ procTask.pc \in Before => procReq.helper = "none"
  /\ procTask.pc \in Waiting \cup {"dropped"} => procReq.helper # "none"
  /\ procReq.helper = "none" => procReq.ends = {} /\ procReq.flags = {} /\ procReq.ready = {}
  /\ procReq.helper \in {"poll", "reap", "close", "wake", "shut"} => "doneW" \in procReq.ends
  /\ procReq.helper \in {"wake", "shut"} => HelperHeld \subseteq {"doneW"}
  /\ procReq.helper \in {"drop", "gone"} => HelperHeld = {}
  /\ "done" \in procReq.flags => procReq.helper \in {"shut", "drop", "gone"}
  /\ procTask.pc = "finish" => procReq.helper \in {"shut", "drop", "gone"}
  /\ procTask.pc = "ended" => procReq.helper \in {"none", "shut", "drop", "gone"}

RefsSound ==
  procReq.refs = (IF procTask.pc \in Waiting THEN 1 ELSE 0)
                   + (IF procReq.helper \in {"none", "gone"} THEN 0 ELSE 1)

(* The child: a signal is sent only while it is not reaped. *)
ChildSound ==
  /\ ~procWorld.strike
  /\ procReq.exited <=> procReq.helper \in Finished
  /\ procTask.pc \in {"idle", "pipes", "fork"} => procWorld.child = "none"
  /\ procTask.pc = "exec" => procWorld.child \in {"forked", "running", "zombie"}
  /\ procTask.pc = "start" => procWorld.child \in {"running", "zombie"}
  /\ procTask.pc = "abort" => procWorld.child \in {"none", "running", "zombie"}
  /\ procReq.helper \in {"poll", "reap"} => procWorld.child \in {"running", "zombie"}
  /\ procReq.helper \in Finished => procWorld.child = "reaped"
  /\ procTask.pc = "ended" /\ procReq.helper = "none" => procWorld.child \in {"none", "reaped"}

(* Every stream was kept as far as it was read, and read to its end unless  *)
(* a read failed.                                                           *)
Drained == \A s \in ProcStreams :
  /\ procReq.kept[s] = procReq.read[s]
  /\ s \notin procReq.broken => procWorld.holds[s] = {} /\ procReq.read[s] = procWorld.wrote[s]
Clean   == procReq.flags \cap {"failure", "overflow", "timed_out"} = {}

(* What was read and kept of each stream, and what its closing means. *)
ReadSound ==
  /\ \A s \in ProcStreams :
       /\ procReq.read[s] <= procWorld.wrote[s] /\ procReq.kept[s] <= ProcCap
       /\ "overflow" \notin procReq.flags => procReq.kept[s] = procReq.read[s]
       /\ procReq.helper = "poll" /\ s \in procReq.ready =>
            procReq.read[s] < procWorld.wrote[s] \/ procWorld.holds[s] = {}
       /\ procReq.helper = "poll" /\ ReadEnd(s) \notin procReq.ends /\ s \notin procReq.broken =>
            procReq.read[s] = procWorld.wrote[s] /\ procWorld.holds[s] = {}
  /\ procReq.helper = "poll" => "overflow" \notin procReq.flags

(* What the result, and before it the flags, say of the streams. *)
VerdictSound ==
  /\ "overflow" \in procReq.flags => \E s \in ProcStreams : procReq.read[s] > ProcCap
  /\ "stop" \in procReq.flags /\ procTask.pc # "dropped" => "timed_out" \in procReq.flags
  /\ procReq.helper \notin {"none", "poll"} /\ Clean /\ procTask.pc # "dropped" => Drained
  /\ procTask.result = "overflow" => "overflow" \in procReq.flags
  /\ procTask.result \in {"exit", "signal"} => Drained /\ procReq.helper \in {"shut", "drop", "gone"}

ProcInv == ProcType /\ LedgerSound /\ PlacesSound /\ RefsSound /\ ChildSound /\ ReadSound /\ VerdictSound

-----------------------------------------------------------------------------
(* What the invariant says of the types of the fields. *)
LEMMA Fields ==
  ASSUME ProcInv
  PROVE  /\ procTask \in TaskType /\ procReq \in ReqType /\ procWorld \in WorldType /\ procLedger \in LedgerType
         /\ procTask.pc \in TaskPlaces /\ procTask.arr \subseteq ProcEnds
         /\ procReq.helper \in HelperPlaces /\ procReq.ends \subseteq RequestEnds /\ procReq.refs \in Int
         /\ procReq.exited \in BOOLEAN /\ procReq.flags \subseteq ProcFlags
         /\ procReq.ready \subseteq {"out", "err", "in"}
         /\ procReq.read \in [ProcStreams -> Nat] /\ procReq.kept \in [ProcStreams -> Nat]
         /\ procReq.broken \subseteq ProcStreams
         /\ procWorld.child \in Children /\ procWorld.strike \in BOOLEAN
         /\ procWorld.wrote \in [ProcStreams -> Nat] /\ procLedger.live \subseteq ProcThings
<1>1. procTask \in TaskType /\ procReq \in ReqType /\ procWorld \in WorldType /\ procLedger \in LedgerType
  BY DEF ProcInv, ProcType
<1> QED BY <1>1 DEF TaskType, ReqType, WorldType, LedgerType

(* The parts of the invariant, each from the fields it speaks of. *)
LEMMA SameTask ==
  ASSUME procTask' = procTask
  PROVE  StdinCopy' = StdinCopy /\ TaskHeld' = TaskHeld /\ AllEnds' = AllEnds
  BY DEF StdinCopy, TaskHeld, AllEnds, Waiting

(* Releasing what is live keeps the ledger clean. *)
LEMMA ReleasedFields ==
  ASSUME ProcInv, NEW S, S \subseteq procLedger.live
  PROVE  /\ Released(S) \in LedgerType /\ Released(S).live = procLedger.live \ S /\ Released(S).wrong = {}
<1>1. procLedger.wrong = {} /\ procLedger.live \subseteq ProcThings
  BY Fields DEF ProcInv, LedgerSound
<1> DEFINE a == procLedger.live \ S
           b == procLedger.wrong \cup (S \ procLedger.live)
<1>2. b = {} /\ a \subseteq ProcThings
  BY <1>1
<1>3. Released(S) = [live |-> a, wrong |-> b]
  BY DEF Released
<1> HIDE DEF a, b
<1>4. Released(S) \in LedgerType /\ Released(S).live = a /\ Released(S).wrong = b
  BY <1>2, <1>3 DEF LedgerType
<1> QED BY <1>2, <1>4 DEF a

(* Once there is a helper, the task is past its start. *)
LEMMA HasHelper ==
  ASSUME ProcInv, procReq.helper # "none"
  PROVE  procTask.pc \notin Before /\ procTask.pc \in Waiting \cup {"ended", "dropped"}
<1>1. procTask.pc \notin Before
  BY DEF ProcInv, PlacesSound
<1> QED BY <1>1, Fields DEF TaskPlaces, Before, Waiting

(* What the helper does once the child is reaped: its descriptors and its   *)
(* reference; the streams and the child are as they were.                   *)
LEMMA HelperTail ==
  ASSUME ProcInv, procReq.helper \in Finished, UNCHANGED <<procTask, procWorld>>,
         procReq' \in ReqType, procLedger' \in LedgerType, LedgerSound', PlacesSound', RefsSound',
         procReq'.helper \in Finished, procReq'.exited = procReq.exited,
         procReq'.flags \in {procReq.flags, procReq.flags \cup {"done"}},
         procReq'.ready = procReq.ready, procReq'.read = procReq.read, procReq'.kept = procReq.kept, procReq'.broken = procReq.broken,
         procReq.helper \in {"shut", "drop", "gone"} => procReq'.helper \in {"shut", "drop", "gone"}
  PROVE  ProcInv'
<1>1. ProcType'
  BY Fields DEF ProcType
<1>2. ChildSound'
  BY HasHelper DEF ProcInv, ChildSound, Finished, Before
<1>3. ReadSound'
  BY DEF ProcInv, ReadSound, Finished
<1>4. VerdictSound'
  BY DEF ProcInv, VerdictSound, Drained, Clean, Finished
<1> QED BY <1>1, <1>2, <1>3, <1>4 DEF ProcInv

-----------------------------------------------------------------------------
(* The helper after the collection *)

(* The helper reaps the child and notes that it exited.                     *)
LEMMA ReapInv ==
  ASSUME ProcInv, proc_reap
  PROVE  ProcInv'
<1> DEFINE yes == TRUE
<1>1. /\ procReq.helper = "reap" /\ procWorld.child = "zombie"
      /\ procReq' = [procReq EXCEPT !.exited = yes, !.helper = "close"]
      /\ procWorld' = [procWorld EXCEPT !.child = "reaped"]
      /\ UNCHANGED <<procTask, procLedger>>
  BY DEF proc_reap
<1>2. yes \in BOOLEAN /\ "close" \in HelperPlaces /\ "reaped" \in Children
  BY DEF HelperPlaces, Children
<1> HIDE DEF yes
<1>3. /\ procReq' \in ReqType /\ procReq'.helper = "close" /\ procReq'.exited = yes
      /\ procReq'.ends = procReq.ends /\ procReq'.refs = procReq.refs /\ procReq'.flags = procReq.flags
      /\ procReq'.ready = procReq.ready /\ procReq'.read = procReq.read /\ procReq'.kept = procReq.kept /\ procReq'.broken = procReq.broken
  BY <1>1, <1>2, Fields DEF ReqType
<1>4. /\ procWorld' \in WorldType /\ procWorld'.child = "reaped" /\ procWorld'.strike = procWorld.strike
      /\ procWorld'.holds = procWorld.holds /\ procWorld'.wrote = procWorld.wrote
  BY <1>1, <1>2, Fields DEF WorldType
<1>5. procTask' = procTask /\ procLedger' = procLedger /\ procReq.helper = "reap"
  BY <1>1
<1>6. ProcType'
  BY <1>3, <1>4, <1>5, Fields DEF ProcType
<1>7. LedgerSound'
  BY <1>3, <1>5, SameTask DEF ProcInv, LedgerSound, HelperHeld, SharedHeld
<1>8. PlacesSound'
  BY <1>3, <1>5, SameTask DEF ProcInv, PlacesSound, HelperHeld, Before, Waiting
<1>9. RefsSound'
  BY <1>3, <1>5 DEF ProcInv, RefsSound
<1>10. ChildSound'
  <2>1. procTask.pc \notin Before
    BY <1>5, HasHelper
  <2> QED BY <1>3, <1>4, <1>5, <2>1 DEF ProcInv, ChildSound, Finished, Before, yes
<1>11. ReadSound'
  BY <1>3, <1>4, <1>5 DEF ProcInv, ReadSound
<1>12. VerdictSound'
  BY <1>3, <1>4, <1>5 DEF ProcInv, VerdictSound, Drained, Clean
<1> QED BY <1>6, <1>7, <1>8, <1>9, <1>10, <1>11, <1>12 DEF ProcInv

(* The helper's ends are live until it closes them. *)
LEMMA EndsLive ==
  ASSUME ProcInv, NEW S, S \subseteq HelperEnds
  PROVE  S \cap procReq.ends \subseteq procLedger.live
  BY DEF ProcInv, LedgerSound, HelperHeld

(* A closing of some of the helper's ends, seen in the ledger. *)
LEMMA ClosesLedger ==
  ASSUME ProcInv, NEW S, S \subseteq HelperEnds, CloseFields(S), procTask' = procTask,
         procReq'.ends = procReq.ends \ S, procReq'.refs = procReq.refs
  PROVE  procLedger' \in LedgerType /\ LedgerSound'
<1>1. S \cap procReq.ends \subseteq procLedger.live
  BY EndsLive
<1>2. /\ procLedger' \in LedgerType /\ procLedger'.live = procLedger.live \ (S \cap procReq.ends)
      /\ procLedger'.wrong = {}
  BY <1>1, ReleasedFields DEF CloseFields
<1>3. procLedger.live = TaskHeld \cup HelperHeld \cup SharedHeld
  BY DEF ProcInv, LedgerSound
<1>4. HelperHeld' = HelperHeld \ (S \cap procReq.ends) /\ SharedHeld' = SharedHeld
  BY SameTask DEF HelperHeld, SharedHeld
<1>5. (TaskHeld \cup SharedHeld) \cap HelperEnds \cap procReq.ends = {}
  <2>1. SharedHeld \cap HelperEnds = {}
    BY DEF SharedHeld, StdinCopy, HelperEnds
  <2>2. CASE procReq.helper = "none"
    BY <2>1, <2>2 DEF ProcInv, PlacesSound
  <2>3. CASE procReq.helper # "none"
    <3>1. TaskHeld \subseteq {"doneR", "stopW"}
      BY <2>3, HasHelper DEF TaskHeld, Before
    <3> QED BY <2>1, <3>1 DEF HelperEnds
  <2> QED BY <2>2, <2>3
<1>6. procLedger'.live = TaskHeld \cup HelperHeld' \cup SharedHeld
  BY <1>2, <1>3, <1>4, <1>5
<1> QED BY <1>2, <1>4, <1>6, SameTask DEF LedgerSound

(* The helper closes its ends of the pipes.                                 *)
LEMMA HelperCloseInv ==
  ASSUME ProcInv, proc_helper_close
  PROVE  ProcInv'
<1> DEFINE S == {"outR", "errR", "inW", "stopR"}
           e == procReq.ends \ S
<1>1. /\ procReq.helper = "close" /\ CloseFields(S) /\ UNCHANGED <<procTask, procWorld>>
      /\ procReq' = [procReq EXCEPT !.ends = e, !.helper = "wake"]
  BY DEF proc_helper_close
<1>2. e \subseteq RequestEnds /\ "wake" \in HelperPlaces /\ S \subseteq HelperEnds
  BY Fields DEF HelperPlaces, HelperEnds
<1> HIDE DEF e
<1>3. /\ procReq' \in ReqType /\ procReq'.helper = "wake" /\ procReq'.exited = procReq.exited
      /\ procReq'.ends = e /\ procReq'.refs = procReq.refs /\ procReq'.flags = procReq.flags
      /\ procReq'.ready = procReq.ready /\ procReq'.read = procReq.read /\ procReq'.kept = procReq.kept /\ procReq'.broken = procReq.broken
  BY <1>1, <1>2, Fields DEF ReqType
<1>4. procLedger' \in LedgerType /\ LedgerSound'
  BY <1>1, <1>2, <1>3, ClosesLedger DEF e
<1>5. PlacesSound'
  <2>1. HelperHeld' \subseteq {"doneW"} /\ ("doneW" \in procReq.ends => "doneW" \in procReq'.ends)
    BY <1>3 DEF HelperHeld, HelperEnds, e
  <2>2. procTask' = procTask /\ procReq.helper = "close"
    BY <1>1
  <2> QED BY <1>3, <2>1, <2>2, HasHelper, SameTask DEF ProcInv, PlacesSound, Before, Waiting
<1>6. RefsSound'
  BY <1>1, <1>3 DEF ProcInv, RefsSound
<1> QED BY <1>1, <1>3, <1>4, <1>5, <1>6, HelperTail DEF Finished

(* The helper publishes done and wakes the task.                            *)
LEMMA HelperWakeInv ==
  ASSUME ProcInv, proc_helper_wake
  PROVE  ProcInv'
<1> DEFINE f == procReq.flags \cup {"done"}
<1>1. /\ procReq.helper = "wake" /\ UNCHANGED <<procTask, procWorld, procLedger>>
      /\ procReq' = [procReq EXCEPT !.flags = f, !.helper = "shut"]
  BY DEF proc_helper_wake
<1>2. f \subseteq ProcFlags /\ "shut" \in HelperPlaces
  BY Fields DEF HelperPlaces, ProcFlags
<1> HIDE DEF f
<1>3. /\ procReq' \in ReqType /\ procReq'.helper = "shut" /\ procReq'.exited = procReq.exited
      /\ procReq'.ends = procReq.ends /\ procReq'.refs = procReq.refs /\ procReq'.flags = f
      /\ procReq'.ready = procReq.ready /\ procReq'.read = procReq.read /\ procReq'.kept = procReq.kept /\ procReq'.broken = procReq.broken
  BY <1>1, <1>2, Fields DEF ReqType
<1>4. procTask' = procTask /\ procReq.helper = "wake" /\ procLedger' = procLedger
  BY <1>1
<1>5. LedgerSound'
  BY <1>3, <1>4, SameTask DEF ProcInv, LedgerSound, HelperHeld, SharedHeld
<1>6. PlacesSound'
  <2>1. HelperHeld' = HelperHeld
    BY <1>3 DEF HelperHeld
  <2> QED BY <1>3, <1>4, <2>1, HasHelper, SameTask DEF ProcInv, PlacesSound, Before, Waiting
<1>7. RefsSound'
  BY <1>3, <1>4 DEF ProcInv, RefsSound
<1> QED BY <1>1, <1>3, <1>5, <1>6, <1>7, Fields, HelperTail DEF Finished, f

(* The helper closes the completion end.                                    *)
LEMMA HelperShutInv ==
  ASSUME ProcInv, proc_helper_shut
  PROVE  ProcInv'
<1> DEFINE S == {"doneW"}
           e == procReq.ends \ S
<1>1. /\ procReq.helper = "shut" /\ CloseFields(S) /\ UNCHANGED <<procTask, procWorld>>
      /\ procReq' = [procReq EXCEPT !.ends = e, !.helper = "drop"]
  BY DEF proc_helper_shut
<1>2. e \subseteq RequestEnds /\ "drop" \in HelperPlaces /\ S \subseteq HelperEnds
  BY Fields DEF HelperPlaces, HelperEnds
<1> HIDE DEF e
<1>3. /\ procReq' \in ReqType /\ procReq'.helper = "drop" /\ procReq'.exited = procReq.exited
      /\ procReq'.ends = e /\ procReq'.refs = procReq.refs /\ procReq'.flags = procReq.flags
      /\ procReq'.ready = procReq.ready /\ procReq'.read = procReq.read /\ procReq'.kept = procReq.kept /\ procReq'.broken = procReq.broken
  BY <1>1, <1>2, Fields DEF ReqType
<1>4. procLedger' \in LedgerType /\ LedgerSound'
  BY <1>1, <1>2, <1>3, ClosesLedger DEF e
<1>5. PlacesSound'
  <2>1. HelperHeld' = {}
    BY <1>1, <1>3 DEF ProcInv, PlacesSound, HelperHeld, e
  <2>2. procTask' = procTask /\ procReq.helper = "shut"
    BY <1>1
  <2> QED BY <1>3, <2>1, <2>2, HasHelper, SameTask DEF ProcInv, PlacesSound, Before, Waiting
<1>6. RefsSound'
  BY <1>1, <1>3 DEF ProcInv, RefsSound
<1> QED BY <1>1, <1>3, <1>4, <1>5, <1>6, HelperTail DEF Finished

(* A reference is dropped: the request and the copy of stdin go with the    *)
(* last one.  S is what this side closes itself.                            *)
LEMMA DecrefFields ==
  ASSUME ProcInv, procReq.refs \in {1, 2}, NEW S, S \subseteq TaskHeld, procTask.pc \notin Before,
         procLedger' = DecrefLedger(S)
  PROVE  /\ procLedger' \in LedgerType /\ procLedger'.wrong = {}
         /\ procLedger'.live = (TaskHeld \ S) \cup HelperHeld
                                 \cup (IF procReq.refs = 1 THEN {} ELSE SharedHeld)
<1>1. procLedger.live = TaskHeld \cup HelperHeld \cup SharedHeld
  BY DEF ProcInv, LedgerSound
<1>2. SharedHeld = {"req"} \cup StdinCopy
  BY DEF SharedHeld
<1>3. TaskHeld \subseteq {"doneR", "stopW"} /\ HelperHeld \subseteq HelperEnds
  BY DEF TaskHeld, HelperHeld, Before
<1>4. RequestBlocks = SharedHeld
  BY <1>1, <1>2, <1>3 DEF RequestBlocks, StdinCopy, HelperEnds
<1> DEFINE D == S \cup IF procReq.refs = 1 THEN RequestBlocks ELSE {}
<1>5. D = S \cup (IF procReq.refs = 1 THEN SharedHeld ELSE {})
  BY <1>4
<1>6. procLedger' = Released(D)
  BY DEF DecrefLedger
<1> HIDE DEF D
<1>7. D \subseteq procLedger.live
  BY <1>1, <1>5
<1>8. procLedger' \in LedgerType /\ procLedger'.wrong = {} /\ procLedger'.live = procLedger.live \ D
  BY <1>6, <1>7, ReleasedFields
<1>9. /\ SharedHeld \cap (TaskHeld \cup HelperHeld) = {} /\ TaskHeld \cap HelperHeld = {}
  BY <1>2, <1>3 DEF StdinCopy, HelperEnds
<1>10. procLedger'.live = (TaskHeld \ S) \cup HelperHeld \cup (IF procReq.refs = 1 THEN {} ELSE SharedHeld)
  <2>1. CASE procReq.refs = 1
    BY <1>1, <1>5, <1>8, <1>9, <2>1
  <2>2. CASE procReq.refs # 1
    BY <1>1, <1>5, <1>8, <1>9, <2>2
  <2> QED BY <2>1, <2>2
<1> QED BY <1>8, <1>10

(* The helper drops its reference.                                          *)
LEMMA HelperDropInv ==
  ASSUME ProcInv, proc_helper_drop
  PROVE  ProcInv'
<1> DEFINE n == procReq.refs - 1
<1>1. /\ procReq.helper = "drop" /\ procLedger' = DecrefLedger({}) /\ UNCHANGED <<procTask, procWorld>>
      /\ procReq' = [procReq EXCEPT !.refs = n, !.helper = "gone"]
  BY DEF proc_helper_drop
<1>2. n \in Int /\ "gone" \in HelperPlaces
  BY Fields DEF HelperPlaces
<1> HIDE DEF n
<1>3. /\ procReq' \in ReqType /\ procReq'.helper = "gone" /\ procReq'.exited = procReq.exited
      /\ procReq'.ends = procReq.ends /\ procReq'.refs = n /\ procReq'.flags = procReq.flags
      /\ procReq'.ready = procReq.ready /\ procReq'.read = procReq.read /\ procReq'.kept = procReq.kept /\ procReq'.broken = procReq.broken
  BY <1>1, <1>2, Fields DEF ReqType
<1>4. procTask' = procTask /\ procReq.helper = "drop" /\ procTask.pc \notin Before
  BY <1>1, HasHelper
<1>5. procReq.refs = (IF procTask.pc \in Waiting THEN 2 ELSE 1)
  BY <1>4 DEF ProcInv, RefsSound
<1>6. RefsSound'
  BY <1>3, <1>4, <1>5 DEF RefsSound, n
<1>7. /\ procLedger' \in LedgerType /\ procLedger'.wrong = {}
      /\ procLedger'.live = TaskHeld \cup HelperHeld \cup (IF procReq.refs = 1 THEN {} ELSE SharedHeld)
  <2> DEFINE S == {}
  <2>1. /\ procLedger' \in LedgerType /\ procLedger'.wrong = {}
        /\ procLedger'.live = (TaskHeld \ S) \cup HelperHeld \cup (IF procReq.refs = 1 THEN {} ELSE SharedHeld)
    BY <1>1, <1>4, <1>5, DecrefFields
  <2> QED BY <2>1
<1>8. HelperHeld' = HelperHeld /\ SharedHeld' = IF procReq.refs = 1 THEN {} ELSE SharedHeld
  BY <1>3, <1>4, <1>5, SameTask DEF HelperHeld, SharedHeld, n
<1>9. LedgerSound'
  BY <1>4, <1>7, <1>8, SameTask DEF LedgerSound
<1>10. PlacesSound'
  BY <1>3, <1>4, <1>8, HasHelper, SameTask DEF ProcInv, PlacesSound, Before, Waiting
<1> QED BY <1>1, <1>3, <1>6, <1>7, <1>9, <1>10, HelperTail DEF Finished

-----------------------------------------------------------------------------
(* SIGKILL to a child that is not reaped: streams only lose holders. *)
LEMMA KilledFields ==
  ASSUME ProcInv, procWorld.child \in {"running", "zombie"}
  PROVE  /\ Killed \in WorldType /\ Killed.wrote = procWorld.wrote /\ ~Killed.strike /\ Killed.child = "zombie"
         /\ \A s \in ProcStreams : Killed.holds[s] \subseteq procWorld.holds[s]
<1>1. procWorld \in WorldType /\ ~procWorld.strike
  BY Fields DEF ProcInv, ChildSound
<1> DEFINE st == IF procWorld.child \in {"forked", "running"} THEN "signal" ELSE procWorld.status
           ho == [s \in ProcStreams |->
                    procWorld.holds[s] \ ({"child"} \cup IF procTask.args.group THEN {"kin"} ELSE {})]
           no == FALSE
<1>2. Killed = [procWorld EXCEPT !.strike = no, !.child = "zombie", !.status = st, !.holds = ho]
  <2>1. (procWorld.strike \/ procWorld.child = "reaped") = no
    BY <1>1
  <2>2. Killed = [procWorld EXCEPT !.strike = procWorld.strike \/ procWorld.child = "reaped",
                    !.child = IF procWorld.child = "reaped" THEN procWorld.child ELSE "zombie",
                    !.status = st, !.holds = ho]
    BY <1>1 DEF Killed, WorldType
  <2> HIDE DEF st, ho, no
  <2> QED BY <2>1, <2>2
<1>3. /\ st \in {"exit", "signal", "noexec"} /\ ho \in [ProcStreams -> SUBSET {"child", "kin", "stray"}]
      /\ \A s \in ProcStreams : ho[s] \subseteq procWorld.holds[s]
      /\ no \in BOOLEAN /\ ~no /\ "zombie" \in Children
  BY <1>1 DEF WorldType, Children
<1> HIDE DEF st, ho, no
<1> QED BY <1>1, <1>2, <1>3 DEF WorldType

(* The kill, while there is a helper: it reaches the call's own child, which*)
(* is not reaped, or nothing.                                               *)
LEMMA KillFields ==
  ASSUME ProcInv, procReq.helper # "none"
  PROVE  /\ proc_kill \in WorldType /\ proc_kill.wrote = procWorld.wrote /\ ~proc_kill.strike
         /\ \A s \in ProcStreams : proc_kill.holds[s] \subseteq procWorld.holds[s]
         /\ procReq.exited => proc_kill = procWorld
         /\ ~procReq.exited => proc_kill.child = "zombie"
<1>1. /\ procWorld \in WorldType /\ ~procWorld.strike /\ procReq.exited \in BOOLEAN
  BY Fields DEF ProcInv, ChildSound
<1>2. CASE procReq.exited
  <2>1. proc_kill = procWorld
    BY <1>2 DEF proc_kill
  <2> QED BY <1>1, <1>2, <2>1
<1>3. CASE ~procReq.exited
  <2>1. procWorld.child \in {"running", "zombie"}
    BY <1>3, Fields DEF ProcInv, ChildSound, HelperPlaces, Finished
  <2>2. proc_kill = Killed
    BY <1>3 DEF proc_kill
  <2> QED BY <1>3, <2>1, <2>2, KilledFields
<1> QED BY <1>1, <1>2, <1>3

(* The park ends. *)
LEMMA WokenInv ==
  ASSUME ProcInv, proc_woken
  PROVE  ProcInv'
<1>1. /\ procTask.pc \in {"park", "late"} /\ DoneReadable /\ procTask' = [procTask EXCEPT !.pc = "finish"]
      /\ procReq' = procReq /\ procWorld' = procWorld /\ procLedger' = procLedger
  BY DEF proc_woken
<1>2. /\ procTask' \in TaskType /\ procTask'.pc = "finish" /\ procTask'.args = procTask.args
      /\ procTask'.arr = procTask.arr /\ procTask'.result = procTask.result
  BY <1>1, Fields DEF TaskType, TaskPlaces
<1>3. procReq.helper \in {"shut", "drop", "gone"}
  <2>1. procReq.helper # "none"
    BY <1>1 DEF ProcInv, PlacesSound, Waiting
  <2>2. "done" \in procReq.flags \/ "doneW" \notin procReq.ends
    BY <1>1 DEF ProcInv, LedgerSound, HelperHeld, HelperEnds, DoneReadable
  <2> QED BY <2>1, <2>2, Fields DEF ProcInv, PlacesSound, HelperPlaces
<1>4. /\ procTask.pc \in {"park", "late"}
      /\ procReq' = procReq /\ procWorld' = procWorld /\ procLedger' = procLedger
  BY <1>1
<1>5. ProcType'
  BY <1>2, <1>4, Fields DEF ProcType
<1>6. LedgerSound'
  <2>1. TaskHeld' = TaskHeld
    BY <1>2, <1>4 DEF TaskHeld, Waiting
  <2>2. StdinCopy' = StdinCopy
    BY <1>2 DEF StdinCopy
  <2> QED BY <1>4, <2>1, <2>2 DEF ProcInv, LedgerSound, HelperHeld, SharedHeld
<1>7. PlacesSound'
  BY <1>2, <1>3, <1>4 DEF ProcInv, PlacesSound, HelperHeld, Before, Waiting
<1>8. RefsSound'
  BY <1>2, <1>4 DEF ProcInv, RefsSound, Waiting
<1>9. ChildSound'
  BY <1>2, <1>4 DEF ProcInv, ChildSound
<1>10. ReadSound'
  BY <1>4 DEF ProcInv, ReadSound
<1>11. VerdictSound'
  BY <1>2, <1>4 DEF ProcInv, VerdictSound, Drained, Clean
<1> QED BY <1>5, <1>6, <1>7, <1>8, <1>9, <1>10, <1>11 DEF ProcInv

(* The world after a kill: what was read of a stream, and what is known of  *)
(* its end, stays true.                                                     *)
LEMMA KilledStreams ==
  ASSUME ProcInv, procReq.helper # "none", procWorld' = proc_kill,
         procReq'.helper = procReq.helper, procReq'.ready = procReq.ready, procReq'.ends = procReq.ends,
         procReq'.read = procReq.read, procReq'.kept = procReq.kept, procReq'.broken = procReq.broken,
         "overflow" \in procReq'.flags <=> "overflow" \in procReq.flags
  PROVE  ReadSound' /\ (Drained => Drained')
<1>1. /\ procWorld'.wrote = procWorld.wrote
      /\ \A s \in ProcStreams : procWorld'.holds[s] \subseteq procWorld.holds[s]
  BY KillFields
<1>2. \A s \in ProcStreams : procWorld.holds[s] = {} => procWorld'.holds[s] = {}
  BY <1>1
<1>3. ReadSound'
  BY <1>1, <1>2 DEF ProcInv, ReadSound
<1>4. Drained => Drained'
  BY <1>1, <1>2 DEF Drained
<1> QED BY <1>3, <1>4

(* The child of a call whose helper runs, after a kill. *)
LEMMA KilledChild ==
  ASSUME ProcInv, procReq.helper # "none", procWorld' = proc_kill,
         procReq'.helper \in Finished <=> procReq.helper \in Finished,
         procReq'.helper # "none", procReq'.helper \in HelperPlaces, procReq'.exited = procReq.exited,
         procTask'.pc \notin Before
  PROVE  ChildSound'
<1>1. /\ ~procWorld'.strike /\ (procReq.exited => procWorld' = procWorld)
      /\ (~procReq.exited => procWorld'.child = "zombie")
  BY KillFields
<1>2. procReq.exited <=> procReq.helper \in Finished
  BY DEF ProcInv, ChildSound
<1>3. procReq.helper \in Finished => procWorld.child = "reaped"
  BY DEF ProcInv, ChildSound
<1> QED BY <1>1, <1>2, <1>3 DEF ChildSound, Before, Finished

(* The deadline. *)
LEMMA ExpiredInv ==
  ASSUME ProcInv, proc_expired
  PROVE  ProcInv'
<1> DEFINE f == IF procReq.exited THEN procReq.flags ELSE procReq.flags \cup {"stop", "timed_out"}
<1>1. /\ procTask.pc = "park" /\ procTask' = [procTask EXCEPT !.pc = "late"]
      /\ procReq' = [procReq EXCEPT !.flags = f] /\ procWorld' = proc_kill /\ procLedger' = procLedger
  BY Fields DEF proc_expired, ReqType
<1>2. /\ procTask' \in TaskType /\ procTask'.pc = "late" /\ procTask'.args = procTask.args
      /\ procTask'.arr = procTask.arr /\ procTask'.result = procTask.result
  BY <1>1, Fields DEF TaskType, TaskPlaces
<1>3. f \subseteq ProcFlags
  BY Fields DEF ProcFlags
<1>4. procTask.pc = "park" /\ procWorld' = proc_kill /\ procLedger' = procLedger /\ procReq.helper # "none"
  BY <1>1 DEF ProcInv, PlacesSound, Waiting
<1> HIDE DEF f
<1>5. /\ procReq' \in ReqType /\ procReq'.helper = procReq.helper /\ procReq'.exited = procReq.exited
      /\ procReq'.ends = procReq.ends /\ procReq'.refs = procReq.refs /\ procReq'.flags = f
      /\ procReq'.ready = procReq.ready /\ procReq'.read = procReq.read /\ procReq'.kept = procReq.kept /\ procReq'.broken = procReq.broken
  BY <1>1, <1>3, Fields DEF ReqType
<1>6. ProcType'
  BY <1>2, <1>4, <1>5, KillFields, Fields DEF ProcType
<1>7. LedgerSound'
  <2>1. TaskHeld' = TaskHeld /\ StdinCopy' = StdinCopy
    BY <1>2, <1>4 DEF TaskHeld, Waiting, StdinCopy
  <2> QED BY <1>4, <1>5, <2>1 DEF ProcInv, LedgerSound, HelperHeld, SharedHeld
<1>8. PlacesSound'
  <2>1. "done" \in f => "done" \in procReq.flags
    BY DEF f
  <2> QED BY <1>2, <1>4, <1>5, <2>1 DEF ProcInv, PlacesSound, HelperHeld, Before, Waiting
<1>9. RefsSound'
  BY <1>2, <1>4, <1>5 DEF ProcInv, RefsSound, Waiting
<1>10. ChildSound'
  BY <1>2, <1>4, <1>5, Fields, KilledChild DEF Before
<1>11. ReadSound' /\ (Drained => Drained')
  BY <1>4, <1>5, KilledStreams DEF f
<1>12. VerdictSound'
  <2>1. CASE procReq.exited
    <3>1. f = procReq.flags
      BY <2>1 DEF f
    <3> QED BY <1>2, <1>4, <1>5, <1>11, <3>1 DEF ProcInv, VerdictSound, Clean
  <2>2. CASE ~procReq.exited
    <3>1. f = procReq.flags \cup {"stop", "timed_out"}
      BY <2>2 DEF f
    <3> QED BY <1>2, <1>4, <1>5, <1>11, <3>1 DEF ProcInv, VerdictSound, Clean
  <2> QED BY <2>1, <2>2
<1> QED BY <1>6, <1>7, <1>8, <1>9, <1>10, <1>11, <1>12 DEF ProcInv

(* The task lets go of the call: what the ledger and the counts say then.   *)
LEMMA TaskLeaves ==
  ASSUME ProcInv, procTask.pc \in Waiting, procTask'.pc \in {"ended", "dropped"},
         procTask'.args = procTask.args, procTask' \in TaskType,
         procReq'.refs = procReq.refs - 1, procReq'.helper = procReq.helper, procReq'.ends = procReq.ends,
         procLedger' = DecrefLedger({"doneR", "stopW"})
  PROVE  procLedger' \in LedgerType /\ LedgerSound' /\ RefsSound'
<1> DEFINE S == {"doneR", "stopW"}
<1>1. TaskHeld = S /\ procTask.pc \notin Before /\ procReq.helper # "none"
  BY DEF TaskHeld, Waiting, Before, ProcInv, PlacesSound
<1>2. procReq.refs = IF procReq.helper = "gone" THEN 1 ELSE 2
  BY <1>1 DEF ProcInv, RefsSound
<1>3. /\ procLedger' \in LedgerType /\ procLedger'.wrong = {}
      /\ procLedger'.live = (TaskHeld \ S) \cup HelperHeld \cup (IF procReq.refs = 1 THEN {} ELSE SharedHeld)
  BY <1>1, <1>2, DecrefFields
<1>4. TaskHeld' = {} /\ StdinCopy' = StdinCopy /\ HelperHeld' = HelperHeld
  BY DEF TaskHeld, Waiting, StdinCopy, HelperHeld
<1>5. SharedHeld' = IF procReq.refs = 1 THEN {} ELSE SharedHeld
  BY <1>2, <1>4 DEF SharedHeld
<1>6. LedgerSound'
  BY <1>1, <1>3, <1>4, <1>5 DEF LedgerSound
<1>7. RefsSound'
  BY <1>1, <1>2 DEF RefsSound, Waiting
<1> QED BY <1>3, <1>6, <1>7

(* A cancel. *)
LEMMA CancelInv ==
  ASSUME ProcInv, proc_cancel_hook
  PROVE  ProcInv'
<1> DEFINE f == procReq.flags \cup {"stop"}
           n == procReq.refs - 1
<1>1. /\ procTask.pc \in {"park", "late"} /\ procTask' = [procTask EXCEPT !.pc = "dropped"]
      /\ procReq' = [procReq EXCEPT !.flags = f, !.refs = n] /\ procWorld' = proc_kill
      /\ procLedger' = DecrefLedger({"doneR", "stopW"})
  BY DEF proc_cancel_hook
<1>2. /\ procTask' \in TaskType /\ procTask'.pc = "dropped" /\ procTask'.args = procTask.args
      /\ procTask'.arr = procTask.arr /\ procTask'.result = procTask.result
  BY <1>1, Fields DEF TaskType, TaskPlaces
<1>3. f \subseteq ProcFlags /\ n \in Int
  BY Fields DEF ProcFlags
<1>4. /\ procTask.pc \in Waiting /\ procWorld' = proc_kill /\ procReq.helper # "none"
      /\ procLedger' = DecrefLedger({"doneR", "stopW"})
  BY <1>1 DEF ProcInv, PlacesSound, Waiting
<1> HIDE DEF f, n
<1>5. /\ procReq' \in ReqType /\ procReq'.helper = procReq.helper /\ procReq'.exited = procReq.exited
      /\ procReq'.ends = procReq.ends /\ procReq'.refs = n /\ procReq'.flags = f
      /\ procReq'.ready = procReq.ready /\ procReq'.read = procReq.read /\ procReq'.kept = procReq.kept /\ procReq'.broken = procReq.broken
  BY <1>1, <1>3, Fields DEF ReqType
<1>6. procLedger' \in LedgerType /\ LedgerSound' /\ RefsSound'
  BY <1>2, <1>4, <1>5, TaskLeaves DEF n
<1>7. ProcType'
  BY <1>2, <1>4, <1>5, <1>6, KillFields, Fields DEF ProcType
<1>8. PlacesSound'
  <2>1. "done" \in f => "done" \in procReq.flags
    BY DEF f
  <2> QED BY <1>2, <1>4, <1>5, <2>1 DEF ProcInv, PlacesSound, HelperHeld, Before, Waiting
<1>9. ChildSound'
  BY <1>2, <1>4, <1>5, Fields, KilledChild DEF Before
<1>10. ReadSound' /\ (Drained => Drained')
  BY <1>4, <1>5, KilledStreams DEF f
<1>11. VerdictSound'
  BY <1>2, <1>5, <1>10 DEF ProcInv, VerdictSound, f
<1> QED BY <1>6, <1>7, <1>8, <1>9, <1>10, <1>11 DEF ProcInv

(* The result is decided from what the helper left. *)
LEMMA FinishInv ==
  ASSUME ProcInv, proc_finish
  PROVE  ProcInv'
<1> DEFINE n == procReq.refs - 1
<1>1. /\ procTask.pc = "finish" /\ procTask' = [procTask EXCEPT !.pc = "ended", !.result = Verdict]
      /\ procReq' = [procReq EXCEPT !.refs = n] /\ procWorld' = procWorld
      /\ procLedger' = DecrefLedger({"doneR", "stopW"})
  BY DEF proc_finish
<1>2. Verdict \in ProcResults
  BY Fields DEF Verdict, ProcResults, WorldType
<1>3. n \in Int
  BY Fields
<1>4. /\ procTask' \in TaskType /\ procTask'.pc = "ended" /\ procTask'.args = procTask.args
      /\ procTask'.arr = procTask.arr /\ procTask'.result = Verdict
  BY <1>1, <1>2, Fields DEF TaskType, TaskPlaces
<1> HIDE DEF n
<1>5. /\ procReq' \in ReqType /\ procReq'.helper = procReq.helper /\ procReq'.exited = procReq.exited
      /\ procReq'.ends = procReq.ends /\ procReq'.refs = n /\ procReq'.flags = procReq.flags
      /\ procReq'.ready = procReq.ready /\ procReq'.read = procReq.read /\ procReq'.kept = procReq.kept /\ procReq'.broken = procReq.broken
  BY <1>1, <1>3, Fields DEF ReqType
<1>6. /\ procTask.pc = "finish" /\ procWorld' = procWorld /\ procLedger' = DecrefLedger({"doneR", "stopW"})
      /\ procReq.helper \in {"shut", "drop", "gone"}
  BY <1>1 DEF ProcInv, PlacesSound
<1>7. procLedger' \in LedgerType /\ LedgerSound' /\ RefsSound'
  BY <1>4, <1>5, <1>6, TaskLeaves DEF n, Waiting
<1>8. ProcType'
  BY <1>4, <1>5, <1>6, <1>7, Fields DEF ProcType
<1>9. PlacesSound'
  BY <1>4, <1>5, <1>6 DEF ProcInv, PlacesSound, HelperHeld, Before, Waiting
<1>10. ChildSound'
  BY <1>4, <1>5, <1>6 DEF ProcInv, ChildSound
<1>11. ReadSound'
  BY <1>5, <1>6 DEF ProcInv, ReadSound
<1>12. VerdictSound'
  <2>1. Drained' <=> Drained
    BY <1>5, <1>6 DEF Drained
  <2>2. Verdict \in {"exit", "signal"} => Clean
    BY DEF Verdict, Clean
  <2>3. Verdict = "overflow" => "overflow" \in procReq.flags
    BY Fields DEF Verdict, WorldType
  <2>4. Clean => Drained
    BY <1>6 DEF ProcInv, VerdictSound
  <2> QED BY <1>4, <1>5, <1>6, <2>1, <2>2, <2>3, <2>4 DEF ProcInv, VerdictSound, Clean
<1> QED BY <1>7, <1>8, <1>9, <1>10, <1>11, <1>12 DEF ProcInv

-----------------------------------------------------------------------------
(* The collection *)

(* The helper leaves the collection for the reap. *)
LEMMA CollectEnds ==
  ASSUME ProcInv, procReq.helper = "poll", UNCHANGED <<procTask, procLedger>>, procReq' \in ReqType,
         procReq'.helper = "reap", procReq'.ends = procReq.ends, procReq'.refs = procReq.refs,
         procReq'.exited = procReq.exited, "done" \in procReq'.flags => "done" \in procReq.flags,
         procWorld' = procWorld \/ procWorld' = proc_kill, ReadSound', VerdictSound'
  PROVE  ProcInv'
<1>1. procWorld' \in WorldType
  BY KillFields, Fields
<1>2. ProcType'
  BY <1>1, Fields DEF ProcType
<1>3. LedgerSound'
  BY SameTask DEF ProcInv, LedgerSound, HelperHeld, SharedHeld
<1>4. PlacesSound'
  BY SameTask DEF ProcInv, PlacesSound, HelperHeld, Before, Waiting
<1>5. RefsSound'
  BY DEF ProcInv, RefsSound
<1>6. procTask.pc \notin Before
  BY HasHelper
<1>7. CASE procWorld' = proc_kill
  <2>1. ChildSound'
    BY <1>6, <1>7, KilledChild DEF Finished, HelperPlaces
  <2> QED BY <1>2, <1>3, <1>4, <1>5, <2>1 DEF ProcInv
<1>8. CASE procWorld' = procWorld
  <2>1. ChildSound'
    BY <1>6, <1>8 DEF ProcInv, ChildSound, Before, Finished
  <2> QED BY <1>2, <1>3, <1>4, <1>5, <2>1 DEF ProcInv
<1> QED BY <1>7, <1>8

(* The helper goes on collecting. *)
LEMMA CollectGoes ==
  ASSUME ProcInv, procReq.helper = "poll", UNCHANGED <<procTask, procWorld>>, procReq' \in ReqType,
         procReq'.helper = "poll", procReq'.refs = procReq.refs, procReq'.exited = procReq.exited,
         procReq'.flags = procReq.flags, "doneW" \in procReq.ends => "doneW" \in procReq'.ends,
         procLedger' \in LedgerType, LedgerSound', ReadSound'
  PROVE  ProcInv'
<1>1. ProcType'
  BY Fields DEF ProcType
<1>2. PlacesSound'
  BY HasHelper, SameTask DEF ProcInv, PlacesSound, Before, Waiting
<1>3. RefsSound'
  BY DEF ProcInv, RefsSound
<1>4. ChildSound'
  BY DEF ProcInv, ChildSound
<1>5. VerdictSound'
  BY DEF ProcInv, VerdictSound, ReadSound
<1> QED BY <1>1, <1>2, <1>3, <1>4, <1>5 DEF ProcInv

(* Leaving the collection with the flags in F. *)
LEMMA ToReapFields ==
  ASSUME ProcInv, NEW F, F \subseteq ProcFlags, procReq' = ToReap(F)
  PROVE  /\ procReq' \in ReqType /\ procReq'.helper = "reap" /\ procReq'.exited = procReq.exited
         /\ procReq'.ends = procReq.ends /\ procReq'.refs = procReq.refs
         /\ procReq'.flags = procReq.flags \cup F /\ procReq'.ready = {}
         /\ procReq'.read = procReq.read /\ procReq'.kept = procReq.kept /\ procReq'.broken = procReq.broken
<1> DEFINE f == procReq.flags \cup F
           e == {}
<1>1. f \subseteq ProcFlags /\ e \subseteq {"out", "err", "in"} /\ "reap" \in HelperPlaces
  BY Fields DEF HelperPlaces
<1>2. procReq' = [procReq EXCEPT !.helper = "reap", !.ready = e, !.flags = f]
  BY Fields DEF ToReap, ReqType
<1> HIDE DEF f, e
<1>3. /\ procReq' \in ReqType /\ procReq'.helper = "reap" /\ procReq'.exited = procReq.exited
      /\ procReq'.ends = procReq.ends /\ procReq'.refs = procReq.refs
      /\ procReq'.flags = f /\ procReq'.ready = e
      /\ procReq'.read = procReq.read /\ procReq'.kept = procReq.kept /\ procReq'.broken = procReq.broken
  BY <1>1, <1>2, Fields DEF ReqType
<1> QED BY <1>3 DEF f, e

(* A failure of the helper's own: the child is killed and the result says   *)
(* so.                                                                      *)
LEMMA FailsInv ==
  ASSUME ProcInv, procReq.helper = "poll", procReq' = ToReap({"failure"}), procWorld' = proc_kill,
         UNCHANGED <<procTask, procLedger>>
  PROVE  ProcInv'
<1> DEFINE F == {"failure"}
<1>1. F \subseteq ProcFlags /\ procReq' = ToReap(F)
  BY DEF ProcFlags
<1>2. /\ procReq' \in ReqType /\ procReq'.helper = "reap" /\ procReq'.exited = procReq.exited
      /\ procReq'.ends = procReq.ends /\ procReq'.refs = procReq.refs
      /\ procReq'.flags = procReq.flags \cup F /\ procReq'.ready = {}
      /\ procReq'.read = procReq.read /\ procReq'.kept = procReq.kept /\ procReq'.broken = procReq.broken
  BY <1>1, ToReapFields
<1>3. procWorld'.wrote = procWorld.wrote
  BY KillFields
<1>4. ReadSound'
  BY <1>2, <1>3 DEF ProcInv, ReadSound
<1>5. VerdictSound'
  BY <1>2 DEF ProcInv, VerdictSound, Clean
<1> QED BY <1>2, <1>4, <1>5, CollectEnds

(* One poll of proc_collect.                                                *)
LEMMA PollInv ==
  ASSUME ProcInv, proc_poll
  PROVE  ProcInv'
<1> DEFINE open == procReq.ends \cap {"outR", "errR", "inW"}
<1>1. procReq.helper = "poll" /\ procTask' = procTask /\ procLedger' = procLedger
  BY DEF proc_poll
<1>2. CASE (open = {} \/ StopReadable) /\ procReq' = ToReap({}) /\ UNCHANGED procWorld
  <2> DEFINE F == {}
  <2>1. F \subseteq ProcFlags /\ procReq' = ToReap(F)
    BY <1>2
  <2>2. /\ procReq' \in ReqType /\ procReq'.helper = "reap" /\ procReq'.exited = procReq.exited
        /\ procReq'.ends = procReq.ends /\ procReq'.refs = procReq.refs
        /\ procReq'.flags = procReq.flags /\ procReq'.ready = {}
        /\ procReq'.read = procReq.read /\ procReq'.kept = procReq.kept /\ procReq'.broken = procReq.broken
    BY <2>1, ToReapFields
  <2>3. procWorld' = procWorld
    BY <1>2
  <2>4. ReadSound'
    BY <2>2, <2>3 DEF ProcInv, ReadSound
  <2>5. ASSUME Clean, procTask.pc # "dropped" PROVE Drained
    <3>1. procTask.pc \in Waiting
      <4>1. procTask.pc \in Waiting \cup {"ended", "dropped"}
        BY <1>1, HasHelper
      <4>2. procTask.pc # "ended"
        BY <1>1 DEF ProcInv, PlacesSound
      <4> QED BY <2>5, <4>1, <4>2
    <3>2. "stopW" \in procLedger.live
      BY <3>1 DEF ProcInv, LedgerSound, TaskHeld
    <3>3. "stop" \notin procReq.flags
      BY <2>5 DEF ProcInv, VerdictSound, Clean
    <3>4. open = {}
      BY <1>2, <3>2, <3>3 DEF StopReadable
    <3>5. \A s \in ProcStreams : ReadEnd(s) \notin procReq.ends
      BY <3>4 DEF ProcStreams, ReadEnd
    <3> QED BY <1>1, <3>5 DEF ProcInv, ReadSound, Drained
  <2>6. VerdictSound'
    <3>1. (Drained' <=> Drained) /\ (Clean' <=> Clean)
      BY <2>2, <2>3 DEF Drained, Clean
    <3> QED BY <1>1, <2>2, <2>3, <2>5, <3>1 DEF ProcInv, VerdictSound
  <2> QED BY <1>1, <2>2, <2>3, <2>4, <2>6, CollectEnds
<1>3. ASSUME NEW in \in {{}} \cup (IF "inW" \in open THEN {{"in"}} ELSE {}),
             procReq' = [procReq EXCEPT !.ready = {s \in ProcStreams : Readable(s)} \cup in], UNCHANGED procWorld
      PROVE  ProcInv'
  <2> DEFINE r == {s \in ProcStreams : Readable(s)} \cup in
  <2>1. r \subseteq {"out", "err", "in"} /\ \A s \in ProcStreams : s \in r => Readable(s)
    BY DEF ProcStreams
  <2>2. procReq' = [procReq EXCEPT !.ready = r] /\ procWorld' = procWorld
    BY <1>3
  <2> HIDE DEF r
  <2>3. /\ procReq' \in ReqType /\ procReq'.helper = procReq.helper /\ procReq'.exited = procReq.exited
        /\ procReq'.ends = procReq.ends /\ procReq'.refs = procReq.refs
        /\ procReq'.flags = procReq.flags /\ procReq'.ready = r
        /\ procReq'.read = procReq.read /\ procReq'.kept = procReq.kept /\ procReq'.broken = procReq.broken
    BY <2>1, <2>2, Fields DEF ReqType
  <2>4. LedgerSound'
    BY <1>1, <2>3, SameTask DEF ProcInv, LedgerSound, HelperHeld, SharedHeld
  <2>5. \A s \in ProcStreams : s \in r => procReq.read[s] < procWorld.wrote[s] \/ procWorld.holds[s] = {}
    BY <2>1, Fields DEF Readable, Pending
  <2>6. ReadSound'
    BY <1>1, <2>2, <2>3, <2>5 DEF ProcInv, ReadSound
  <2> QED BY <1>1, <2>2, <2>3, <2>4, <2>6, Fields, CollectGoes
<1>4. CASE procReq' = ToReap({"failure"}) /\ procWorld' = proc_kill
  BY <1>1, <1>4, FailsInv
<1> QED BY <1>2, <1>3, <1>4 DEF proc_poll

(* A reported stream is at its end of file when nothing is pending: only    *)
(* then is it closed, unless its read failed.                               *)
LEMMA AbsorbEofInv ==
  ASSUME ProcInv, NEW s \in ProcStreams, Serves(s), CloseFields({ReadEnd(s)}),
         NEW fails \in {{}, {s}}, fails = {} => Pending(s) = 0,
         procReq' = [procReq EXCEPT !.ready = @ \ {s}, !.ends = @ \ {ReadEnd(s)}, !.broken = @ \cup fails],
         procWorld' = procWorld, procTask' = procTask
  PROVE  ProcInv'
<1> DEFINE S == {ReadEnd(s)}
           e == procReq.ends \ S
           r == procReq.ready \ {s}
           b == procReq.broken \cup fails
<1>1. procReq.helper = "poll" /\ s \in procReq.ready
  BY DEF Serves
<1>2. procReq' = [procReq EXCEPT !.ready = r, !.ends = e, !.broken = b]
  BY Fields DEF ReqType
<1>3. e \subseteq RequestEnds /\ r \subseteq {"out", "err", "in"} /\ S \subseteq HelperEnds /\ "doneW" \notin S
      /\ b \subseteq ProcStreams
  BY Fields DEF ReadEnd, HelperEnds
<1> HIDE DEF e, r, b
<1>4. /\ procReq' \in ReqType /\ procReq'.helper = procReq.helper /\ procReq'.exited = procReq.exited
      /\ procReq'.ends = e /\ procReq'.refs = procReq.refs
      /\ procReq'.flags = procReq.flags /\ procReq'.ready = r
      /\ procReq'.read = procReq.read /\ procReq'.kept = procReq.kept /\ procReq'.broken = b
  BY <1>2, <1>3, Fields DEF ReqType
<1>5. procLedger' \in LedgerType /\ LedgerSound'
  BY <1>3, <1>4, ClosesLedger DEF e
<1>6. ASSUME s \notin b
      PROVE  procReq.read[s] = procWorld.wrote[s] /\ procWorld.holds[s] = {}
  <2>3. Pending(s) = 0
    BY <1>6 DEF b
  <2>1. procReq.read[s] = procWorld.wrote[s]
    BY <2>3, Fields DEF ProcInv, ReadSound, Pending
  <2>2. procReq.read[s] < procWorld.wrote[s] \/ procWorld.holds[s] = {}
    BY <1>1 DEF ProcInv, ReadSound
  <2> QED BY <2>1, <2>2, Fields
<1>7. ReadSound'
  <2>1. \A x \in ProcStreams : x # s => (ReadEnd(x) \notin procReq'.ends <=> ReadEnd(x) \notin procReq.ends)
    BY <1>4 DEF ProcStreams, ReadEnd, e
  <2>2. \A x \in ProcStreams : x \in procReq'.ready => x \in procReq.ready
    BY <1>4 DEF r
  <2>3. procReq.broken \subseteq b
    BY DEF b
  <2> QED BY <1>1, <1>4, <1>6, <2>1, <2>2, <2>3 DEF ProcInv, ReadSound
<1> QED BY <1>1, <1>3, <1>4, <1>5, <1>7, CollectGoes DEF e

(* A read that was interrupted leaves the stream for the next poll.         *)
LEMMA AbsorbAgainInv ==
  ASSUME ProcInv, NEW s \in ProcStreams, Serves(s), procReq' = [procReq EXCEPT !.ready = @ \ {s}],
         UNCHANGED <<procTask, procWorld, procLedger>>
  PROVE  ProcInv'
<1> DEFINE r == procReq.ready \ {s}
<1>1. procReq.helper = "poll" /\ procReq' = [procReq EXCEPT !.ready = r]
  BY Fields DEF Serves, ReqType
<1>2. r \subseteq {"out", "err", "in"}
  BY Fields
<1> HIDE DEF r
<1>3. /\ procReq' \in ReqType /\ procReq'.helper = procReq.helper /\ procReq'.exited = procReq.exited
      /\ procReq'.ends = procReq.ends /\ procReq'.refs = procReq.refs
      /\ procReq'.flags = procReq.flags /\ procReq'.ready = r
      /\ procReq'.read = procReq.read /\ procReq'.kept = procReq.kept /\ procReq'.broken = procReq.broken
  BY <1>1, <1>2, Fields DEF ReqType
<1>4. LedgerSound'
  BY <1>3, SameTask DEF ProcInv, LedgerSound, HelperHeld, SharedHeld
<1>5. ReadSound'
  BY <1>1, <1>3 DEF ProcInv, ReadSound, r
<1> QED BY <1>1, <1>3, <1>4, <1>5, Fields, CollectGoes

(* n units are read of a stream and `take` of them kept.                    *)
LEMMA AppendFields ==
  ASSUME ProcInv, NEW s \in ProcStreams, NEW n \in Nat, NEW take \in Nat
  PROVE  LET q == proc_buf_append(s, n, take)
         IN /\ q \in ReqType /\ q.helper = procReq.helper /\ q.exited = procReq.exited
            /\ q.ends = procReq.ends /\ q.refs = procReq.refs /\ q.flags = procReq.flags /\ q.ready = procReq.ready
            /\ q.read[s] = procReq.read[s] + n /\ q.kept[s] = procReq.kept[s] + take /\ q.broken = procReq.broken
            /\ \A x \in ProcStreams : x # s => q.read[x] = procReq.read[x] /\ q.kept[x] = procReq.kept[x]
<1> DEFINE a == [procReq.read EXCEPT ![s] = procReq.read[s] + n]
           b == [procReq.kept EXCEPT ![s] = procReq.kept[s] + take]
           q == proc_buf_append(s, n, take)
<1>1. /\ a \in [ProcStreams -> Nat] /\ b \in [ProcStreams -> Nat]
      /\ a[s] = procReq.read[s] + n /\ b[s] = procReq.kept[s] + take
      /\ \A x \in ProcStreams : x # s => a[x] = procReq.read[x] /\ b[x] = procReq.kept[x]
  BY Fields
<1>2. q = [procReq EXCEPT !.read = a, !.kept = b]
  BY Fields DEF proc_buf_append, ReqType
<1> HIDE DEF a, b, q
<1>3. /\ q \in ReqType /\ q.helper = procReq.helper /\ q.exited = procReq.exited
      /\ q.ends = procReq.ends /\ q.refs = procReq.refs /\ q.flags = procReq.flags /\ q.ready = procReq.ready
      /\ q.read = a /\ q.kept = b /\ q.broken = procReq.broken
  BY <1>1, <1>2, Fields DEF ReqType
<1>4. /\ q \in ReqType /\ q.helper = procReq.helper /\ q.exited = procReq.exited
      /\ q.ends = procReq.ends /\ q.refs = procReq.refs /\ q.flags = procReq.flags /\ q.ready = procReq.ready
      /\ q.read[s] = procReq.read[s] + n /\ q.kept[s] = procReq.kept[s] + take /\ q.broken = procReq.broken
      /\ \A x \in ProcStreams : x # s => q.read[x] = procReq.read[x] /\ q.kept[x] = procReq.kept[x]
  BY <1>1, <1>3
<1> QED BY <1>4 DEF q

(* What is read is kept up to the cap; one unit more is an overflow.        *)
LEMMA AbsorbDataInv ==
  ASSUME ProcInv, NEW s \in ProcStreams, Serves(s), NEW n \in 1..Pending(s),
         procTask' = procTask, procLedger' = procLedger,
         LET room == ProcCap - procReq.kept[s]
             took == proc_buf_append(s, n, IF n < room THEN n ELSE room)
         IN IF n > room
            THEN /\ procReq' = [took EXCEPT !.helper = "reap", !.ready = {}, !.flags = @ \cup {"overflow"}]
                 /\ procWorld' = proc_kill
            ELSE /\ procReq' = [took EXCEPT !.ready = @ \ {s}]
                 /\ UNCHANGED procWorld
  PROVE  ProcInv'
<1> DEFINE room == ProcCap - procReq.kept[s]
           take == IF n < room THEN n ELSE room
           q    == proc_buf_append(s, n, take)
<1>1. procReq.helper = "poll" /\ s \in procReq.ready
  BY DEF Serves
<1>2. /\ \A x \in ProcStreams : /\ procReq.read[x] \in Nat /\ procReq.kept[x] \in Nat /\ procWorld.wrote[x] \in Nat
                                /\ procReq.read[x] <= procWorld.wrote[x] /\ procReq.kept[x] <= ProcCap
                                /\ procReq.kept[x] = procReq.read[x]
      /\ "overflow" \notin procReq.flags
  BY <1>1, Fields DEF ProcInv, ReadSound
<1>3. n \in Nat /\ n > 0 /\ procReq.read[s] + n <= procWorld.wrote[s]
  BY <1>2 DEF Pending
<1>4. room \in Nat /\ take \in Nat /\ take <= n /\ take <= room /\ (~(n > room) => take = n)
  BY <1>2, <1>3
<1>5. /\ q \in ReqType /\ q.helper = procReq.helper /\ q.exited = procReq.exited
      /\ q.ends = procReq.ends /\ q.refs = procReq.refs /\ q.flags = procReq.flags /\ q.ready = procReq.ready
      /\ q.read[s] = procReq.read[s] + n /\ q.kept[s] = procReq.kept[s] + take /\ q.broken = procReq.broken
      /\ \A x \in ProcStreams : x # s => q.read[x] = procReq.read[x] /\ q.kept[x] = procReq.kept[x]
  BY <1>3, <1>4, AppendFields
<1>6. CASE n > room
  <2> DEFINE f == q.flags \cup {"overflow"}
             e == {}
  <2>1. procReq' = [q EXCEPT !.helper = "reap", !.ready = e, !.flags = f] /\ procWorld' = proc_kill
    <3> HIDE DEF q
    <3> QED BY <1>5, <1>6 DEF ReqType, q
  <2>2. f \subseteq ProcFlags /\ e \subseteq {"out", "err", "in"} /\ "reap" \in HelperPlaces
    BY <1>5, Fields DEF ProcFlags, HelperPlaces
  <2> HIDE DEF f, e, q
  <2>3. /\ procReq' \in ReqType /\ procReq'.helper = "reap" /\ procReq'.exited = q.exited
        /\ procReq'.ends = q.ends /\ procReq'.refs = q.refs /\ procReq'.flags = f /\ procReq'.ready = e
        /\ procReq'.read = q.read /\ procReq'.kept = q.kept /\ procReq'.broken = q.broken
    BY <1>5, <2>1, <2>2 DEF ReqType
  <2>4. f = procReq.flags \cup {"overflow"}
    BY <1>5 DEF f
  <2>5. procWorld'.wrote = procWorld.wrote
    BY <1>1, <2>1, KillFields
  <2> HIDE DEF room, take
  <2>6. \A x \in ProcStreams : procReq'.read[x] <= procWorld'.wrote[x] /\ procReq'.kept[x] <= ProcCap
    <3>1. procReq.kept[s] + take <= ProcCap
      BY <1>2, <1>4 DEF room
    <3> QED BY <1>2, <1>3, <1>5, <2>3, <2>5, <3>1
  <2>7. ReadSound'
    BY <2>3, <2>4, <2>6 DEF ReadSound
  <2>8. procReq'.read[s] > ProcCap
    <3>1. n > ProcCap - procReq.kept[s]
      BY <1>6 DEF room
    <3> QED BY <1>2, <1>3, <1>5, <2>3, <3>1
  <2>9. VerdictSound'
    BY <1>1, <2>3, <2>4, <2>8 DEF ProcInv, VerdictSound, Clean
  <2> QED BY <1>1, <1>5, <2>1, <2>3, <2>4, <2>7, <2>9, CollectEnds
<1>7. CASE ~(n > room)
  <2> DEFINE r == q.ready \ {s}
  <2>1. procReq' = [q EXCEPT !.ready = r] /\ procWorld' = procWorld
    <3> HIDE DEF q
    <3> QED BY <1>5, <1>7 DEF ReqType, q
  <2>2. r \subseteq {"out", "err", "in"}
    BY <1>5, Fields
  <2> HIDE DEF r, q
  <2>3. /\ procReq' \in ReqType /\ procReq'.helper = q.helper /\ procReq'.exited = q.exited
        /\ procReq'.ends = q.ends /\ procReq'.refs = q.refs /\ procReq'.flags = q.flags /\ procReq'.ready = r
        /\ procReq'.read = q.read /\ procReq'.kept = q.kept /\ procReq'.broken = q.broken
    BY <1>5, <2>1, <2>2 DEF ReqType
  <2>4. LedgerSound'
    BY <1>5, <2>3, SameTask DEF ProcInv, LedgerSound, HelperHeld, SharedHeld
  <2>5. procReq.kept[s] + take <= ProcCap /\ procReq.kept[s] + take = procReq.read[s] + n
    BY <1>2, <1>4, <1>7
  <2> HIDE DEF room, take
  <2>6. ReadEnd(s) \in procReq.ends \/ s \in procReq.broken
    BY <1>1, <1>2, <1>3 DEF ProcInv, ReadSound
  <2>7. ReadSound'
    <3> SUFFICES ASSUME NEW x \in ProcStreams
                 PROVE  /\ procReq'.read[x] <= procWorld'.wrote[x] /\ procReq'.kept[x] <= ProcCap
                        /\ procReq'.kept[x] = procReq'.read[x]
                        /\ x \in procReq'.ready => procReq'.read[x] < procWorld'.wrote[x] \/ procWorld'.holds[x] = {}
                        /\ ReadEnd(x) \notin procReq'.ends /\ x \notin procReq'.broken =>
                             procReq'.read[x] = procWorld'.wrote[x] /\ procWorld'.holds[x] = {}
      BY <1>2, <1>5, <2>3 DEF ReadSound
    <3>1. CASE x = s
      BY <1>2, <1>3, <1>5, <2>1, <2>3, <2>5, <2>6, <3>1 DEF r
    <3>2. CASE x # s
      <4>1. /\ x \in procReq.ready => procReq.read[x] < procWorld.wrote[x] \/ procWorld.holds[x] = {}
            /\ ReadEnd(x) \notin procReq.ends /\ x \notin procReq.broken =>
                 procReq.read[x] = procWorld.wrote[x] /\ procWorld.holds[x] = {}
        BY <1>1 DEF ProcInv, ReadSound
      <4> QED BY <1>2, <1>5, <2>1, <2>3, <3>2, <4>1 DEF r
    <3> QED BY <3>1, <3>2
  <2> QED BY <1>1, <1>5, <2>1, <2>3, <2>4, <2>7, Fields, CollectGoes
<1> QED BY <1>6, <1>7

(* A piece of one output stream is read.                                    *)
LEMMA AbsorbInv ==
  ASSUME ProcInv, NEW s \in ProcStreams, proc_absorb(s)
  PROVE  ProcInv'
<1>1. Serves(s) /\ procTask' = procTask /\ procReq.helper = "poll"
  BY DEF proc_absorb, Serves
<1> QED BY <1>1, AbsorbEofInv, AbsorbAgainInv, AbsorbDataInv, FailsInv DEF proc_absorb

(* The child's stdin is fed, and closed when there is no more. *)
LEMMA FeedInv ==
  ASSUME ProcInv, proc_feed
  PROVE  ProcInv'
<1> DEFINE S == {"inW"}
           e == procReq.ends \ S
           none == {}
<1>1. procReq.helper = "poll" /\ procTask' = procTask /\ procWorld' = procWorld
  BY DEF proc_feed, Serves
<1>2. e \subseteq RequestEnds /\ none \subseteq {"out", "err", "in"} /\ S \subseteq HelperEnds
      /\ \A s \in ProcStreams : ReadEnd(s) \in e <=> ReadEnd(s) \in procReq.ends
  BY Fields DEF HelperEnds, ReadEnd
<1>3. CASE CloseFields(S) /\ procReq' = [procReq EXCEPT !.ready = none, !.ends = e]
  <2> HIDE DEF none, e
  <2>1. /\ procReq' \in ReqType /\ procReq'.helper = procReq.helper /\ procReq'.exited = procReq.exited
        /\ procReq'.ends = e /\ procReq'.refs = procReq.refs
        /\ procReq'.flags = procReq.flags /\ procReq'.ready = none
        /\ procReq'.read = procReq.read /\ procReq'.kept = procReq.kept /\ procReq'.broken = procReq.broken
    BY <1>2, <1>3, Fields DEF ReqType
  <2>2. procLedger' \in LedgerType /\ LedgerSound'
    BY <1>1, <1>2, <1>3, <2>1, ClosesLedger DEF e
  <2>3. ReadSound'
    BY <1>1, <1>2, <2>1 DEF ProcInv, ReadSound, none
  <2>4. "doneW" \in procReq.ends => "doneW" \in procReq'.ends
    BY <2>1 DEF e
  <2> QED BY <1>1, <2>1, <2>2, <2>3, <2>4, CollectGoes
<1>4. CASE procReq' = [procReq EXCEPT !.ready = none] /\ procLedger' = procLedger
  <2> HIDE DEF none
  <2>1. /\ procReq' \in ReqType /\ procReq'.helper = procReq.helper /\ procReq'.exited = procReq.exited
        /\ procReq'.ends = procReq.ends /\ procReq'.refs = procReq.refs
        /\ procReq'.flags = procReq.flags /\ procReq'.ready = none
        /\ procReq'.read = procReq.read /\ procReq'.kept = procReq.kept /\ procReq'.broken = procReq.broken
    BY <1>2, <1>4, Fields DEF ReqType
  <2>2. LedgerSound'
    BY <1>1, <1>4, <2>1, SameTask DEF ProcInv, LedgerSound, HelperHeld, SharedHeld
  <2>3. ReadSound'
    BY <1>1, <2>1 DEF ProcInv, ReadSound, none
  <2> QED BY <1>1, <1>4, <2>1, <2>2, <2>3, Fields, CollectGoes
<1> QED BY <1>3, <1>4, Fields DEF proc_feed, ReqType

-----------------------------------------------------------------------------
(* The child and its descendants: a stream nobody holds is never written.   *)
LEMMA WorldStep ==
  ASSUME ProcInv, UNCHANGED <<procTask, procReq, procLedger>>, procWorld' \in WorldType,
         procWorld'.strike = procWorld.strike,
         \A s \in ProcStreams : procWorld.wrote[s] <= procWorld'.wrote[s],
         \A s \in ProcStreams : procWorld.holds[s] = {} =>
              procWorld'.holds[s] = {} /\ procWorld'.wrote[s] = procWorld.wrote[s],
         \/ procWorld'.child = procWorld.child
         \/ procWorld.child = "forked" /\ procWorld'.child \in {"running", "zombie"}
         \/ procWorld.child = "running" /\ procWorld'.child = "zombie"
  PROVE  ProcInv'
<1>1. ProcType'
  BY Fields DEF ProcType
<1>2. LedgerSound' /\ PlacesSound' /\ RefsSound'
  BY SameTask DEF ProcInv, LedgerSound, PlacesSound, RefsSound, HelperHeld, SharedHeld
<1>3. ChildSound'
  BY DEF ProcInv, ChildSound
<1>4. ReadSound'
  <2>1. \A s \in ProcStreams : /\ procReq.read[s] \in Nat /\ procWorld.wrote[s] \in Nat /\ procWorld'.wrote[s] \in Nat
    BY Fields DEF WorldType
  <2> QED BY <2>1 DEF ProcInv, ReadSound
<1>5. VerdictSound'
  BY DEF ProcInv, VerdictSound, Drained, Clean
<1> QED BY <1>1, <1>2, <1>3, <1>4, <1>5 DEF ProcInv

(* The child execs, or fails to.                                            *)
LEMMA ChildExecInv ==
  ASSUME ProcInv, proc_child_exec
  PROVE  ProcInv'
<1> DEFINE h == [s \in ProcStreams |-> {}]
<1>1. procWorld.child = "forked" /\ UNCHANGED <<procTask, procReq, procLedger>>
  BY DEF proc_child_exec
<1>2. CASE procWorld' = [procWorld EXCEPT !.child = "running"]
  <2>1. /\ procWorld' \in WorldType /\ procWorld'.child = "running" /\ procWorld'.strike = procWorld.strike
        /\ procWorld'.holds = procWorld.holds /\ procWorld'.wrote = procWorld.wrote
    BY <1>2, Fields DEF WorldType, Children
  <2> QED BY <1>1, <2>1, Fields, WorldStep
<1>3. CASE procWorld' = [procWorld EXCEPT !.child = "zombie", !.status = "noexec", !.holds = h]
  <2>1. h \in [ProcStreams -> SUBSET {"child", "kin", "stray"}] /\ \A s \in ProcStreams : h[s] = {}
    OBVIOUS
  <2> HIDE DEF h
  <2>2. /\ procWorld' \in WorldType /\ procWorld'.child = "zombie" /\ procWorld'.strike = procWorld.strike
        /\ procWorld'.holds = h /\ procWorld'.wrote = procWorld.wrote
    BY <1>3, <2>1, Fields DEF WorldType, Children
  <2> QED BY <1>1, <2>1, <2>2, Fields, WorldStep
<1> QED BY <1>2, <1>3 DEF proc_child_exec

(* The child and the kernel act.                                            *)
LEMMA OutsideInv ==
  ASSUME ProcInv, ProcOutside
  PROVE  ProcInv'
<1>1. UNCHANGED <<procTask, procReq, procLedger>>
  BY DEF ProcOutside
<1>2. /\ procWorld \in WorldType /\ procWorld.wrote \in [ProcStreams -> Nat]
      /\ procWorld.holds \in [ProcStreams -> SUBSET {"child", "kin", "stray"}]
  BY Fields DEF WorldType
<1>3. ASSUME NEW s \in ProcStreams, procWorld.holds[s] # {}, procWorld' = [procWorld EXCEPT !.wrote[s] = @ + 1]
      PROVE  ProcInv'
  <2> DEFINE w == [procWorld.wrote EXCEPT ![s] = procWorld.wrote[s] + 1]
  <2>1. /\ w \in [ProcStreams -> Nat] /\ \A x \in ProcStreams : procWorld.wrote[x] <= w[x]
        /\ \A x \in ProcStreams : x # s => w[x] = procWorld.wrote[x]
    BY <1>2
  <2>2. procWorld' = [procWorld EXCEPT !.wrote = w]
    BY <1>2, <1>3 DEF WorldType
  <2> HIDE DEF w
  <2>3. /\ procWorld' \in WorldType /\ procWorld'.child = procWorld.child /\ procWorld'.strike = procWorld.strike
        /\ procWorld'.holds = procWorld.holds /\ procWorld'.wrote = w
    BY <1>2, <2>1, <2>2 DEF WorldType
  <2> QED BY <1>1, <1>3, <2>1, <2>3, WorldStep
<1>4. ASSUME NEW h \in [ProcStreams -> SUBSET {"child", "kin", "stray"}], procWorld' = [procWorld EXCEPT !.holds = h],
             \A x \in ProcStreams : procWorld.holds[x] = {} => h[x] = {}
      PROVE  ProcInv'
  <2>1. /\ procWorld' \in WorldType /\ procWorld'.child = procWorld.child /\ procWorld'.strike = procWorld.strike
        /\ procWorld'.holds = h /\ procWorld'.wrote = procWorld.wrote
    BY <1>2, <1>4 DEF WorldType
  <2> QED BY <1>1, <1>2, <1>4, <2>1, WorldStep
<1>5. ASSUME NEW kind \in {"kin", "stray"}, \A s \in ProcStreams : procWorld.holds[s] = {"child"},
             procWorld' = [procWorld EXCEPT !.holds = [s \in ProcStreams |-> {"child", kind}]]
      PROVE  ProcInv'
  <2> DEFINE h == [s \in ProcStreams |-> {"child", kind}]
  <2>1. h \in [ProcStreams -> SUBSET {"child", "kin", "stray"}]
    OBVIOUS
  <2>2. \A x \in ProcStreams : procWorld.holds[x] = {} => h[x] = {}
    BY <1>5
  <2> QED BY <1>4, <1>5, <2>1, <2>2
<1>6. ASSUME NEW s \in ProcStreams, NEW p \in procWorld.holds[s], procWorld' = [procWorld EXCEPT !.holds[s] = @ \ {p}]
      PROVE  ProcInv'
  <2> DEFINE h == [procWorld.holds EXCEPT ![s] = procWorld.holds[s] \ {p}]
  <2>1. h \in [ProcStreams -> SUBSET {"child", "kin", "stray"}]
    BY <1>2
  <2>2. \A x \in ProcStreams : procWorld.holds[x] = {} => h[x] = {}
    BY <1>2
  <2>3. procWorld' = [procWorld EXCEPT !.holds = h]
    BY <1>2, <1>6 DEF WorldType
  <2> HIDE DEF h
  <2> QED BY <1>4, <2>1, <2>2, <2>3
<1>7. ASSUME NEW how \in {"exit", "signal"}, procWorld.child = "running",
             procWorld' = [procWorld EXCEPT !.child = "zombie", !.status = how,
                                            !.holds = [s \in ProcStreams |-> @[s] \ {"child"}]]
      PROVE  ProcInv'
  <2> DEFINE h == [s \in ProcStreams |-> procWorld.holds[s] \ {"child"}]
  <2>1. /\ h \in [ProcStreams -> SUBSET {"child", "kin", "stray"}]
        /\ \A x \in ProcStreams : procWorld.holds[x] = {} => h[x] = {}
    BY <1>2
  <2>2. procWorld' = [procWorld EXCEPT !.child = "zombie", !.status = how, !.holds = h]
    BY <1>2, <1>7 DEF WorldType
  <2> HIDE DEF h
  <2>3. /\ procWorld' \in WorldType /\ procWorld'.child = "zombie" /\ procWorld'.strike = procWorld.strike
        /\ procWorld'.holds = h /\ procWorld'.wrote = procWorld.wrote
    BY <1>2, <2>1, <2>2 DEF WorldType, Children
  <2> QED BY <1>1, <1>2, <1>7, <2>1, <2>3, WorldStep
<1> QED BY <1>3, <1>5, <1>6, <1>7 DEF ProcOutside

-----------------------------------------------------------------------------
(* The task before it has a helper *)

(* Steps that only touch the frame, the ledger and the child.               *)
LEMMA EarlyStep ==
  ASSUME ProcInv, procTask.pc \in Before, procReq' = procReq,
         procTask' \in TaskType, procTask'.pc \in Before \cup {"ended"}, procTask'.result \in {"not_started", procTask.result},
         procWorld' \in WorldType, ~procWorld'.strike, procWorld'.wrote = procWorld.wrote,
         procLedger' \in LedgerType, LedgerSound',
         procTask'.pc \in {"idle", "pipes"} => procTask'.arr = {},
         procTask'.pc = "fork"  => procTask'.arr = AllEnds',
         procTask'.pc = "exec"  => procTask'.arr = AllEnds' \ ChildEnds,
         procTask'.pc = "start" => procTask'.arr = AllEnds' \ (ChildEnds \cup {"execR"}),
         procTask'.pc \in {"idle", "pipes", "fork"} => procWorld'.child = "none",
         procTask'.pc = "exec" => procWorld'.child \in {"forked", "running", "zombie"},
         procTask'.pc = "start" => procWorld'.child \in {"running", "zombie"},
         procTask'.pc = "abort" => procWorld'.child \in {"none", "running", "zombie"},
         procTask'.pc = "ended" => procWorld'.child \in {"none", "reaped"}
  PROVE  ProcInv'
<1>1. procReq.helper = "none" /\ procReq.ends = {} /\ procReq.flags = {} /\ procReq.ready = {}
  BY DEF ProcInv, PlacesSound
<1>2. ProcType'
  BY Fields DEF ProcType
<1>3. PlacesSound'
  BY <1>1 DEF PlacesSound, HelperHeld, Before, Waiting
<1>4. RefsSound'
  BY <1>1 DEF ProcInv, RefsSound, Before, Waiting
<1>5. ChildSound'
  BY <1>1 DEF ProcInv, ChildSound, Finished
<1>6. ReadSound'
  BY <1>1 DEF ProcInv, ReadSound
<1>7. VerdictSound'
  <2>1. procTask.result \notin {"overflow", "exit", "signal"}
    BY <1>1 DEF ProcInv, VerdictSound
  <2> QED BY <1>1, <2>1 DEF VerdictSound
<1> QED BY <1>2, <1>3, <1>4, <1>5, <1>6, <1>7 DEF ProcInv

(* Before there is a helper nothing is held but by the frame. *)
LEMMA EarlyFacts ==
  ASSUME ProcInv, procTask.pc \in Before
  PROVE  /\ procLedger.live = TaskHeld /\ procLedger.wrong = {} /\ HelperHeld = {} /\ SharedHeld = {}
         /\ procReq.refs = 0 /\ procReq.helper = "none" /\ procReq.ends = {} /\ procReq.flags = {}
         /\ procReq.ready = {} /\ ~procReq.exited
<1>1. procReq.helper = "none" /\ procReq.ends = {} /\ procReq.flags = {} /\ procReq.ready = {}
  BY DEF ProcInv, PlacesSound
<1>2. procReq.refs = 0
  BY <1>1 DEF ProcInv, RefsSound, Before, Waiting
<1>3. HelperHeld = {} /\ SharedHeld = {}
  BY <1>1, <1>2 DEF HelperHeld, SharedHeld
<1>4. procLedger.live = TaskHeld /\ procLedger.wrong = {}
  BY <1>3 DEF ProcInv, LedgerSound
<1>5. ~procReq.exited
  BY <1>1 DEF ProcInv, ChildSound, Finished
<1> QED BY <1>1, <1>2, <1>3, <1>4, <1>5

(* So the ledger is what the frame holds afterwards, too. *)
LEMMA EarlyLedger ==
  ASSUME ProcInv, procTask.pc \in Before, procReq' = procReq, procLedger'.wrong = {}, procLedger'.live = TaskHeld'
  PROVE  LedgerSound'
<1>1. HelperHeld' = {} /\ SharedHeld' = {}
  BY EarlyFacts DEF HelperHeld, SharedHeld
<1> QED BY <1>1 DEF LedgerSound

(* argv, the path and the copy of stdin, or none of them.                   *)
LEMMA PrepareInv ==
  ASSUME ProcInv, proc_prepare
  PROVE  ProcInv'
<1>1. procTask.pc = "idle" /\ procReq' = procReq /\ procWorld' = procWorld
  BY DEF proc_prepare
<1>2. /\ procWorld \in WorldType /\ ~procWorld.strike /\ procWorld.child = "none" /\ procTask.arr = {}
  BY <1>1, Fields DEF ProcInv, ChildSound, PlacesSound
<1>3. TaskHeld = {} /\ procTask.pc \in Before
  BY <1>1 DEF TaskHeld, Waiting, Before
<1>4. ASSUME procTask' = [procTask EXCEPT !.pc = "ended", !.result = "not_started"], procLedger' = procLedger
      PROVE  ProcInv'
  <2>1. procTask' \in TaskType /\ procTask'.pc = "ended" /\ procTask'.result = "not_started"
    BY <1>4, Fields DEF TaskType, TaskPlaces, ProcResults
  <2>2. TaskHeld' = {}
    BY <2>1 DEF TaskHeld, Waiting
  <2>3. LedgerSound'
    BY <1>1, <1>3, <1>4, <2>2, EarlyFacts, EarlyLedger
  <2> QED BY <1>1, <1>2, <1>3, <1>4, <2>1, <2>3, Fields, EarlyStep
<1>5. ASSUME procTask' = [procTask EXCEPT !.pc = "pipes"],
             procLedger' = [procLedger EXCEPT !.live =
               {"argv", "path"} \cup (IF procTask.args.stdin = "data" THEN {"stdin"} ELSE {})]
      PROVE  ProcInv'
  <2> DEFINE v == {"argv", "path"} \cup (IF procTask.args.stdin = "data" THEN {"stdin"} ELSE {})
  <2>1. /\ procTask' \in TaskType /\ procTask'.pc = "pipes" /\ procTask'.result = procTask.result
        /\ procTask'.args = procTask.args /\ procTask'.arr = procTask.arr
    BY <1>5, Fields DEF TaskType, TaskPlaces
  <2>2. v \subseteq ProcThings
    BY DEF ProcThings
  <2>3. TaskHeld' = v
    BY <1>2, <2>1 DEF TaskHeld, Waiting, StdinCopy
  <2> HIDE DEF v
  <2>4. procLedger' \in LedgerType /\ procLedger'.live = v /\ procLedger'.wrong = procLedger.wrong
    BY <1>5, <2>2, Fields DEF LedgerType, v
  <2>5. LedgerSound'
    BY <1>1, <1>3, <2>3, <2>4, EarlyFacts, EarlyLedger
  <2> QED BY <1>1, <1>2, <1>3, <2>1, <2>4, <2>5, EarlyStep DEF Before
<1> QED BY <1>4, <1>5 DEF proc_prepare

(* The ends of the pipes, when all of them were made. *)
LEMMA AllPipes ==
  ASSUME NEW want \in BOOLEAN
  PROVE  UNION {PipeEnds[i] : i \in {i \in 1..6 : i # 3 \/ want}}
           = ProcEnds \ (IF want THEN {} ELSE {"inR", "inW"})
<1> DEFINE E == UNION {PipeEnds[i] : i \in {i \in 1..6 : i # 3 \/ want}}
<1>1. /\ PipeEnds[1] = {"outR", "outW"} /\ PipeEnds[2] = {"errR", "errW"} /\ PipeEnds[3] = {"inR", "inW"}
      /\ PipeEnds[4] = {"execR", "execW"} /\ PipeEnds[5] = {"doneR", "doneW"} /\ PipeEnds[6] = {"stopR", "stopW"}
  BY DEF PipeEnds
<1>2. E = PipeEnds[1] \cup PipeEnds[2] \cup (IF want THEN PipeEnds[3] ELSE {})
            \cup PipeEnds[4] \cup PipeEnds[5] \cup PipeEnds[6]
  <2>1. \A i \in 1..6 : i \in {1, 2, 3, 4, 5, 6}
    OBVIOUS
  <2> HIDE DEF PipeEnds
  <2>2. CASE want
    BY <2>1, <2>2
  <2>3. CASE ~want
    BY <2>1, <2>3
  <2> QED BY <2>2, <2>3
<1> QED BY <1>1, <1>2 DEF ProcEnds, RequestEnds, ChildEnds

(* The ends of some of the six pipes are ends of pipes.                     *)
LEMMA SomePipes ==
  ASSUME NEW W, W \subseteq 1..6
  PROVE  UNION {PipeEnds[i] : i \in W} \subseteq ProcEnds
<1>1. \A i \in 1..6 : PipeEnds[i] \subseteq ProcEnds
  <2>1. \A i \in 1..6 : i \in {1, 2, 3, 4, 5, 6}
    OBVIOUS
  <2> QED BY <2>1 DEF PipeEnds, ProcEnds, RequestEnds, ChildEnds
<1> QED BY <1>1

(* The six pipes are made, or some of them and then no more.                *)
LEMMA PipesInv ==
  ASSUME ProcInv, proc_pipes
  PROVE  ProcInv'
<1>1. procTask.pc = "pipes" /\ procReq' = procReq /\ procWorld' = procWorld /\ procTask.pc \in Before
  BY DEF proc_pipes, Before
<1>2. /\ procWorld \in WorldType /\ ~procWorld.strike /\ procWorld.child = "none" /\ procTask.arr = {}
  BY <1>1, Fields DEF ProcInv, ChildSound, PlacesSound
<1>3. TaskHeld = {"argv", "path"} \cup StdinCopy
  BY <1>1, <1>2 DEF TaskHeld, Waiting
<1> DEFINE W(upto) == {i \in 1..upto : i # 3 \/ procTask.args.stdin # "none"}
           made(upto) == UNION {PipeEnds[i] : i \in W(upto)}
<1>4. PICK upto \in 0..6 :
        /\ procTask' = [procTask EXCEPT !.arr = made(upto), !.pc = IF upto = 6 THEN "fork" ELSE "abort"]
        /\ procLedger' = [procLedger EXCEPT !.live =
             (procLedger.live \cup made(upto)) \ IF upto = 6 THEN {} ELSE {"argv", "path"}]
  BY Fields DEF proc_pipes, LedgerType
<1> DEFINE m == made(upto)
           p == IF upto = 6 THEN "fork" ELSE "abort"
           v == (procLedger.live \cup m) \ IF upto = 6 THEN {} ELSE {"argv", "path"}
<1>5. m \subseteq ProcEnds
  <2> DEFINE X == W(upto)
  <2>1. X \subseteq 1..6
    OBVIOUS
  <2> HIDE DEF X
  <2>2. UNION {PipeEnds[i] : i \in X} \subseteq ProcEnds
    BY <2>1, SomePipes
  <2> QED BY <2>2 DEF X
<1>6. upto = 6 => m = AllEnds
  <2> SUFFICES ASSUME upto = 6 PROVE m = AllEnds
    OBVIOUS
  <2> DEFINE want == procTask.args.stdin # "none"
  <2>1. want \in BOOLEAN /\ m = UNION {PipeEnds[i] : i \in {i \in 1..6 : i # 3 \/ want}}
    OBVIOUS
  <2> HIDE DEF want, m
  <2>2. m = ProcEnds \ (IF want THEN {} ELSE {"inR", "inW"})
    BY <2>1, AllPipes
  <2> QED BY <2>2 DEF AllEnds, want
<1> HIDE DEF m, made
<1>7. p \in TaskPlaces /\ v \subseteq ProcThings
  BY <1>5, Fields DEF TaskPlaces, ProcThings
<1>8. procTask' = [procTask EXCEPT !.arr = m, !.pc = p] /\ procLedger' = [procLedger EXCEPT !.live = v]
  BY <1>4 DEF m
<1> HIDE DEF p, v
<1>9. /\ procTask' \in TaskType /\ procTask'.pc = p /\ procTask'.arr = m /\ procTask'.args = procTask.args
      /\ procTask'.result = procTask.result
  BY <1>5, <1>7, <1>8, Fields DEF TaskType
<1>10. procLedger' \in LedgerType /\ procLedger'.live = v /\ procLedger'.wrong = procLedger.wrong
  BY <1>7, <1>8, Fields DEF LedgerType
<1>11. StdinCopy' = StdinCopy /\ AllEnds' = AllEnds
  BY <1>9 DEF StdinCopy, AllEnds
<1>12. TaskHeld' = v
  <2>1. m \cap {"argv", "path"} = {} /\ StdinCopy \cap {"argv", "path"} = {}
    BY <1>5 DEF ProcEnds, RequestEnds, ChildEnds, StdinCopy
  <2>2. procLedger.live = {"argv", "path"} \cup StdinCopy
    BY <1>1, <1>3, EarlyFacts
  <2>3. CASE upto = 6
    BY <1>9, <1>11, <2>1, <2>2, <2>3 DEF TaskHeld, Waiting, p, v
  <2>4. CASE upto # 6
    BY <1>9, <1>11, <2>1, <2>2, <2>4 DEF TaskHeld, Waiting, p, v
  <2> QED BY <2>3, <2>4
<1>13. LedgerSound'
  BY <1>1, <1>10, <1>12, EarlyFacts, EarlyLedger
<1> QED BY <1>1, <1>2, <1>6, <1>9, <1>10, <1>11, <1>13, EarlyStep DEF Before, p

(* The child is forked, or fork fails.                                      *)
LEMMA ForkInv ==
  ASSUME ProcInv, proc_fork
  PROVE  ProcInv'
<1>1. procTask.pc = "fork" /\ procReq' = procReq /\ procTask.pc \in Before
  BY DEF proc_fork, Before
<1>2. /\ procWorld \in WorldType /\ ~procWorld.strike /\ procWorld.child = "none" /\ procTask.arr = AllEnds
  BY <1>1, Fields DEF ProcInv, ChildSound, PlacesSound
<1>3. procLedger.live = {"argv", "path"} \cup StdinCopy \cup procTask.arr
  BY <1>1, EarlyFacts DEF TaskHeld, Waiting
<1>4. /\ StdinCopy \cap ({"argv", "path"} \cup ChildEnds) = {} /\ procTask.arr \cap {"argv", "path"} = {}
  BY Fields DEF StdinCopy, ChildEnds, ProcEnds, RequestEnds
<1>5. ASSUME procLedger' = Released({"argv", "path"} \cup (ChildEnds \cap procTask.arr)),
             procTask' = [procTask EXCEPT !.pc = "exec", !.arr = @ \ ChildEnds],
             procWorld' = [procWorld EXCEPT !.child = "forked", !.holds = [s \in ProcStreams |-> {"child"}]]
      PROVE  ProcInv'
  <2> DEFINE S == {"argv", "path"} \cup (ChildEnds \cap procTask.arr)
             a == procTask.arr \ ChildEnds
             h == [s \in ProcStreams |-> {"child"}]
  <2>1. S \subseteq procLedger.live /\ a \subseteq ProcEnds /\ h \in [ProcStreams -> SUBSET {"child", "kin", "stray"}]
    BY <1>3, Fields
  <2>2. procLedger' \in LedgerType /\ procLedger'.live = procLedger.live \ S /\ procLedger'.wrong = {}
    BY <1>5, <2>1, ReleasedFields
  <2>3. procTask' = [procTask EXCEPT !.pc = "exec", !.arr = a]
    BY <1>5, Fields DEF TaskType
  <2>4. procWorld' = [procWorld EXCEPT !.child = "forked", !.holds = h]
    BY <1>5
  <2> HIDE DEF a, h
  <2>5. /\ procTask' \in TaskType /\ procTask'.pc = "exec" /\ procTask'.arr = a /\ procTask'.args = procTask.args
        /\ procTask'.result = procTask.result
    BY <2>1, <2>3, Fields DEF TaskType, TaskPlaces
  <2>6. /\ procWorld' \in WorldType /\ procWorld'.child = "forked" /\ procWorld'.strike = procWorld.strike
        /\ procWorld'.wrote = procWorld.wrote
    BY <1>2, <2>1, <2>4 DEF WorldType, Children
  <2>7. StdinCopy' = StdinCopy /\ AllEnds' = AllEnds
    BY <2>5 DEF StdinCopy, AllEnds
  <2>8. TaskHeld' = StdinCopy \cup a
    BY <2>5, <2>7 DEF TaskHeld, Waiting
  <2>9. procLedger.live \ S = StdinCopy \cup a
    BY <1>3, <1>4 DEF a
  <2>10. LedgerSound'
    BY <1>1, <2>2, <2>8, <2>9, EarlyLedger
  <2> QED BY <1>1, <1>2, <2>2, <2>5, <2>6, <2>7, <2>10, EarlyStep DEF Before, a
<1>6. ASSUME procLedger' = Released({"argv", "path"}), procTask' = [procTask EXCEPT !.pc = "abort"],
             procWorld' = procWorld
      PROVE  ProcInv'
  <2> DEFINE S == {"argv", "path"}
  <2>1. S \subseteq procLedger.live
    BY <1>3
  <2>2. procLedger' \in LedgerType /\ procLedger'.live = procLedger.live \ S /\ procLedger'.wrong = {}
    BY <1>6, <2>1, ReleasedFields
  <2>3. /\ procTask' \in TaskType /\ procTask'.pc = "abort" /\ procTask'.arr = procTask.arr
        /\ procTask'.args = procTask.args /\ procTask'.result = procTask.result
    BY <1>6, Fields DEF TaskType, TaskPlaces
  <2>4. StdinCopy' = StdinCopy
    BY <2>3 DEF StdinCopy
  <2>5. TaskHeld' = StdinCopy \cup procTask.arr
    BY <2>3, <2>4 DEF TaskHeld, Waiting
  <2>6. procLedger.live \ S = StdinCopy \cup procTask.arr
    BY <1>3, <1>4
  <2>7. LedgerSound'
    BY <1>1, <2>2, <2>5, <2>6, EarlyLedger
  <2> QED BY <1>1, <1>2, <1>6, <2>2, <2>3, <2>7, EarlyStep DEF Before
<1> QED BY <1>5, <1>6 DEF proc_fork

(* The child has run or failed to. *)
LEMMA ExecResultInv ==
  ASSUME ProcInv, proc_exec_result
  PROVE  ProcInv'
<1> DEFINE S == {"execR"}
           a == procTask.arr \ S
           p == IF procWorld.status = "noexec" THEN "abort" ELSE "start"
<1>1. /\ procTask.pc = "exec" /\ procTask.pc \in Before /\ procReq' = procReq /\ procWorld' = procWorld
      /\ procWorld.child # "forked" /\ procLedger' = Released(S)
      /\ procTask' = [procTask EXCEPT !.arr = a, !.pc = p]
  BY Fields DEF proc_exec_result, Before, TaskType
<1>2. /\ procWorld \in WorldType /\ ~procWorld.strike /\ procWorld.child \in {"running", "zombie"}
      /\ procTask.arr = AllEnds \ ChildEnds
  BY <1>1, Fields DEF ProcInv, ChildSound, PlacesSound
<1>3. procLedger.live = StdinCopy \cup procTask.arr
  BY <1>1, EarlyFacts DEF TaskHeld, Waiting
<1>4. S \subseteq procLedger.live /\ S \cap StdinCopy = {} /\ a = AllEnds \ (ChildEnds \cup {"execR"})
  BY <1>2, <1>3 DEF AllEnds, ProcEnds, ChildEnds, StdinCopy
<1>5. procLedger' \in LedgerType /\ procLedger'.live = procLedger.live \ S /\ procLedger'.wrong = {}
  BY <1>1, <1>4, ReleasedFields
<1>6. a \subseteq ProcEnds /\ p \in TaskPlaces /\ p \in {"abort", "start"}
  BY Fields DEF TaskPlaces
<1> HIDE DEF a, p
<1>7. /\ procTask' \in TaskType /\ procTask'.pc = p /\ procTask'.arr = a
      /\ procTask'.args = procTask.args /\ procTask'.result = procTask.result
  BY <1>1, <1>6, Fields DEF TaskType
<1>8. StdinCopy' = StdinCopy /\ AllEnds' = AllEnds
  BY <1>7 DEF StdinCopy, AllEnds
<1>9. TaskHeld' = StdinCopy \cup a
  BY <1>6, <1>7, <1>8 DEF TaskHeld, Waiting
<1>10. procLedger.live \ S = StdinCopy \cup a
  BY <1>3, <1>4 DEF a
<1>11. LedgerSound'
  BY <1>1, <1>5, <1>9, <1>10, EarlyLedger
<1> QED BY <1>1, <1>2, <1>4, <1>5, <1>6, <1>7, <1>8, <1>11, EarlyStep DEF Before

(* The request and its helper, or one of the two failures. *)
LEMMA StartInv ==
  ASSUME ProcInv, proc_start
  PROVE  ProcInv'
<1> DEFINE closed == IF procTask.args.stdin = "empty" THEN {"inW"} ELSE {}
           a == procTask.arr \ RequestEnds
<1>1. procTask.pc = "start" /\ procTask.pc \in Before /\ procWorld' = procWorld
  BY DEF proc_start, Before
<1>2. /\ procWorld \in WorldType /\ ~procWorld.strike /\ procWorld.child \in {"running", "zombie"}
      /\ procTask.arr = AllEnds \ (ChildEnds \cup {"execR"})
  BY <1>1, Fields DEF ProcInv, ChildSound, PlacesSound
<1>3. procLedger.live = StdinCopy \cup procTask.arr
  BY <1>1, EarlyFacts DEF TaskHeld, Waiting
<1>4. a = {} /\ procTask.arr \subseteq RequestEnds /\ StdinCopy \cap RequestEnds = {}
  BY <1>2 DEF AllEnds, ProcEnds, StdinCopy, RequestEnds
<1>5. ASSUME procTask' = [procTask EXCEPT !.arr = @ \ RequestEnds, !.pc = "abort"],
             procLedger' = Released(RequestEnds \cap procTask.arr), procReq' = procReq
      PROVE  ProcInv'
  <2> DEFINE S == RequestEnds \cap procTask.arr
  <2>1. S \subseteq procLedger.live /\ a \subseteq ProcEnds
    BY <1>3, Fields
  <2>2. procLedger' \in LedgerType /\ procLedger'.live = procLedger.live \ S /\ procLedger'.wrong = {}
    BY <1>5, <2>1, ReleasedFields
  <2>3. procTask' = [procTask EXCEPT !.arr = a, !.pc = "abort"]
    BY <1>5, Fields DEF TaskType
  <2> HIDE DEF a
  <2>4. /\ procTask' \in TaskType /\ procTask'.pc = "abort" /\ procTask'.arr = a
        /\ procTask'.args = procTask.args /\ procTask'.result = procTask.result
    BY <2>1, <2>3, Fields DEF TaskType, TaskPlaces
  <2>5. StdinCopy' = StdinCopy
    BY <2>4 DEF StdinCopy
  <2>6. TaskHeld' = StdinCopy
    BY <1>4, <2>4, <2>5 DEF TaskHeld, Waiting
  <2>7. procLedger.live \ S = StdinCopy
    BY <1>3, <1>4
  <2>8. LedgerSound'
    BY <1>1, <1>5, <2>2, <2>6, <2>7, EarlyLedger
  <2> QED BY <1>1, <1>2, <1>5, <2>2, <2>4, <2>8, EarlyStep DEF Before
<1>6. ASSUME procTask' = [procTask EXCEPT !.pc = "abort"], procReq' = procReq, procLedger' = procLedger
      PROVE  ProcInv'
  <2>1. /\ procTask' \in TaskType /\ procTask'.pc = "abort" /\ procTask'.arr = procTask.arr
        /\ procTask'.args = procTask.args /\ procTask'.result = procTask.result
    BY <1>6, Fields DEF TaskType, TaskPlaces
  <2>2. StdinCopy' = StdinCopy
    BY <2>1 DEF StdinCopy
  <2>3. TaskHeld' = StdinCopy \cup procTask.arr
    BY <2>1, <2>2 DEF TaskHeld, Waiting
  <2>4. LedgerSound'
    BY <1>1, <1>3, <1>6, <2>3, EarlyFacts, EarlyLedger
  <2> QED BY <1>1, <1>2, <1>6, <2>1, <2>4, Fields, EarlyStep DEF Before
<1>7. ASSUME procReq' = [procReq EXCEPT !.ends = (RequestEnds \cap procTask.arr) \ closed, !.refs = 2, !.helper = "poll"],
             procTask' = [procTask EXCEPT !.arr = @ \ RequestEnds, !.pc = "park"],
             procLedger' = [procLedger EXCEPT !.live = (@ \cup {"req"}) \ closed]
      PROVE  ProcInv'
  <2> DEFINE e == (RequestEnds \cap procTask.arr) \ closed
             two == 2
             v == (procLedger.live \cup {"req"}) \ closed
  <2>1. procReq' = [procReq EXCEPT !.ends = e, !.refs = two, !.helper = "poll"] /\ two \in Int /\ e \subseteq RequestEnds
    BY <1>7
  <2>2. procTask' = [procTask EXCEPT !.arr = a, !.pc = "park"] /\ a \subseteq ProcEnds
    BY <1>7, Fields DEF TaskType
  <2>3. procLedger' = [procLedger EXCEPT !.live = v] /\ v \subseteq ProcThings
    BY <1>7, Fields DEF LedgerType, ProcThings
  <2> HIDE DEF e, two, a, v
  <2>4. /\ procReq' \in ReqType /\ procReq'.helper = "poll" /\ procReq'.exited = procReq.exited
        /\ procReq'.ends = e /\ procReq'.refs = two /\ procReq'.flags = procReq.flags
        /\ procReq'.ready = procReq.ready /\ procReq'.read = procReq.read /\ procReq'.kept = procReq.kept /\ procReq'.broken = procReq.broken
    BY <2>1, Fields DEF ReqType, HelperPlaces
  <2>5. /\ procTask' \in TaskType /\ procTask'.pc = "park" /\ procTask'.arr = a
        /\ procTask'.args = procTask.args /\ procTask'.result = procTask.result
    BY <2>2, Fields DEF TaskType, TaskPlaces
  <2>6. procLedger' \in LedgerType /\ procLedger'.live = v /\ procLedger'.wrong = procLedger.wrong
    BY <2>3, Fields DEF LedgerType
  <2>7. procReq.flags = {} /\ procReq.ready = {} /\ procLedger.wrong = {} /\ ~procReq.exited
    BY <1>1, EarlyFacts
  <2>8. ProcType'
    BY <1>1, <1>2, <2>4, <2>5, <2>6 DEF ProcType
  <2>9. LedgerSound'
    <3>1. TaskHeld' = {"doneR", "stopW"} /\ StdinCopy' = StdinCopy
      BY <2>5 DEF TaskHeld, StdinCopy, Waiting
    <3>2. SharedHeld' = {"req"} \cup StdinCopy
      BY <2>4, <3>1 DEF SharedHeld, two
    <3>3. HelperHeld' = procTask.arr \ ({"doneR", "stopW"} \cup closed)
      BY <1>2, <2>4 DEF HelperHeld, HelperEnds, e, AllEnds, ProcEnds, RequestEnds, ChildEnds
    <3>4. {"doneR", "stopW"} \subseteq procTask.arr \ closed /\ closed \subseteq RequestEnds /\ "req" \notin closed
      BY <1>2 DEF AllEnds, ProcEnds, RequestEnds, ChildEnds
    <3>5. v = {"req"} \cup StdinCopy \cup (procTask.arr \ closed)
      BY <1>3, <1>4, <3>4 DEF v
    <3>6. procLedger'.live = TaskHeld' \cup HelperHeld' \cup SharedHeld'
      <4> HIDE DEF closed
      <4> QED BY <2>6, <3>1, <3>2, <3>3, <3>4, <3>5
    <3> QED BY <2>6, <2>7, <3>6 DEF LedgerSound
  <2>10. PlacesSound'
    <3>1. "doneW" \in e
      BY <1>2 DEF e, AllEnds, ProcEnds, RequestEnds, ChildEnds
    <3> QED BY <2>4, <2>5, <2>7, <3>1 DEF PlacesSound, Before, Waiting
  <2>11. RefsSound'
    BY <2>4, <2>5 DEF RefsSound, Waiting, two
  <2>12. ChildSound'
    BY <1>1, <1>2, <2>4, <2>5, <2>7 DEF ChildSound, Finished
  <2>13. ReadSound'
    <3>1. \A s \in ProcStreams : ReadEnd(s) \in e
      BY <1>2 DEF ReadEnd, e, AllEnds, ProcEnds, RequestEnds, ChildEnds
    <3> QED BY <1>1, <2>4, <2>7, <3>1 DEF ProcInv, ReadSound
  <2>14. VerdictSound'
    <3>1. procTask.result \notin {"overflow", "exit", "signal"}
      BY <1>1, EarlyFacts DEF ProcInv, VerdictSound
    <3> QED BY <2>4, <2>5, <2>7, <3>1 DEF VerdictSound
  <2> QED BY <2>8, <2>9, <2>10, <2>11, <2>12, <2>13, <2>14 DEF ProcInv
<1> QED BY <1>5, <1>6, <1>7 DEF proc_start

(* The one exit before the helper owns anything. *)
LEMMA AbortInv ==
  ASSUME ProcInv, proc_abort
  PROVE  ProcInv'
<1> DEFINE S == procTask.arr \cup (procLedger.live \cap {"stdin"})
           none == {}
<1>1. /\ procTask.pc = "abort" /\ procTask.pc \in Before /\ procReq' = procReq /\ procLedger' = Released(S)
      /\ procTask' = [procTask EXCEPT !.pc = "ended", !.arr = none, !.result = "not_started"]
      /\ procWorld' = IF procWorld.child = "none" THEN procWorld ELSE [Killed EXCEPT !.child = "reaped"]
  BY DEF proc_abort, Before
<1>2. procLedger.live = StdinCopy \cup procTask.arr
  BY <1>1, EarlyFacts DEF TaskHeld, Waiting
<1>3. S \subseteq procLedger.live /\ procLedger.live \ S = {}
  BY <1>2 DEF StdinCopy
<1>4. procLedger' \in LedgerType /\ procLedger'.live = procLedger.live \ S /\ procLedger'.wrong = {}
  BY <1>1, <1>3, ReleasedFields
<1>5. none \subseteq ProcEnds
  OBVIOUS
<1> HIDE DEF none
<1>6. procTask' \in TaskType /\ procTask'.pc = "ended" /\ procTask'.result = "not_started"
  BY <1>1, <1>5, Fields DEF TaskType, TaskPlaces, ProcResults
<1>7. TaskHeld' = {}
  BY <1>6 DEF TaskHeld, Waiting
<1>8. LedgerSound'
  BY <1>1, <1>3, <1>4, <1>7, EarlyLedger
<1>9. /\ procWorld' \in WorldType /\ ~procWorld'.strike /\ procWorld'.wrote = procWorld.wrote
      /\ procWorld'.child \in {"none", "reaped"}
  <2>1. procWorld \in WorldType /\ ~procWorld.strike /\ procWorld.child \in {"none", "running", "zombie"}
    BY <1>1, Fields DEF ProcInv, ChildSound
  <2>2. CASE procWorld.child = "none"
    <3>1. procWorld' = procWorld
      BY <1>1, <2>2
    <3> QED BY <2>1, <2>2, <3>1
  <2>3. CASE procWorld.child # "none"
    <3> DEFINE k == Killed
    <3>1. k \in WorldType /\ k.wrote = procWorld.wrote /\ ~k.strike
      BY <2>1, <2>3, KilledFields
    <3>2. procWorld' = [k EXCEPT !.child = "reaped"]
      BY <1>1, <2>3
    <3> HIDE DEF k
    <3>3. /\ procWorld' \in WorldType /\ procWorld'.child = "reaped" /\ procWorld'.strike = k.strike
          /\ procWorld'.wrote = k.wrote
      BY <3>1, <3>2 DEF WorldType, Children
    <3> QED BY <3>1, <3>3
  <2> QED BY <2>2, <2>3
<1>10. procReq' = procReq /\ procTask.pc \in Before
  BY <1>1
<1> QED BY <1>4, <1>6, <1>8, <1>9, <1>10, EarlyStep DEF Before

-----------------------------------------------------------------------------
(* A call starts with nothing. *)
LEMMA ProcInitInv == ProcInit => ProcInv
<1> SUFFICES ASSUME ProcInit PROVE ProcInv
  OBVIOUS
<1> DEFINE zeros == [s \in ProcStreams |-> 0]
           nobody == [s \in ProcStreams |-> {}]
<1>1. /\ zeros \in [ProcStreams -> Nat] /\ \A s \in ProcStreams : zeros[s] = 0
      /\ nobody \in [ProcStreams -> SUBSET {"child", "kin", "stray"}]
  OBVIOUS
<1>2. /\ procTask \in TaskType /\ procTask.pc = "idle" /\ procTask.arr = {} /\ procTask.result = "none"
  BY DEF ProcInit, TaskType, TaskPlaces, ProcResults
<1>3. procReq = [helper |-> "none", ends |-> {}, refs |-> 0, exited |-> FALSE, flags |-> {},
                 ready |-> {}, read |-> zeros, kept |-> zeros, broken |-> {}]
  BY DEF ProcInit
<1>4. procWorld = [child |-> "none", status |-> "exit", strike |-> FALSE, holds |-> nobody, wrote |-> zeros]
  BY DEF ProcInit
<1>5. procLedger \in LedgerType /\ procLedger.live = {} /\ procLedger.wrong = {}
  BY DEF ProcInit, LedgerType
<1> HIDE DEF zeros, nobody
<1>6. /\ procReq \in ReqType /\ procReq.helper = "none" /\ procReq.ends = {} /\ procReq.refs = 0
      /\ procReq.exited = FALSE /\ procReq.flags = {} /\ procReq.ready = {}
      /\ procReq.read = zeros /\ procReq.kept = zeros
  BY <1>1, <1>3 DEF ReqType, HelperPlaces
<1>7. /\ procWorld \in WorldType /\ procWorld.child = "none" /\ procWorld.strike = FALSE /\ procWorld.wrote = zeros
  BY <1>1, <1>4 DEF WorldType, Children
<1>8. ProcType
  BY <1>2, <1>5, <1>6, <1>7 DEF ProcType
<1>9. LedgerSound
  BY <1>2, <1>5, <1>6 DEF LedgerSound, TaskHeld, HelperHeld, SharedHeld, Waiting
<1>10. PlacesSound /\ RefsSound /\ ChildSound
  BY <1>2, <1>6, <1>7 DEF PlacesSound, RefsSound, ChildSound, Before, Waiting, Finished, HelperHeld
<1>11. ReadSound /\ VerdictSound
  BY <1>1, <1>2, <1>6, <1>7 DEF ReadSound, VerdictSound
<1> QED BY <1>8, <1>9, <1>10, <1>11 DEF ProcInv

(* Every step preserves the invariant. *)
LEMMA ProcNextInv == ProcInv /\ [ProcNext]_procVars => ProcInv'
<1> SUFFICES ASSUME ProcInv, [ProcNext]_procVars PROVE ProcInv'
  OBVIOUS
<1>1. CASE UNCHANGED procVars
  BY <1>1, Fields, WorldStep DEF procVars
<1>2. CASE ProcTaskSteps
  BY <1>2, PrepareInv, PipesInv, ForkInv, ExecResultInv, StartInv, AbortInv, WokenInv, ExpiredInv, FinishInv
     DEF ProcTaskSteps
<1>3. CASE ProcHelperSteps
  BY <1>3, PollInv, AbsorbInv, FeedInv, ReapInv, HelperCloseInv, HelperWakeInv, HelperShutInv, HelperDropInv
     DEF ProcHelperSteps
<1>4. CASE proc_cancel_hook \/ proc_child_exec \/ ProcOutside
  BY <1>4, CancelInv, ChildExecInv, OutsideInv
<1> QED BY <1>1, <1>2, <1>3, <1>4 DEF ProcNext

(* Theorem: ProcInv is an invariant of a call of proc_run_raw.              *)
THEOREM ProcInvariant == ProcSpec => []ProcInv
  BY ProcInitInv, ProcNextInv, PTL DEF ProcSpec

(* Theorem: whatever fails, whenever the deadline or a cancel comes and     *)
(* whichever side lets go last, every descriptor and block of a call is     *)
(* released once, the request outlives both of its users, and nothing is    *)
(* left.                                                                    *)
THEOREM ProcReleases == ProcSpec => []ProcReleasedOnce
<1>1. ProcInv => ProcReleasedOnce
  <2> SUFFICES ASSUME ProcInv PROVE ProcReleasedOnce
    OBVIOUS
  <2>1. /\ procLedger.wrong = {} /\ procLedger.live = TaskHeld \cup HelperHeld \cup SharedHeld
    BY DEF ProcInv, LedgerSound
  <2>2. RefsSound /\ PlacesSound
    BY DEF ProcInv
  <2>3. ASSUME procTask.pc \in Waiting \/ procReq.helper \notin {"none", "gone"}
        PROVE  "req" \in procLedger.live
    <3>1. procReq.refs > 0
      BY <2>2, <2>3 DEF RefsSound
    <3> QED BY <2>1, <3>1 DEF SharedHeld
  <2>4. ASSUME ProcAtRest PROVE procLedger.live = {}
    <3>1. procReq.refs = 0
      BY <2>2, <2>4 DEF RefsSound, ProcAtRest, Waiting
    <3>2. TaskHeld = {} /\ SharedHeld = {}
      BY <2>4, <3>1 DEF ProcAtRest, TaskHeld, SharedHeld, Waiting
    <3>3. HelperHeld = {}
      BY <2>2, <2>4 DEF ProcAtRest, PlacesSound, HelperHeld
    <3> QED BY <2>1, <3>2, <3>3
  <2> QED BY <2>1, <2>3, <2>4 DEF ProcReleasedOnce, Waiting
<1> QED BY <1>1, ProcInvariant, PTL

(* Theorem: proc_kill never signals a pid that was reaped, although the     *)
(* deadline, a cancel and the helper's own failures race with the reap; and *)
(* the child is reaped by the time both sides are done.                     *)
THEOREM ProcKills == ProcSpec => []ProcKillsOwnChild
<1>1. ProcInv => ProcKillsOwnChild
  <2> SUFFICES ASSUME ProcInv PROVE ProcKillsOwnChild
    OBVIOUS
  <2>1. ChildSound /\ PlacesSound
    BY DEF ProcInv
  <2> QED BY <2>1 DEF ChildSound, PlacesSound, ProcKillsOwnChild, ProcAtRest, Finished
<1> QED BY <1>1, ProcInvariant, PTL

(* Theorem: a call answers the child's own status only with all of the      *)
(* output it read, which is all the child wrote unless a read failed, and   *)
(* an overflow only when a stream went past the cap, for every cap and every*)
(* amount of output.                                                        *)
THEOREM ProcTruthful == ProcSpec => []ProcVerdict
<1>1. ProcInv => ProcVerdict
  BY DEF ProcInv, VerdictSound, Drained, ProcVerdict
<1> QED BY <1>1, ProcInvariant, PTL
=============================================================================
