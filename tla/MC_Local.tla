------------------------------ MODULE MC_Local ------------------------------
(* Components that need nothing of one another: a behaviour exercises one   *)
(* of the handle table, the timer heap, the walks of a cancel, the address  *)
(* table of the heap, the persistent map, the reading of an HTTP response,  *)
(* and a child process.                                                     *)
EXTENDS HandleTable, TimerHeap, CancelWalk, RegionTable, AvlMap, HttpReader, ProcRun

VARIABLE part

localVars == <<part, vars, heapVars, cwVars, rtVars, mapVars, hr, procVars>>

-----------------------------------------------------------------------------
(* What peers send to the HTTP reader *)

EolSeqs == {<<"LF">>, <<"CR", "LF">>}
HeadOf(lines, eol) == FoldLeft(LAMBDA acc, x : acc \o <<x>> \o eol, <<>>, lines) \o eol
Heads == {<<"s200">>, <<"s200", "cl1", "cl1">>, <<"s200", "cl1", "cl2">>, <<"s200", "cl2">>, <<"s200", "clbad">>,
          <<"s200", "ce">>, <<"s200", "tebad", "te">>, <<"s204", "cl1">>, <<"s404", "te">>, <<"sbad">>}
\* Chunks whose bytes look like line ends and size lines are among them.
ChunkLists == {<<>>, <<<<"x">>>>, <<<<"x">>, <<"LF", "x">>>>, <<<<"0", "CR">>, <<"1">>>>}
RawBodies == {<<>>, <<"x">>, <<"LF", "CR">>, <<"x", "0", "LF">>}
\* An overflowing size, an extension, a bad digit, a missing line end, no digit.
OddChunks == {<<"1", "0", "1", "LF", "x", "LF", "0", "LF">>, <<"1", ";", "x", "LF", "x", "LF", "0", "LF">>,
              <<"x", "LF">>, <<"1", "LF", "x", "x">>, <<";", "LF">>}
Raw(head, body, cut) ==
  [head |-> head, body |-> "raw", chunks |-> <<>>, eol |-> <<>>, raw |-> body, cut |-> cut]
Whole == 20   \* at least as long as any response

Plans ==
  {[head |-> HeadOf(<<"s200", "te">>, eol), body |-> "chunks", chunks |-> c, eol |-> eol, raw |-> <<>>, cut |-> k] :
     c \in ChunkLists, eol \in EolSeqs, k \in 0 .. Whole}
  \cup {Raw(HeadOf(h, eol), b, k) : h \in Heads, eol \in EolSeqs, b \in RawBodies, k \in {2, 4, 5, Whole}}
  \cup {Raw(HeadOf(<<"s200", "te">>, <<"LF">>), b, Whole) : b \in OddChunks}
Limits == [header : {4, 12}, body : {1, 12}]

\* The lists of channels to select on, one with a channel twice.
Selects == {<<1>>, <<1, 1>>, <<2, 1>>, <<1, 2, 1>>}

-----------------------------------------------------------------------------
(* At rest: what is empty, a response that was read, a call that is over *)

HrRests == hr = [plan |-> Raw(<<>>, <<>>, 0), limits |-> [header |-> 4, body |-> 1], head_only |-> FALSE,
                 unclean |-> FALSE, len |-> 0, reader |-> Failed(FreshReader, "no_response"), stopped |-> TRUE,
                 result |-> <<"no_response", <<>>>>]
ProcRests ==
  /\ procTask = [pc |-> "ended", args |-> [stdin |-> "none", timeout |-> FALSE, group |-> FALSE],
                 arr |-> {}, result |-> "none"]
  /\ procReq = [helper |-> "none", ends |-> {}, refs |-> 0, exited |-> FALSE, flags |-> {},
                ready |-> {}, read |-> [s \in ProcStreams |-> 0], kept |-> [s \in ProcStreams |-> 0],
                broken |-> {}]
  /\ procWorld = [child |-> "none", status |-> "exit", strike |-> FALSE,
                  holds |-> [s \in ProcStreams |-> {}], wrote |-> [s \in ProcStreams |-> 0]]
  /\ procLedger = [live |-> {}, wrong |-> {}]

CwRests == CwInit /\ cwScope = {}

LocalInit ==
  /\ Init /\ HeapInit /\ RtInit /\ MapInit
  /\ \/ part \in {"handle", "heap", "region", "map"} /\ HrRests /\ ProcRests /\ CwRests
     \/ part = "cancel" /\ HrRests /\ ProcRests /\ CwInit
     \/ part = "reader" /\ HrInit /\ ProcRests /\ CwRests
     \/ part = "proc" /\ HrRests /\ ProcInit /\ CwRests

LocalNext ==
  /\ UNCHANGED part
  /\ \/ part = "handle" /\ Next     /\ UNCHANGED <<heapVars, cwVars, rtVars, mapVars, hr, procVars>>
     \/ part = "heap"   /\ HeapNext /\ UNCHANGED <<vars, cwVars, rtVars, mapVars, hr, procVars>>
     \/ part = "cancel" /\ CwNextStep /\ UNCHANGED <<vars, heapVars, rtVars, mapVars, hr, procVars>>
     \/ part = "region" /\ RtNext   /\ UNCHANGED <<vars, heapVars, cwVars, mapVars, hr, procVars>>
     \/ part = "map"    /\ MapNext  /\ UNCHANGED <<vars, heapVars, cwVars, rtVars, hr, procVars>>
     \/ part = "reader" /\ HrNext   /\ UNCHANGED <<vars, heapVars, cwVars, rtVars, mapVars, procVars>>
     \/ part = "proc"   /\ ProcNext /\ UNCHANGED <<vars, heapVars, cwVars, rtVars, mapVars, hr>>

LocalSpec == LocalInit /\ [][LocalNext]_localVars /\ ProcFairness
=============================================================================
