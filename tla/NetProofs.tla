----------------------------- MODULE NetProofs ------------------------------
(* Proofs about HttpReader, for every response; about HttpClient, for any   *)
(* number of calls, candidates, pieces and resolver threads; and about      *)
(* TcpServer.                                                               *)
(*                                                                          *)
(* HttpReader: every reader between two pieces lies on the one scan of all  *)
(* the bytes (Chain), which is why the pieces do not matter (HrInv).  What  *)
(* the peer sends in chunks has a layout (OnWire) on which the decoder stays*)
(* (OnTrack), which is why a prefix is either refused or decoded whole.     *)
(*                                                                          *)
(* HttpClient: that nothing is released twice is not inductive alone, it    *)
(* needs to know what a call holds at every place of its code.  CallSound   *)
(* says it exactly: what the frame holds at this pc, what the resolver      *)
(* thread still holds, and the request the two share while either of them   *)
(* refers to it.                                                            *)
EXTENDS HttpClient, TcpServer, HttpReader, LoopProofs, FiniteSetTheorems, SequenceTheorems, TLAPS

-----------------------------------------------------------------------------
(* The scan for the end of the head *)

\* Readers, and the states of the scan over d: a line starts within the data or just
\* behind it, and a blank line that was found ends there.
Fails == {"none", "decode", "header_limit", "body_limit", "no_response", "incomplete"}
Readers == [scan : Nat \ {0}, lines : Nat, head_done : BOOLEAN, status : Statuses \cup {"none"}, body_start : Nat,
            framing : {"none", "chunked", "length", "close"}, content_length : Nat, fail : Fails]
Within(r, d) ==
  /\ r \in Readers /\ r.scan <= Len(d) + 1
  /\ r.body_start # 0 => /\ r.scan < r.body_start /\ r.body_start <= Len(d) + 1
                         /\ d[r.body_start - 1] = "LF"
Scans(d) == {s \in [reader : Readers, data : {d}] : Within(s.reader, d)}

\* The line ends from the reader's line on, and a scan that has come to its end.
LineEnds(r, d) == {k \in r.scan .. Len(d) : d[k] = "LF"}
Stuck(r, d) == r.body_start # 0 \/ LineEnds(r, d) = {}
\* What a reader becomes when its line ends at n.
PastLine(r, d, n) ==
  IF r.lines > 0 /\ (IF n > r.scan /\ d[n - 1] = "CR" THEN n - 1 ELSE n) = r.scan
  THEN [r EXCEPT !.body_start = n + 1] ELSE [r EXCEPT !.lines = @ + 1, !.scan = n + 1]
Turned(r, d) == ScanTurn([reader |-> r, data |-> d]).reader

(* A nonempty set of positions has a first.                                 *)
LEMMA FirstPosition ==
  ASSUME NEW N, N \subseteq Nat, N # {}
  PROVE  \E n \in N : \A j \in N : n <= j
<1> DEFINE R == OpToRel(<, Nat)
<1>1. \A p \in Nat \X Nat : p[1] < p[2] => p \in R
  BY Zenon DEF OpToRel
<1>2. IsWellFoundedOn(R, Nat)
  BY NatLessThanWellFounded
<1> HIDE DEF R
<1>3. PICK n \in N : \A j \in N : ~ (<<j, n>> \in R)
  BY <1>2, WFMin
<1>4. ASSUME NEW j \in N PROVE n <= j
  <2>1. ~ (j < n)
    BY <1>1, <1>3
  <2> QED BY <2>1
<1> QED BY <1>3, <1>4

(* A turn of the scan: nothing at the end, else past the first line end.    *)
LEMMA ScanOnce ==
  ASSUME NEW d \in Seq(STRING), NEW s \in Scans(d)
  PROVE  /\ ScanTurn(s) = [reader |-> Turned(s.reader, d), data |-> d]
         /\ Stuck(s.reader, d) => Turned(s.reader, d) = s.reader
         /\ ~Stuck(s.reader, d) =>
              \E n \in LineEnds(s.reader, d) :
                 (\A j \in LineEnds(s.reader, d) : n <= j) /\ Turned(s.reader, d) = PastLine(s.reader, d, n)
<1> DEFINE r == s.reader
           N == LineEnds(r, d)
           n == CHOOSE k \in N : \A j \in N : k <= j
<1>1. s = [reader |-> r, data |-> d] /\ s.data = d /\ r \in Readers
  BY DEF Scans
<1>2. r.scan \in Nat /\ Len(d) \in Nat
  BY <1>1 DEF Readers
<1>3. N \subseteq Nat
  BY <1>2 DEF LineEnds
<1>4. N # {} => n \in N /\ \A j \in N : n <= j
  <2> HIDE DEF N
  <2> QED BY <1>3, FirstPosition
<1>5. /\ r.body_start # 0 \/ N = {} => ScanTurn(s) = s
      /\ ~(r.body_start # 0 \/ N = {}) => ScanTurn(s) = [s EXCEPT !.reader = PastLine(r, d, n)]
  <2> DEFINE c == IF n > r.scan /\ d[n - 1] = "CR" THEN n - 1 ELSE n
  <2> DEFINE M == LineEnds(s.reader, s.data)
             i == CHOOSE k \in M : \A j \in M : k <= j
             e == IF i > s.reader.scan /\ s.data[i - 1] = "CR" THEN i - 1 ELSE i
             u == IF s.reader.body_start # 0 \/ M = {} THEN s
                  ELSE IF s.reader.lines > 0 /\ e = s.reader.scan
                  THEN [s EXCEPT !.reader = [s.reader EXCEPT !.body_start = i + 1]]
                  ELSE [s EXCEPT !.reader = [s.reader EXCEPT !.lines = @ + 1, !.scan = i + 1]]
  <2>0. ScanTurn(s) = u
    BY DEF ScanTurn, LineEnds
  <2>m. M = N /\ i = n /\ e = c
    BY <1>1
  <2>1. ScanTurn(s) = IF r.body_start # 0 \/ N = {} THEN s
                      ELSE IF r.lines > 0 /\ c = r.scan THEN [s EXCEPT !.reader = [r EXCEPT !.body_start = n + 1]]
                      ELSE [s EXCEPT !.reader = [r EXCEPT !.lines = @ + 1, !.scan = n + 1]]
    <3> HIDE DEF M, i, e, N, n, c
    <3> QED BY ONLY <2>0, <2>m DEF u, r
  <2>2. PastLine(r, d, n) = IF r.lines > 0 /\ c = r.scan THEN [r EXCEPT !.body_start = n + 1]
                            ELSE [r EXCEPT !.lines = @ + 1, !.scan = n + 1]
    BY DEF PastLine
  <2> HIDE DEF c, n, N, r
  <2>3. CASE r.body_start # 0 \/ N = {}
    BY <2>1, <2>3
  <2>4. CASE ~(r.body_start # 0 \/ N = {}) /\ r.lines > 0 /\ c = r.scan
    BY ONLY <2>1, <2>2, <2>4
  <2>5. CASE ~(r.body_start # 0 \/ N = {}) /\ ~(r.lines > 0 /\ c = r.scan)
    BY ONLY <2>1, <2>2, <2>5
  <2> QED BY <2>3, <2>4, <2>5
<1> HIDE DEF N, n, r
<1>6. CASE Stuck(r, d)
  <2>1. ScanTurn(s) = s
    BY <1>5, <1>6 DEF Stuck, N
  <2>2. Turned(r, d) = r
    BY <1>1, <2>1 DEF Turned
  <2> QED BY <1>1, <1>6, <2>1, <2>2 DEF r
<1>7. CASE ~Stuck(r, d)
  <2>1. ScanTurn(s) = [s EXCEPT !.reader = PastLine(r, d, n)]
    BY <1>5, <1>7 DEF Stuck, N
  <2>2. ScanTurn(s) = [reader |-> PastLine(r, d, n), data |-> d]
    BY <1>1, <2>1
  <2>3. Turned(r, d) = PastLine(r, d, n)
    BY <1>1, <2>2 DEF Turned
  <2>4. n \in N /\ \A j \in N : n <= j
    BY <1>4, <1>7 DEF Stuck, N
  <2> QED BY <1>7, <2>2, <2>3, <2>4 DEF r, N
<1> QED BY <1>6, <1>7 DEF r

(* The first line end of the line moves the reader on.                      *)
LEMMA LinePassed ==
  ASSUME NEW d \in Seq(STRING), NEW r, Within(r, d), r.body_start = 0, NEW n \in LineEnds(r, d)
  PROVE  /\ Within(PastLine(r, d, n), d)
         /\ PastLine(r, d, n).body_start = 0 => PastLine(r, d, n).scan > r.scan
         /\ PastLine(r, d, n).scan >= r.scan
         /\ PastLine(r, d, n).head_done = r.head_done /\ PastLine(r, d, n).fail = r.fail
         /\ PastLine(r, d, n).body_start # 0 => PastLine(r, d, n).body_start > r.scan
<1>1. /\ r \in Readers /\ r.scan \in Nat \ {0} /\ r.lines \in Nat /\ Len(d) \in Nat
      /\ n \in r.scan .. Len(d) /\ d[n] = "LF" /\ n \in Nat
  BY DEF Within, Readers, LineEnds
<1> DEFINE a == [r EXCEPT !.body_start = n + 1]
           b == [r EXCEPT !.lines = @ + 1, !.scan = n + 1]
<1>2. /\ a \in Readers /\ a.scan = r.scan /\ a.body_start = n + 1
      /\ a.head_done = r.head_done /\ a.fail = r.fail
  BY <1>1 DEF Readers
<1>3. /\ b \in Readers /\ b.scan = n + 1 /\ b.body_start = 0
      /\ b.head_done = r.head_done /\ b.fail = r.fail
  <2> DEFINE c == [r EXCEPT !.lines = @ + 1]
  <2>1. c \in Readers /\ c.body_start = 0 /\ c.head_done = r.head_done /\ c.fail = r.fail
    BY <1>1 DEF Readers
  <2>2. b = [c EXCEPT !.scan = n + 1]
    BY <1>1 DEF Readers
  <2>3. n + 1 \in Nat \ {0}
    BY <1>1
  <2> HIDE DEF b, c
  <2>4. b \in Readers
    BY ONLY <2>1, <2>2, <2>3 DEF Readers
  <2>5. b.scan = n + 1 /\ b.body_start = c.body_start /\ b.head_done = c.head_done /\ b.fail = c.fail
    BY ONLY <2>1, <2>2 DEF Readers
  <2> QED BY <2>1, <2>4, <2>5
<1>4. PastLine(r, d, n) = a \/ PastLine(r, d, n) = b
  BY DEF PastLine
<1> HIDE DEF a, b
<1>5. Within(a, d)
  <2>1. (n + 1) - 1 = n
    BY <1>1
  <2> QED BY <1>1, <1>2, <2>1 DEF Within
<1>6. Within(b, d)
  BY <1>1, <1>3 DEF Within
<1> QED BY <1>1, <1>2, <1>3, <1>4, <1>5, <1>6

(* What a turn does to a reader.                                            *)
LEMMA TurnMoves ==
  ASSUME NEW d \in Seq(STRING), NEW r, Within(r, d)
  PROVE  /\ Within(Turned(r, d), d)
         /\ Stuck(r, d) => Turned(r, d) = r
         /\ ~Stuck(r, d) => Turned(r, d).body_start # 0 \/ Turned(r, d).scan > r.scan
         /\ Turned(r, d).scan >= r.scan
         /\ Turned(r, d).head_done = r.head_done /\ Turned(r, d).fail = r.fail
         /\ r.body_start = 0 /\ Turned(r, d).body_start # 0 => Turned(r, d).body_start > r.scan
<1> DEFINE s == [reader |-> r, data |-> d]
<1>1. s \in Scans(d) /\ s.reader = r
  BY DEF Scans, Within
<1>2. r.scan \in Nat
  BY DEF Within, Readers
<1> HIDE DEF s
<1>3. CASE Stuck(r, d)
  <2>1. Turned(r, d) = r
    BY <1>1, <1>3, ScanOnce
  <2> QED BY <1>2, <1>3, <2>1
<1>4. CASE ~Stuck(r, d)
  <2>1. PICK n \in LineEnds(r, d) : Turned(r, d) = PastLine(r, d, n)
    BY <1>1, <1>4, ScanOnce
  <2>2. r.body_start = 0
    BY <1>4 DEF Stuck
  <2> QED BY <1>4, <2>1, <2>2, LinePassed
<1> QED BY <1>3, <1>4

(* The same line is read from a prefix that holds all of it.                *)
LEMMA PrefixTurn ==
  ASSUME NEW d \in Seq(STRING), NEW m \in 0 .. Len(d), NEW e, e = SubSeq(d, 1, m),
         NEW r, Within(r, e), Within(r, d), ~Stuck(r, e)
  PROVE  ~Stuck(r, d) /\ Turned(r, e) = Turned(r, d)
<1>1. /\ e \in Seq(STRING) /\ Len(e) = m /\ Len(d) \in Nat /\ m \in Nat
      /\ \A k \in 1 .. m : e[k] = d[k]
  BY SubSeqProperties
<1>2. r.scan \in Nat \ {0} /\ r.body_start = 0
  BY DEF Within, Readers, Stuck
<1>3. LineEnds(r, e) = {k \in LineEnds(r, d) : k <= m}
  BY <1>1, <1>2 DEF LineEnds
<1>4. ~Stuck(r, d)
  BY <1>2, <1>3 DEF Stuck
<1> DEFINE x == [reader |-> r, data |-> e]
           y == [reader |-> r, data |-> d]
<1>5. x \in Scans(e) /\ y \in Scans(d) /\ x.reader = r /\ y.reader = r
  BY DEF Scans, Within
<1> HIDE DEF x, y
<1>6. PICK i \in LineEnds(r, e) : (\A j \in LineEnds(r, e) : i <= j) /\ Turned(r, e) = PastLine(r, e, i)
  <2>1. e \in Seq(STRING) /\ x \in Scans(e) /\ x.reader = r /\ ~Stuck(r, e)
    BY <1>1, <1>5
  <2> QED BY ONLY <2>1, ScanOnce
<1>7. PICK n \in LineEnds(r, d) : (\A j \in LineEnds(r, d) : n <= j) /\ Turned(r, d) = PastLine(r, d, n)
  BY <1>4, <1>5, ScanOnce
<1>8. i \in Nat /\ n \in Nat /\ i <= m /\ i \in LineEnds(r, d)
  BY <1>1, <1>2, <1>3, <1>6, <1>7 DEF LineEnds
<1>9. n <= i
  BY <1>7, <1>8
<1>10. n \in LineEnds(r, e)
  BY <1>1, <1>3, <1>7, <1>8, <1>9
<1>11. i = n
  BY <1>6, <1>8, <1>9, <1>10
<1>12. n > r.scan => e[n - 1] = d[n - 1]
  BY <1>1, <1>2, <1>8, <1>11
<1>13. PastLine(r, e, n) = PastLine(r, d, n)
  BY <1>12 DEF PastLine
<1> QED BY <1>4, <1>6, <1>7, <1>11, <1>13

ScanRun(x, k) == After(ScanTurn, x, k)
ReadRun(r, d, k) == ScanRun([reader |-> r, data |-> d], k).reader

(* The scan, turn after turn.                                               *)
LEMMA ScanLoop ==
  ASSUME NEW d \in Seq(STRING), NEW x \in Scans(d)
  PROVE  /\ ScanRun(x, 0) = x
         /\ \A k \in Nat : ScanRun(x, k) \in Scans(d) /\ ScanRun(x, k + 1) = ScanTurn(ScanRun(x, k))
<1> DEFINE S == Scans(d)
           F == [s \in S |-> ScanTurn(s)]
           Run(g) == g = [k \in Nat |-> IF k = 0 THEN x ELSE ScanTurn(g[k - 1])]
           run == CHOOSE g : Run(g)
<1>0. ASSUME NEW s \in Scans(d) PROVE ScanTurn(s) \in Scans(d)
  <2>1. Within(s.reader, d)
    BY DEF Scans
  <2>2. ScanTurn(s) = [reader |-> Turned(s.reader, d), data |-> d]
    BY ScanOnce
  <2>3. Within(Turned(s.reader, d), d)
    BY <2>1, TurnMoves
  <2> QED BY <2>2, <2>3 DEF Scans, Within
<1> HIDE DEF S
<1>1. F \in [S -> S] /\ \A s \in S : F[s] = ScanTurn(s)
  BY <1>0 DEF S
<1> HIDE DEF F
<1>2. PICK g \in [Nat -> S] : g[0] = x /\ \A k \in Nat : g[k + 1] = F[g[k]]
  <2>1. x \in S /\ F \in [S -> S]
    BY <1>1 DEF S
  <2>2. RunsOf(S, F, x) # {}
    BY <2>1, Iterate
  <2> QED BY <2>2 DEF RunsOf
<1>3. Run(g)
  <2>1. ASSUME NEW k \in Nat PROVE g[k] = IF k = 0 THEN x ELSE ScanTurn(g[k - 1])
    <3>1. CASE k # 0
      <4>1. k - 1 \in Nat /\ (k - 1) + 1 = k
        BY <3>1
      <4>2. g[(k - 1) + 1] = F[g[k - 1]]
        BY <1>2, <4>1
      <4> QED BY <1>1, <1>2, <3>1, <4>1, <4>2
    <3> QED BY <1>2, <3>1
  <2> QED BY <2>1
<1>4. Run(run)
  BY <1>3
<1>5. \A k : ScanRun(x, k) = run[k]
  BY DEF After, ScanRun
<1> HIDE DEF run
<1>6. run[0] = x /\ \A k \in Nat : run[k + 1] = ScanTurn(run[k])
  BY <1>4
<1> DEFINE T == {k \in Nat : run[k] \in S}
<1>7. 0 \in T /\ \A k \in Nat : k \in T => k + 1 \in T
  <2>1. x \in S /\ \A y \in S : ScanTurn(y) \in S
    BY <1>1 DEF S
  <2>2. 0 \in T
    BY <1>6, <2>1
  <2>3. ASSUME NEW k \in Nat, k \in T PROVE k + 1 \in T
    <3>1. run[k] \in S /\ run[k + 1] = ScanTurn(run[k])
      BY <1>6, <2>3
    <3>2. run[k + 1] \in S /\ k + 1 \in Nat
      BY <2>1, <3>1
    <3> QED BY <3>2
  <2> QED BY <2>2, <2>3
<1> HIDE DEF T
<1>8. Nat \subseteq T
  BY <1>7, Induct
<1> QED BY <1>5, <1>6, <1>8 DEF T, S

(* The same for the reader alone.                                           *)
LEMMA ReadLoop ==
  ASSUME NEW d \in Seq(STRING), NEW r, Within(r, d)
  PROVE  /\ ReadRun(r, d, 0) = r
         /\ \A k \in Nat : Within(ReadRun(r, d, k), d) /\ ReadRun(r, d, k + 1) = Turned(ReadRun(r, d, k), d)
<1> DEFINE x == [reader |-> r, data |-> d]
<1>1. x \in Scans(d) /\ x.reader = r
  BY DEF Scans, Within
<1>2. \A k : ReadRun(r, d, k) = ScanRun(x, k).reader
  BY DEF ReadRun
<1> HIDE DEF x
<1>3. ScanRun(x, 0) = x /\ \A k \in Nat : ScanRun(x, k) \in Scans(d) /\ ScanRun(x, k + 1) = ScanTurn(ScanRun(x, k))
  BY <1>1, ScanLoop
<1>4. ASSUME NEW k \in Nat
      PROVE  Within(ReadRun(r, d, k), d) /\ ReadRun(r, d, k + 1) = Turned(ReadRun(r, d, k), d)
  <2> DEFINE s == ScanRun(x, k)
  <2>1. s \in Scans(d) /\ ScanRun(x, k + 1) = ScanTurn(s) /\ s.reader = ReadRun(r, d, k)
    BY <1>2, <1>3
  <2> HIDE DEF s
  <2>2. ScanTurn(s).reader = Turned(s.reader, d)
    BY <2>1, ScanOnce
  <2> QED BY <1>2, <2>1, <2>2 DEF Scans
<1> QED BY <1>1, <1>2, <1>3, <1>4

(* A scan stops at a blank line or an incomplete one.                       *)
LEMMA ScanEnds ==
  ASSUME NEW d \in Seq(STRING), NEW r, Within(r, d), NEW h, h = ScanHead(r, d)
  PROVE  /\ h = ReadRun(r, d, Len(d)) /\ Within(h, d) /\ Stuck(h, d) /\ h.scan >= r.scan
         /\ h.head_done = r.head_done /\ h.fail = r.fail
         /\ r.body_start = 0 /\ h.body_start # 0 => h.body_start > r.scan
<1> DEFINE R(k) == ReadRun(r, d, k)
<1>1. h = R(Len(d)) /\ Len(d) \in Nat
  BY DEF ScanHead, ReadRun, ScanRun
<1>2. R(0) = r /\ \A k \in Nat : Within(R(k), d) /\ R(k + 1) = Turned(R(k), d)
  BY ReadLoop
<1> HIDE DEF R
<1>3. r.scan \in Nat \ {0} /\ \A k \in Nat : R(k).scan \in Nat /\ R(k).body_start \in Nat
  BY <1>2 DEF Within, Readers
<1> DEFINE Good(k) ==
             /\ Stuck(R(k), d) \/ R(k).scan >= r.scan + k
             /\ R(k).scan >= r.scan /\ R(k).head_done = r.head_done /\ R(k).fail = r.fail
             /\ r.body_start = 0 /\ R(k).body_start # 0 => R(k).body_start > r.scan
           T == {k \in Nat : Good(k)}
<1>4. 0 \in T
  <2>1. R(0) = r
    BY <1>2
  <2>2. r.scan \in Nat
    BY <1>3
  <2>3. r.scan >= r.scan + 0 /\ r.scan >= r.scan
    BY ONLY <2>2
  <2>4. Good(0)
    BY ONLY <2>1, <2>3
  <2> QED BY <2>4
<1>5. ASSUME NEW k \in Nat, k \in T PROVE k + 1 \in T
  <2> DEFINE a == R(k)
             b == R(k + 1)
  <2>1. Good(k)
    BY <1>5
  <2>0. k + 1 \in Nat
    OBVIOUS
  <2>2. Within(a, d) /\ b = Turned(a, d) /\ b.scan \in Nat /\ a.scan \in Nat /\ b.body_start \in Nat
    BY <1>2, <1>3, <2>0
  <2>3. /\ Stuck(a, d) => b = a
        /\ ~Stuck(a, d) => b.body_start # 0 \/ b.scan > a.scan
        /\ b.scan >= a.scan
        /\ b.head_done = a.head_done /\ b.fail = a.fail
        /\ a.body_start = 0 /\ b.body_start # 0 => b.body_start > a.scan
    BY <2>2, TurnMoves
  <2>4. b.body_start # 0 => Stuck(b, d)
    BY DEF Stuck
  <2>5. a.body_start # 0 => Stuck(a, d)
    BY DEF Stuck
  <2> HIDE DEF a, b
  <2>6. Stuck(b, d) \/ b.scan >= r.scan + (k + 1)
    BY <1>3, <2>1, <2>2, <2>3, <2>4 DEF a
  <2>7. b.scan >= r.scan /\ b.head_done = r.head_done /\ b.fail = r.fail
    BY <1>3, <2>1, <2>2, <2>3 DEF a
  <2>8. r.body_start = 0 /\ b.body_start # 0 => b.body_start > r.scan
    BY <1>3, <2>1, <2>2, <2>3, <2>5 DEF a
  <2> QED BY <2>6, <2>7, <2>8 DEF b
<1> HIDE DEF T
<1>6. Nat \subseteq T
  BY <1>4, <1>5, Induct
<1>7. Good(Len(d))
  BY <1>1, <1>6 DEF T
<1>8. Stuck(h, d)
  <2>1. h.scan >= r.scan + Len(d) => LineEnds(h, d) = {}
    BY <1>1, <1>3 DEF LineEnds
  <2> QED BY <1>1, <1>7, <2>1 DEF Stuck
<1> QED BY <1>1, <1>2, <1>7, <1>8 DEF R

-----------------------------------------------------------------------------
(* Pieces *)

\* The readers that a scan of all of d goes through.
Chain(d) == {ReadRun(FreshReader, d, k) : k \in Nat}

(* A reader that has seen nothing.                                          *)
LEMMA FreshWithin ==
  ASSUME NEW d \in Seq(STRING)
  PROVE  Within(FreshReader, d) /\ FreshReader \in Chain(d) /\ FreshReader.body_start = 0 /\ FreshReader.scan = 1
<1>1. FreshReader \in Readers /\ FreshReader.scan = 1 /\ FreshReader.body_start = 0
  BY DEF FreshReader, Readers, Fails
<1>2. Within(FreshReader, d)
  BY <1>1 DEF Within
<1>3. ReadRun(FreshReader, d, 0) = FreshReader
  BY <1>2, ReadLoop
<1> QED BY <1>1, <1>2, <1>3 DEF Chain

(* What the chain holds.                                                    *)
LEMMA ChainStep ==
  ASSUME NEW d \in Seq(STRING), NEW r \in Chain(d)
  PROVE  Within(r, d) /\ Turned(r, d) \in Chain(d)
<1>1. PICK k \in Nat : r = ReadRun(FreshReader, d, k)
  BY DEF Chain
<1>2. Within(r, d) /\ ReadRun(FreshReader, d, k + 1) = Turned(r, d)
  BY <1>1, FreshWithin, ReadLoop
<1> QED BY <1>2 DEF Chain

(* Once stuck, a scan stays where it is.                                    *)
LEMMA StuckStays ==
  ASSUME NEW d \in Seq(STRING), NEW k \in Nat, Stuck(ReadRun(FreshReader, d, k), d)
  PROVE  \A j \in Nat : ReadRun(FreshReader, d, k + j) = ReadRun(FreshReader, d, k)
<1> DEFINE R(j) == ReadRun(FreshReader, d, j)
           T == {j \in Nat : R(k + j) = R(k)}
<1>1. \A j \in Nat : Within(R(j), d) /\ R(j + 1) = Turned(R(j), d)
  BY FreshWithin, ReadLoop
<1>2. Turned(R(k), d) = R(k)
  BY <1>1, TurnMoves
<1> HIDE DEF R
<1>3. 0 \in T
  OBVIOUS
<1>4. ASSUME NEW j \in Nat, j \in T PROVE j + 1 \in T
  <2>1. k + (j + 1) = (k + j) + 1 /\ k + j \in Nat
    OBVIOUS
  <2>2. R((k + j) + 1) = Turned(R(k + j), d)
    BY <1>1, <2>1
  <2>3. R(k + j) = R(k)
    BY <1>4
  <2> QED BY <1>2, <2>1, <2>2, <2>3
<1> HIDE DEF T
<1>5. Nat \subseteq T
  BY <1>3, <1>4, Induct
<1> QED BY <1>5 DEF T, R

(* A scan that comes to its end is the scan of all in one piece.            *)
LEMMA ChainEnd ==
  ASSUME NEW d \in Seq(STRING), NEW r \in Chain(d), Stuck(r, d)
  PROVE  r = ScanHead(FreshReader, d)
<1>1. PICK k \in Nat : r = ReadRun(FreshReader, d, k)
  BY DEF Chain
<1>2. /\ ScanHead(FreshReader, d) = ReadRun(FreshReader, d, Len(d)) /\ Len(d) \in Nat
      /\ Stuck(ReadRun(FreshReader, d, Len(d)), d)
  BY FreshWithin, ScanEnds
<1>3. ReadRun(FreshReader, d, k + Len(d)) = r
  BY <1>1, <1>2, StuckStays
<1>4. ReadRun(FreshReader, d, Len(d) + k) = ScanHead(FreshReader, d)
  BY <1>2, StuckStays
<1>5. k + Len(d) = Len(d) + k
  BY <1>2
<1> QED BY <1>3, <1>4, <1>5

(* The scan of a piece is a part of the scan of all.                        *)
LEMMA PieceChain ==
  ASSUME NEW d \in Seq(STRING), NEW m \in 0 .. Len(d), NEW e, e = SubSeq(d, 1, m),
         NEW r \in Chain(d), Within(r, e)
  PROVE  ScanHead(r, e) \in Chain(d)
<1>1. e \in Seq(STRING) /\ Len(e) = m /\ m \in Nat
  BY SubSeqProperties
<1> DEFINE R(k) == ReadRun(r, e, k)
           T == {k \in Nat : R(k) \in Chain(d)}
<1>2. R(0) = r /\ \A k \in Nat : Within(R(k), e) /\ R(k + 1) = Turned(R(k), e)
  <2>1. Within(r, e)
    OBVIOUS
  <2> QED BY ONLY <1>1, <2>1, ReadLoop, Zenon
<1>3. ScanHead(r, e) = R(m)
  BY <1>1, ScanEnds
<1> HIDE DEF R
<1>4. 0 \in T
  BY <1>2
<1>5. ASSUME NEW k \in Nat, k \in T PROVE k + 1 \in T
  <2>1. R(k) \in Chain(d) /\ Within(R(k), e) /\ R(k + 1) = Turned(R(k), e)
    BY <1>2, <1>5
  <2>2. Within(R(k), d) /\ Turned(R(k), d) \in Chain(d)
    BY <2>1, ChainStep
  <2>3. CASE Stuck(R(k), e)
    <3>1. Turned(R(k), e) = R(k)
      BY <1>1, <2>1, <2>3, TurnMoves
    <3> QED BY <2>1, <3>1
  <2>4. CASE ~Stuck(R(k), e)
    <3>1. Turned(R(k), e) = Turned(R(k), d)
      BY <2>1, <2>2, <2>4, PrefixTurn
    <3> QED BY <2>1, <2>2, <3>1
  <2> QED BY <2>3, <2>4
<1> HIDE DEF T
<1>6. Nat \subseteq T
  BY <1>4, <1>5, Induct
<1> QED BY <1>1, <1>3, <1>6 DEF T

(* Where a scan has not come to the blank line, the blank line is behind.   *)
LEMMA BlankBehind ==
  ASSUME NEW d \in Seq(STRING), NEW m \in 0 .. Len(d), NEW e, e = SubSeq(d, 1, m),
         NEW r \in Chain(d), Within(r, e), r.body_start = 0, Stuck(r, e),
         NEW h, h = ScanHead(FreshReader, d), h.body_start # 0
  PROVE  h.body_start > m + 1
<1>1. e \in Seq(STRING) /\ Len(e) = m /\ m \in Nat /\ \A k \in 1 .. m : e[k] = d[k]
  BY SubSeqProperties
<1>2. Within(r, d)
  BY ChainStep
<1>3. PICK k \in Nat : r = ReadRun(FreshReader, d, k)
  BY DEF Chain
<1>4. ScanHead(r, d) \in Chain(d) /\ Stuck(ScanHead(r, d), d)
  <2>1. d = SubSeq(d, 1, Len(d)) /\ Len(d) \in 0 .. Len(d)
    BY SubSeqFull
  <2>2. ScanHead(r, d) \in Chain(d)
    BY <1>2, <2>1, PieceChain
  <2> QED BY <1>2, <2>2, ScanEnds
<1>5. h = ScanHead(r, d)
  BY <1>4, ChainEnd
<1>6. h.body_start > r.scan /\ Within(h, d)
  BY <1>2, <1>5, ScanEnds
<1>7. h.body_start \in Nat /\ r.scan \in Nat \ {0} /\ d[h.body_start - 1] = "LF" /\ h.body_start <= Len(d) + 1
  BY <1>2, <1>6 DEF Within, Readers
<1>8. ASSUME h.body_start <= m + 1 PROVE FALSE
  <2>1. h.body_start - 1 \in r.scan .. m /\ h.body_start - 1 \in 1 .. m
    BY <1>1, <1>6, <1>7, <1>8
  <2>2. e[h.body_start - 1] = "LF"
    BY <1>1, <1>7, <2>1
  <2>3. h.body_start - 1 \in LineEnds(r, e)
    BY <1>1, <2>1, <2>2 DEF LineEnds
  <2> QED BY <2>3 DEF Stuck
<1> QED BY <1>1, <1>7, <1>8

-----------------------------------------------------------------------------
(* The outcome of a read *)

\* The outcome when the bytes d arrive in one piece.
OnePiece(d, limits, head_only, unclean) ==
  LET st == http_reader_step(FreshReader, d, limits, head_only)
      r  == IF st[2] THEN st[1] ELSE http_reader_eof(st[1], Len(d), unclean)
  IN http_response_result(r, d)

\* A reader that has read the head, and what that of all bytes in one piece is.
HeadReader(r, m) ==
  /\ r \in Readers /\ r.fail = "none" /\ r.head_done
  /\ r.body_start >= 1 /\ r.body_start <= m + 1
HeadOfAll(d, limits, head_only) == ReadHead(FreshReader, d, limits, head_only)

(* The head is read or refused; it is where the scan found it.              *)
LEMMA ParsedHead ==
  ASSUME NEW r \in Readers, r.fail = "none", ~r.head_done, NEW h, NEW limits \in [header : Nat, body : Nat],
         NEW head_only \in BOOLEAN, NEW p, p = http_reader_parse_head(r, h, limits, head_only)
  PROVE  p \in Readers /\ p.body_start = r.body_start /\ (p.fail = "none" <=> p.head_done)
<1> DEFINE st == h[1]
           s == [r EXCEPT !.status = st]
           te == SelectSeq(h, LAMBDA x : x \in {"te", "tebad"})
           cl == http_content_length(h)
           ce == "ce" \in Range(h)
           t1 == te # <<>> /\ te[1] = "te"
           t2 == te # <<>> \/ cl[1] = "invalid"
<1>1. cl[2] \in Nat
  <2>1. CASE Lengths(h) = {} \/ Cardinality(Lengths(h)) > 1 \/ "clbad" \in Lengths(h)
    BY <2>1 DEF http_content_length
  <2>2. CASE ~(Lengths(h) = {} \/ Cardinality(Lengths(h)) > 1 \/ "clbad" \in Lengths(h))
    <3> DEFINE x == CHOOSE y \in Lengths(h) : TRUE
    <3>1. x \in Lengths(h)
      BY <2>2
    <3> HIDE DEF x
    <3>2. x \in {"cl0", "cl1", "cl2"}
      BY <2>2, <3>1 DEF Lengths
    <3>3. LengthOf[x] \in Nat
      BY <3>2 DEF LengthOf
    <3>4. cl[2] = LengthOf[x]
      BY <2>2 DEF http_content_length, x
    <3> QED BY <3>3, <3>4
  <2> QED BY <2>1, <2>2
<1>2. p = IF st \notin Statuses \ {"sbad"} THEN Failed(r, "decode")
          ELSE IF st \in {"s404", "s204"} \/ head_only THEN [s EXCEPT !.framing = "none", !.head_done = TRUE]
          ELSE IF ce THEN Failed(s, "decode")
          ELSE IF t1 THEN [s EXCEPT !.framing = "chunked", !.head_done = TRUE]
          ELSE IF t2 THEN Failed(s, "decode")
          ELSE IF cl[2] > limits.body THEN Failed(s, "body_limit")
          ELSE [s EXCEPT !.framing = IF cl[1] = "valid" THEN "length" ELSE "close",
                         !.content_length = cl[2], !.head_done = TRUE]
  BY DEF http_reader_parse_head
<1> DEFINE n == cl[2]
           f == IF cl[1] = "valid" THEN "length" ELSE "close"
<1>3. n \in Nat /\ f \in {"length", "close"}
  BY <1>1
<1>4. p \in {Failed(r, "decode"), [s EXCEPT !.framing = "none", !.head_done = TRUE],
             Failed(s, "decode"), [s EXCEPT !.framing = "chunked", !.head_done = TRUE],
             Failed(s, "body_limit"), [s EXCEPT !.framing = f, !.content_length = n, !.head_done = TRUE]}
  <2> HIDE DEF s, te, cl, ce, t1, t2, st
  <2> QED BY ONLY <1>2
<1>5. p = Failed(r, "decode") \/ st \in Statuses
  <2> HIDE DEF s, te, cl, ce, t1, t2, st
  <2> QED BY ONLY <1>2
<1> HIDE DEF te, cl, ce, t1, t2, st, f, n
<1>6. CASE p = Failed(r, "decode")
  BY <1>6 DEF Failed, Readers, Fails
<1>7. CASE st \in Statuses
  <2>1. s \in Readers /\ s.body_start = r.body_start /\ s.fail = "none" /\ ~s.head_done
    BY <1>7 DEF Readers
  <2> HIDE DEF s
  <2>2. \A why \in Fails \ {"none"} : /\ Failed(s, why) \in Readers /\ Failed(s, why).body_start = s.body_start
                                     /\ Failed(s, why).fail # "none" /\ ~Failed(s, why).head_done
    BY <2>1 DEF Failed, Readers
  <2>3. \A fr \in {"none", "chunked", "length", "close"} :
          LET a == [s EXCEPT !.framing = fr, !.head_done = TRUE]
          IN a \in Readers /\ a.body_start = s.body_start /\ a.fail = "none" /\ a.head_done
    BY <2>1 DEF Readers
  <2>4. LET b == [s EXCEPT !.framing = f, !.content_length = n, !.head_done = TRUE]
        IN b \in Readers /\ b.body_start = s.body_start /\ b.fail = "none" /\ b.head_done
    BY <1>3, <2>1 DEF Readers
  <2>5. "decode" \in Fails \ {"none"} /\ "body_limit" \in Fails \ {"none"}
    BY DEF Fails
  <2>6. CASE p \in {Failed(s, "decode"), Failed(s, "body_limit")}
    BY <2>1, <2>2, <2>5, <2>6
  <2>7. CASE p \in {[s EXCEPT !.framing = "none", !.head_done = TRUE], [s EXCEPT !.framing = "chunked", !.head_done = TRUE]}
    BY <2>1, <2>3, <2>7
  <2>8. CASE p = [s EXCEPT !.framing = f, !.content_length = n, !.head_done = TRUE]
    BY <2>1, <2>4, <2>8
  <2> QED BY <1>4, <1>6, <2>6, <2>7, <2>8
<1> QED BY <1>5, <1>6, <1>7

AllLimits == [header : Nat, body : Nat]

\* The head is not all there: the reader is where the scan of all the bytes came by.
HeadOpen(d, m, limits, r) ==
  /\ r.fail = "none" /\ ~r.head_done /\ r.body_start = 0 /\ m <= limits.header
  /\ r \in Chain(d) /\ Within(r, SubSeq(d, 1, m)) /\ Stuck(r, SubSeq(d, 1, m))

(* A prefix of what has come is a prefix of all.                            *)
LEMMA PrefixFacts ==
  ASSUME NEW d \in Seq(STRING), NEW m \in 0 .. Len(d), NEW e, e = SubSeq(d, 1, m)
  PROVE  /\ e \in Seq(STRING) /\ Len(e) = m /\ \A k \in 1 .. m : e[k] = d[k]
         /\ \A n \in 0 .. m : SubSeq(e, 1, n) = SubSeq(d, 1, n)
<1>1. e \in Seq(STRING) /\ Len(e) = m /\ m \in Nat /\ Len(d) \in Nat /\ \A k \in 1 .. m : e[k] = d[k]
  BY SubSeqProperties
<1>2. ASSUME NEW n \in 0 .. m PROVE SubSeq(e, 1, n) = SubSeq(d, 1, n)
  <2>1. /\ SubSeq(e, 1, n) \in Seq(STRING) /\ Len(SubSeq(e, 1, n)) = n
        /\ \A k \in 1 .. n : SubSeq(e, 1, n)[k] = e[k]
    BY <1>1, SubSeqProperties
  <2>2. /\ SubSeq(d, 1, n) \in Seq(STRING) /\ Len(SubSeq(d, 1, n)) = n
        /\ \A k \in 1 .. n : SubSeq(d, 1, n)[k] = d[k]
    BY <1>1, SubSeqProperties
  <2>3. \A k \in 1 .. n : e[k] = d[k]
    BY <1>1
  <2> DEFINE a == SubSeq(e, 1, n)
             b == SubSeq(d, 1, n)
  <2> HIDE DEF a, b
  <2>4. a \in Seq(STRING) /\ b \in Seq(STRING) /\ Len(a) = Len(b) /\ \A k \in 1 .. Len(a) : a[k] = b[k]
    BY <2>1, <2>2, <2>3 DEF a, b
  <2>5. a = b
    BY ONLY <2>4, SeqEqual
  <2> QED BY <2>5 DEF a, b
<1> QED BY <1>1, <1>2

(* What a reader knows of a shorter prefix it knows of a longer one.        *)
LEMMA WithinLonger ==
  ASSUME NEW d \in Seq(STRING), NEW m \in 0 .. Len(d), NEW n \in m .. Len(d), NEW r, Within(r, SubSeq(d, 1, m))
  PROVE  Within(r, SubSeq(d, 1, n))
<1> DEFINE e == SubSeq(d, 1, m)
           g == SubSeq(d, 1, n)
<1>1. Len(e) = m /\ m \in Nat /\ \A k \in 1 .. m : e[k] = d[k]
  BY PrefixFacts
<1>2. Len(g) = n /\ n \in Nat /\ m <= n /\ \A k \in 1 .. n : g[k] = d[k]
  <2>1. n \in 0 .. Len(d) /\ m <= n
    OBVIOUS
  <2> QED BY <2>1, PrefixFacts
<1>3. Within(r, e)
  OBVIOUS
<1> HIDE DEF e, g
<1>4. r \in Readers /\ r.scan \in Nat \ {0} /\ r.scan <= m + 1 /\ r.body_start \in Nat
  BY <1>1, <1>3 DEF Within, Readers
<1>5. ASSUME r.body_start # 0
      PROVE  r.scan < r.body_start /\ r.body_start <= n + 1 /\ g[r.body_start - 1] = "LF"
  <2>1. r.scan < r.body_start /\ r.body_start <= m + 1 /\ e[r.body_start - 1] = "LF"
    BY <1>1, <1>3, <1>5 DEF Within
  <2>2. r.body_start - 1 \in 1 .. m /\ r.body_start - 1 \in 1 .. n
    BY <1>1, <1>2, <1>4, <2>1
  <2> QED BY <1>1, <1>2, <1>4, <2>1, <2>2
<1>6. Within(r, g)
  BY <1>2, <1>4, <1>5 DEF Within
<1> QED BY <1>6 DEF g

(* The head of a piece: still open, read as from all the bytes, or refused  *)
(* for the same reason.                                                     *)
LEMMA HeadPiece ==
  ASSUME NEW d \in Seq(STRING), NEW m \in 0 .. Len(d), NEW n \in m .. Len(d), NEW limits \in AllLimits,
         NEW head_only \in BOOLEAN, NEW r, HeadOpen(d, m, limits, r),
         NEW q, q = ReadHead(r, SubSeq(d, 1, n), limits, head_only)
  PROVE  \/ HeadOpen(d, n, limits, q)
         \/ q = HeadOfAll(d, limits, head_only) /\ HeadReader(q, n)
         \/ q.fail # "none" /\ HeadOfAll(d, limits, head_only).fail = q.fail
<1> DEFINE e == SubSeq(d, 1, n)
           h == ScanHead(r, e)
           a == ScanHead(FreshReader, d)
           All == HeadOfAll(d, limits, head_only)
<1>0. n \in 0 .. Len(d) /\ n \in Nat /\ Len(d) \in Nat /\ n <= Len(d) /\ limits.header \in Nat
  BY DEF AllLimits
<1>1. /\ e \in Seq(STRING) /\ Len(e) = n /\ Within(r, e) /\ r \in Chain(d)
      /\ r.body_start = 0 /\ r.fail = "none" /\ ~r.head_done
  BY <1>0, PrefixFacts, WithinLonger DEF HeadOpen
<1>2. /\ Within(h, e) /\ Stuck(h, e) /\ h \in Chain(d)
      /\ h.head_done = r.head_done /\ h.fail = r.fail /\ h.body_start \in Nat /\ h.scan \in Nat \ {0} /\ h \in Readers
  <2>1. Within(h, e) /\ Stuck(h, e) /\ h.head_done = r.head_done /\ h.fail = r.fail
    <3>1. h = ScanHead(r, e)
      OBVIOUS
    <3> HIDE DEF h, e
    <3> QED BY ONLY <1>1, <3>1, ScanEnds
  <2>2. h \in Chain(d)
    BY <1>0, <1>1, PieceChain
  <2> HIDE DEF h, e
  <2> QED BY <2>1, <2>2 DEF Within, Readers
<1>3. q = IF (IF h.body_start > 0 THEN h.body_start - 1 ELSE n) > limits.header THEN Failed(h, "header_limit")
          ELSE IF ~(h.body_start > 0) THEN h
          ELSE http_reader_parse_head(h, SubSeq(e, 1, h.scan - 1), limits, head_only)
  <2>1. q = IF r.head_done THEN r
            ELSE IF (IF h.body_start > 0 THEN h.body_start - 1 ELSE Len(e)) > limits.header THEN Failed(h, "header_limit")
            ELSE IF ~(h.body_start > 0) THEN h
            ELSE http_reader_parse_head(h, SubSeq(e, 1, h.scan - 1), limits, head_only)
    BY DEF ReadHead
  <2> HIDE DEF e, h
  <2> QED BY ONLY <1>1, <2>1
<1>4. All = IF (IF a.body_start > 0 THEN a.body_start - 1 ELSE Len(d)) > limits.header THEN Failed(a, "header_limit")
            ELSE IF ~(a.body_start > 0) THEN a
            ELSE http_reader_parse_head(a, SubSeq(d, 1, a.scan - 1), limits, head_only)
  BY DEF ReadHead, HeadOfAll, FreshReader
<1>5. Within(a, d) /\ a \in Readers /\ a.body_start \in Nat
  BY FreshWithin, ScanEnds DEF Within, Readers
<1> HIDE DEF h, a, e, All
<1>6. CASE h.body_start > 0
  <2>1. h = a
    <3>1. Stuck(h, d)
      BY <1>6 DEF Stuck
    <3> QED BY <1>2, <3>1, ChainEnd DEF a
  <2>2. h.scan - 1 \in 0 .. n /\ h.body_start >= 1 /\ h.body_start <= n + 1
    BY <1>1, <1>2, <1>6 DEF Within
  <2>3. SubSeq(e, 1, h.scan - 1) = SubSeq(d, 1, h.scan - 1)
    BY <1>0, <2>2, PrefixFacts DEF e
  <2>4. q = All
    BY <1>3, <1>4, <1>6, <2>1, <2>3
  <2>5. CASE h.body_start - 1 > limits.header
    <3>1. q = Failed(h, "header_limit")
      BY <1>3, <1>6, <2>5
    <3>2. q.fail # "none"
      BY <1>2, <3>1 DEF Failed, Readers
    <3> QED BY <2>4, <3>2 DEF All
  <2>6. CASE ~(h.body_start - 1 > limits.header)
    <3>1. q = http_reader_parse_head(h, SubSeq(e, 1, h.scan - 1), limits, head_only)
      BY <1>3, <1>6, <2>6
    <3>2. q \in Readers /\ q.body_start = h.body_start /\ (q.fail = "none" <=> q.head_done)
      BY <1>1, <1>2, <3>1, ParsedHead DEF AllLimits
    <3> QED BY <2>2, <2>4, <3>2 DEF All, HeadReader
  <2> QED BY <2>5, <2>6
<1>7. CASE ~(h.body_start > 0)
  <2>1. h.body_start = 0
    BY <1>2, <1>7
  <2>2. CASE n > limits.header
    <3>1. q = Failed(h, "header_limit")
      BY <1>3, <1>7, <2>2
    <3>2. q.fail = "header_limit"
      BY <1>2, <3>1 DEF Failed, Readers
    <3>3. (IF a.body_start > 0 THEN a.body_start - 1 ELSE Len(d)) > limits.header
      <4>1. CASE a.body_start > 0
        <5>1. a.body_start # 0
          BY <1>5, <4>1
        <5>2. a.body_start > n + 1
          BY <1>0, <1>1, <1>2, <2>1, <5>1, BlankBehind DEF a, e
        <5> QED BY <1>0, <1>5, <2>2, <4>1, <5>2
      <4>2. CASE ~(a.body_start > 0)
        BY <1>0, <2>2, <4>2
      <4> QED BY <4>1, <4>2
    <3>4. All = Failed(a, "header_limit")
      BY <1>4, <3>3
    <3>5. All.fail = "header_limit"
      BY <1>5, <3>4 DEF Failed, Readers
    <3> QED BY <3>2, <3>5 DEF All
  <2>3. CASE ~(n > limits.header)
    <3>1. q = h
      BY <1>3, <1>7, <2>3
    <3>2. n <= limits.header
      BY <1>0, <2>3
    <3> QED BY <1>1, <1>2, <2>1, <3>1, <3>2 DEF HeadOpen, e
  <2> QED BY <2>2, <2>3
<1> QED BY <1>6, <1>7

(* A body cut at its length is the same, however much came behind it.       *)
LEMMA CutBody ==
  ASSUME NEW d \in Seq(STRING), NEW m \in 0 .. Len(d), NEW b \in Nat \ {0}, NEW n \in Nat, m - b + 1 >= n,
         NEW x, x = SubSeq(SubSeq(d, 1, m), b, m)
  PROVE  (IF Len(x) > n THEN SubSeq(x, 1, n) ELSE x) = SubSeq(d, b, b + n - 1)
<1> DEFINE e == SubSeq(d, 1, m)
           y == SubSeq(d, b, b + n - 1)
           z == SubSeq(x, 1, n)
<1>1. e \in Seq(STRING) /\ Len(e) = m /\ m \in Nat /\ Len(d) \in Nat /\ \A k \in 1 .. m : e[k] = d[k]
  BY PrefixFacts
<1>2. x = SubSeq(e, b, m)
  OBVIOUS
<1> HIDE DEF e
<1>3. /\ x \in Seq(STRING) /\ Len(x) = m - b + 1
      /\ \A k \in 1 .. m - b + 1 : x[k] = e[b + k - 1]
  <2>1. \A k \in b .. m : e[k] \in STRING
    BY <1>1
  <2>2. /\ x \in Seq(STRING) /\ Len(x) = IF b <= m THEN m - b + 1 ELSE 0
        /\ \A k \in 1 .. m - b + 1 : x[k] = e[b + k - 1]
    BY <1>1, <1>2, <2>1, SubSeqProperties
  <2>3. (IF b <= m THEN m - b + 1 ELSE 0) = m - b + 1
    BY <1>1
  <2> QED BY <2>2, <2>3
<1>4. y \in Seq(STRING) /\ Len(y) = n /\ \A k \in 1 .. n : y[k] = d[b + k - 1]
  <2>1. \A k \in b .. b + n - 1 : d[k] \in STRING
    BY <1>1
  <2>2. /\ y \in Seq(STRING) /\ Len(y) = IF b <= b + n - 1 THEN (b + n - 1) - b + 1 ELSE 0
        /\ \A k \in 1 .. (b + n - 1) - b + 1 : y[k] = d[b + k - 1]
    BY <2>1, SubSeqProperties
  <2>3. (b + n - 1) - b + 1 = n /\ (IF b <= b + n - 1 THEN (b + n - 1) - b + 1 ELSE 0) = n
    OBVIOUS
  <2> QED BY <2>2, <2>3
<1>5. \A k \in 1 .. n : x[k] = y[k]
  <2> SUFFICES ASSUME NEW k \in 1 .. n PROVE x[k] = y[k]
    OBVIOUS
  <2>1. k \in 1 .. m - b + 1 /\ b + k - 1 \in 1 .. m
    BY <1>1
  <2>2. x[k] = e[b + k - 1] /\ e[b + k - 1] = d[b + k - 1] /\ y[k] = d[b + k - 1]
    BY <1>1, <1>3, <1>4, <2>1
  <2> QED BY <2>2
<1> HIDE DEF y
<1>6. CASE Len(x) > n
  <2>1. z \in Seq(STRING) /\ Len(z) = n /\ \A k \in 1 .. n : z[k] = x[k]
    <3>1. n \in 0 .. Len(x)
      BY <1>1, <1>3, <1>6
    <3> QED BY <1>3, <3>1, PrefixFacts
  <2> HIDE DEF z
  <2>2. z \in Seq(STRING) /\ y \in Seq(STRING) /\ Len(z) = Len(y) /\ \A k \in 1 .. Len(z) : z[k] = y[k]
    BY <1>4, <1>5, <2>1
  <2>3. z = y
    BY ONLY <2>2, SeqEqual
  <2> QED BY <1>6, <2>3 DEF y, z
<1>7. CASE ~(Len(x) > n)
  <2>1. Len(x) = n
    BY <1>1, <1>3, <1>7
  <2>2. x \in Seq(STRING) /\ y \in Seq(STRING) /\ Len(x) = Len(y) /\ \A k \in 1 .. Len(x) : x[k] = y[k]
    BY <1>3, <1>4, <1>5, <2>1
  <2>3. x = y
    BY ONLY <2>2, SeqEqual
  <2> QED BY <1>7, <2>3 DEF y
<1> QED BY <1>6, <1>7

(* The outcome of a failed read is the failure.                             *)
LEMMA FailedOutcome ==
  ASSUME NEW r, r.fail # "none", NEW m, NEW limits, NEW d
  PROVE  Framed(r, m, limits) = <<r, TRUE>> /\ http_response_result(r, d) = <<r.fail, <<>>>>
  BY DEF Framed, http_response_result

(* A step stops the read or leaves the reader as it was.                    *)
LEMMA FramedIs ==
  ASSUME NEW r, NEW m, NEW limits
  PROVE  \/ Framed(r, m, limits) = <<r, FALSE>> /\ Framed(r, m, limits)[1] = r /\ ~Framed(r, m, limits)[2]
         \/ Framed(r, m, limits)[2] = TRUE
<1> DEFINE f == Framed(r, m, limits)
           g == Failed(r, "body_limit")
<1>1. f = <<r, TRUE>> \/ f = <<r, FALSE>> \/ f = <<g, TRUE>>
  <2> HIDE DEF g
  <2> QED BY DEF Framed, g
<1> HIDE DEF f, g
<1>2. CASE f = <<r, FALSE>>
  BY <1>2 DEF f
<1>3. CASE f = <<r, TRUE>>
  BY <1>3 DEF f
<1>4. CASE f = <<g, TRUE>>
  BY <1>4 DEF f
<1> QED BY <1>1, <1>2, <1>3, <1>4

(* In one piece: a step that stops, or the step and then the end of file.   *)
LEMMA OnePieceStops ==
  ASSUME NEW d, NEW limits, NEW head_only, NEW unclean, NEW q,
         Framed(HeadOfAll(d, limits, head_only), Len(d), limits) = <<q, TRUE>>
  PROVE  OnePiece(d, limits, head_only, unclean) = http_response_result(q, d)
<1>1. http_reader_step(FreshReader, d, limits, head_only) = <<q, TRUE>>
  BY DEF http_reader_step, HeadOfAll
<1> QED BY <1>1 DEF OnePiece
LEMMA OnePieceEnds ==
  ASSUME NEW d, NEW limits, NEW head_only, NEW unclean, NEW q,
         Framed(HeadOfAll(d, limits, head_only), Len(d), limits) = <<q, FALSE>>
  PROVE  OnePiece(d, limits, head_only, unclean) = http_response_result(http_reader_eof(q, Len(d), unclean), d)
<1>1. http_reader_step(FreshReader, d, limits, head_only) = <<q, FALSE>>
  BY DEF http_reader_step, HeadOfAll
<1> QED BY <1>1 DEF OnePiece

(* A read that stops on a piece has the outcome of all in one piece.        *)
LEMMA StopSame ==
  ASSUME NEW d \in Seq(STRING), NEW m \in 0 .. Len(d), NEW limits \in AllLimits, NEW head_only, NEW unclean,
         NEW r, HeadReader(r, m), r = HeadOfAll(d, limits, head_only),
         Framed(r, m, limits)[2]
  PROVE  http_response_result(Framed(r, m, limits)[1], SubSeq(d, 1, m)) = OnePiece(d, limits, head_only, unclean)
<1> DEFINE e == SubSeq(d, 1, m)
           whole == OnePiece(d, limits, head_only, unclean)
<1>1. /\ r \in Readers /\ r.fail = "none" /\ r.head_done /\ r.body_start \in Nat \ {0} /\ r.content_length \in Nat
      /\ m \in Nat /\ Len(d) \in Nat /\ m <= Len(d) /\ limits.body \in Nat /\ Len(e) = m
  BY PrefixFacts DEF HeadReader, Readers, AllLimits
<1> HIDE DEF e
<1>2. CASE r.framing = "none"
  <2>1. Framed(r, m, limits) = <<r, TRUE>> /\ Framed(r, Len(d), limits) = <<r, TRUE>>
    BY <1>1, <1>2 DEF Framed
  <2>2. whole = http_response_result(r, d)
    BY <2>1, OnePieceStops
  <2>3. http_response_result(r, e) = http_response_result(r, d)
    BY <1>1, <1>2 DEF http_response_result
  <2> QED BY <2>1, <2>2, <2>3 DEF e
<1>3. CASE r.framing = "length"
  <2> DEFINE n == r.content_length
             b == r.body_start
             x == SubSeq(e, b, m)
             y == SubSeq(d, b, Len(d))
             u == IF Len(x) > n THEN SubSeq(x, 1, n) ELSE x
             v == IF Len(y) > n THEN SubSeq(y, 1, n) ELSE y
  <2>1. m - b + 1 >= n
    <3> SUFFICES ASSUME ~(m - b + 1 >= n) PROVE FALSE
      OBVIOUS
    <3>1. Framed(r, m, limits) = <<r, FALSE>>
      BY <1>1, <1>3 DEF Framed
    <3> QED BY <3>1
  <2>2. Len(d) - b + 1 >= n
    BY <1>1, <2>1
  <2>3. Framed(r, m, limits) = <<r, TRUE>> /\ Framed(r, Len(d), limits) = <<r, TRUE>>
    BY <1>1, <1>3, <2>1, <2>2 DEF Framed
  <2>4. whole = http_response_result(r, d)
    BY <2>3, OnePieceStops
  <2>5. u = SubSeq(d, b, b + n - 1)
    <3>1. x = SubSeq(SubSeq(d, 1, m), b, m) /\ b \in Nat \ {0} /\ n \in Nat
      BY <1>1 DEF e
    <3> HIDE DEF x, b, n
    <3> QED BY <2>1, <3>1, CutBody
  <2>6. v = SubSeq(d, b, b + n - 1)
    <3>1. Len(d) \in 0 .. Len(d) /\ d = SubSeq(d, 1, Len(d))
      BY SubSeqFull
    <3>2. y = SubSeq(SubSeq(d, 1, Len(d)), b, Len(d)) /\ b \in Nat \ {0} /\ n \in Nat
      BY <1>1, <3>1
    <3> HIDE DEF y, b, n
    <3> QED BY <2>2, <3>1, <3>2, CutBody
  <2> HIDE DEF x, y, n, b, u, v
  <2>7. http_response_result(r, e) = IF r.status = "s404" THEN <<"bad_status", <<>>>>
                                     ELSE <<"ok", u>>
    BY <1>1, <1>3 DEF http_response_result, u, x, n, b
  <2>8. http_response_result(r, d) = IF r.status = "s404" THEN <<"bad_status", <<>>>>
                                     ELSE <<"ok", v>>
    BY <1>1, <1>3 DEF http_response_result, v, y, n, b
  <2>9. http_response_result(r, e) = http_response_result(r, d)
    BY ONLY <2>5, <2>6, <2>7, <2>8
  <2>10. Framed(r, m, limits)[1] = r
    BY ONLY <2>3
  <2> QED BY ONLY <2>4, <2>9, <2>10 DEF e
<1>4. CASE r.framing \notin {"none", "length"}
  <2> DEFINE q == Failed(r, "body_limit")
  <2>1. m - r.body_start + 1 > limits.body
    BY <1>1, <1>4 DEF Framed
  <2>2. Len(d) - r.body_start + 1 > limits.body
    BY <1>1, <2>1
  <2>3. Framed(r, m, limits) = <<q, TRUE>> /\ Framed(r, Len(d), limits) = <<q, TRUE>>
    BY <1>1, <1>4, <2>1, <2>2 DEF Framed
  <2>4. q.fail # "none"
    BY <1>1 DEF Failed, Readers
  <2> HIDE DEF q
  <2>5. whole = http_response_result(q, d)
    BY <2>3, OnePieceStops
  <2>6. http_response_result(q, e) = http_response_result(q, d)
    BY <2>4, FailedOutcome
  <2> QED BY <2>3, <2>5, <2>6 DEF e
<1> QED BY <1>2, <1>3, <1>4

-----------------------------------------------------------------------------
(* The exchange *)

\* The exchange is a record of its parts, the parts are what they should be, and a read
\* that goes on has a reader that all the bytes in one piece would have led to.
Bytes == Stream(hr.plan)
HrTyped ==
  /\ hr = [plan |-> hr.plan, limits |-> hr.limits, head_only |-> hr.head_only, unclean |-> hr.unclean,
           len |-> hr.len, reader |-> hr.reader, stopped |-> hr.stopped, result |-> hr.result]
  /\ hr.plan \in HrPlans /\ hr.limits \in HrLimits
  /\ hr.head_only \in BOOLEAN /\ hr.unclean \in BOOLEAN /\ hr.stopped \in BOOLEAN
  /\ hr.len \in 0 .. Len(Bytes)
ReadsOn ==
  \/ HeadOpen(Bytes, hr.len, hr.limits, hr.reader)
  \/ /\ hr.reader = HeadOfAll(Bytes, hr.limits, hr.head_only)
     /\ HeadReader(hr.reader, hr.len)
     /\ Framed(hr.reader, hr.len, hr.limits) = <<hr.reader, FALSE>>
HrInv ==
  /\ HrTyped
  /\ ~hr.stopped => ReadsOn
  /\ hr.stopped => hr.result = OnePiece(Bytes, hr.limits, hr.head_only, hr.unclean)

(* Nothing has come.                                                        *)
LEMMA HrStarts == HrInit => HrInv
<1> SUFFICES ASSUME HrInit PROVE HrInv
  OBVIOUS
<1>1. /\ hr.plan \in HrPlans /\ hr.limits \in HrLimits /\ hr.head_only \in BOOLEAN /\ hr.unclean \in BOOLEAN
      /\ hr.len = 0 /\ hr.reader = FreshReader /\ hr.stopped = FALSE
      /\ hr = [plan |-> hr.plan, limits |-> hr.limits, head_only |-> hr.head_only, unclean |-> hr.unclean,
               len |-> hr.len, reader |-> hr.reader, stopped |-> hr.stopped, result |-> hr.result]
  BY DEF HrInit
<1>2. Bytes \in Seq(STRING) /\ hr.limits \in AllLimits
  BY <1>1, HrAssumption DEF Bytes, AllLimits
<1> DEFINE e == SubSeq(Bytes, 1, 0)
<1>3. e \in Seq(STRING) /\ Len(e) = 0
  BY <1>2, PrefixFacts
<1>4. Len(Bytes) \in Nat /\ hr.limits.header \in Nat
  BY <1>2 DEF AllLimits
<1>5. /\ Within(FreshReader, e) /\ FreshReader \in Chain(Bytes) /\ FreshReader.body_start = 0
      /\ FreshReader.scan = 1
  BY <1>2, <1>3, FreshWithin
<1> HIDE DEF e
<1>6. Stuck(FreshReader, e)
  BY <1>3, <1>5 DEF Stuck, LineEnds
<1>7. FreshReader.fail = "none" /\ ~FreshReader.head_done
  BY DEF FreshReader
<1>8. HeadOpen(Bytes, 0, hr.limits, FreshReader)
  BY <1>4, <1>5, <1>6, <1>7 DEF HeadOpen, e
<1>9. HrTyped
  <2>1. hr.len \in 0 .. Len(Bytes)
    BY <1>1, <1>4
  <2>2. hr.stopped \in BOOLEAN
    BY <1>1
  <2> QED BY <1>1, <2>1, <2>2 DEF HrTyped
<1>10. ReadsOn
  BY <1>1, <1>8 DEF ReadsOn
<1> QED BY <1>1, <1>9, <1>10 DEF HrInv

\* What a piece makes of the head: still open, read as from all the bytes, or refused for
\* the same reason.
HeadAt(q, m) ==
  \/ HeadOpen(Bytes, m, hr.limits, q)
  \/ q = HeadOfAll(Bytes, hr.limits, hr.head_only) /\ HeadReader(q, m)
  \/ q.fail # "none" /\ HeadOfAll(Bytes, hr.limits, hr.head_only).fail = q.fail
\* The step that appends a piece, q being the reader when the head was looked at.
PieceStep(q, m) ==
  LET f == Framed(q, m, hr.limits)
  IN /\ hr'.plan = hr.plan /\ hr'.limits = hr.limits /\ hr'.head_only = hr.head_only /\ hr'.unclean = hr.unclean
     /\ hr'.len = m /\ hr'.reader = f[1] /\ hr'.stopped = f[2] /\ f[2] \in BOOLEAN
     /\ f[2] => hr'.result = http_response_result(f[1], SubSeq(Bytes, 1, m))
     /\ hr' = [plan |-> hr'.plan, limits |-> hr'.limits, head_only |-> hr'.head_only, unclean |-> hr'.unclean,
               len |-> hr'.len, reader |-> hr'.reader, stopped |-> hr'.stopped, result |-> hr'.result]

(* One more piece.                                                          *)
LEMMA Received ==
  ASSUME HrInv, NEW n \in 1 .. Len(Bytes), recv(n)
  PROVE  \E m \in 0 .. Len(Bytes) : \E q : HeadAt(q, m) /\ PieceStep(q, m)
<1> DEFINE m == hr.len + n
           e == SubSeq(Bytes, 1, m)
           q == ReadHead(hr.reader, e, hr.limits, hr.head_only)
           f == Framed(q, m, hr.limits)
           res == http_response_result(f[1], e)
<1>1. Bytes \in Seq(STRING) /\ hr.limits \in AllLimits /\ hr.head_only \in BOOLEAN /\ hr.unclean \in BOOLEAN
  BY HrAssumption DEF Bytes, AllLimits, HrInv, HrTyped
<1>2. ~hr.stopped /\ hr.len \in 0 .. Len(Bytes) /\ m \in hr.len .. Len(Bytes) /\ m \in 0 .. Len(Bytes) /\ Len(Bytes) \in Nat
  BY <1>1 DEF recv, HrInv, HrTyped, Bytes
<1>3. e \in Seq(STRING) /\ Len(e) = m
  BY <1>1, <1>2, PrefixFacts
<1>4. hr' = [hr EXCEPT !.len = m, !.reader = f[1], !.stopped = f[2], !.result = IF f[2] THEN res ELSE @]
  <2>1. Data(m) = e
    BY DEF Data, Bytes
  <2>2. http_reader_step(hr.reader, Data(m), hr.limits, hr.head_only) = f
    <3>1. http_reader_step(hr.reader, e, hr.limits, hr.head_only) = Framed(q, Len(e), hr.limits)
      BY DEF http_reader_step
    <3> QED BY <1>3, <2>1, <3>1
  <2> HIDE DEF e, q, f
  <2> QED BY <2>1, <2>2 DEF recv
<1>5. /\ hr'.plan = hr.plan /\ hr'.limits = hr.limits /\ hr'.head_only = hr.head_only /\ hr'.unclean = hr.unclean
      /\ hr'.len = m /\ hr'.reader = f[1] /\ hr'.stopped = f[2] /\ (f[2] => hr'.result = res)
      /\ hr' = [plan |-> hr'.plan, limits |-> hr'.limits, head_only |-> hr'.head_only, unclean |-> hr'.unclean,
                len |-> hr'.len, reader |-> hr'.reader, stopped |-> hr'.stopped, result |-> hr'.result]
  <2>1. hr = [plan |-> hr.plan, limits |-> hr.limits, head_only |-> hr.head_only, unclean |-> hr.unclean,
              len |-> hr.len, reader |-> hr.reader, stopped |-> hr.stopped, result |-> hr.result]
    BY DEF HrInv, HrTyped
  <2> HIDE DEF m, f, res
  <2> QED BY <1>4, <2>1
<1>7. f[2] \in BOOLEAN
  <2> HIDE DEF q, m
  <2>1. (f = <<q, FALSE>> /\ f[1] = q /\ ~f[2]) \/ f[2] = TRUE
    BY FramedIs
  <2>2. f = <<q, FALSE>> => f[2] = FALSE
    OBVIOUS
  <2> HIDE DEF f
  <2> QED BY <2>1, <2>2
<1> DEFINE All == HeadOfAll(Bytes, hr.limits, hr.head_only)
<1>8. \/ HeadOpen(Bytes, m, hr.limits, q)
      \/ q = All /\ HeadReader(q, m)
      \/ q.fail # "none" /\ All.fail = q.fail
  <2>1. CASE HeadOpen(Bytes, hr.len, hr.limits, hr.reader)
    <3>1. q = ReadHead(hr.reader, SubSeq(Bytes, 1, m), hr.limits, hr.head_only)
      OBVIOUS
    <3> HIDE DEF q, m, e
    <3> QED BY <1>1, <1>2, <2>1, <3>1, HeadPiece
  <2>2. CASE hr.reader = All /\ HeadReader(hr.reader, hr.len)
    <3>1. hr.reader.head_done
      BY <2>2 DEF HeadReader
    <3>2. q = hr.reader
      BY <3>1 DEF ReadHead
    <3> HIDE DEF q, m, e, All
    <3>3. HeadReader(q, m)
      BY <1>2, <2>2, <3>2 DEF HeadReader, Readers
    <3> QED BY <2>2, <3>2, <3>3
  <2> QED BY <1>2, <2>1, <2>2 DEF HrInv, ReadsOn
<1>9. HeadAt(q, m)
  BY <1>8 DEF HeadAt
<1>10. PieceStep(q, m)
  <2> HIDE DEF q, m
  <2> QED BY <1>5, <1>7 DEF PieceStep
<1> HIDE DEF q, m
<1> QED BY <1>2, <1>9, <1>10

(* It keeps the invariant.                                                  *)
LEMMA HrReceives == ASSUME HrInv, NEW n \in 1 .. Len(Bytes), recv(n) PROVE HrInv'
<1>1. Bytes \in Seq(STRING) /\ hr.limits \in AllLimits /\ hr.head_only \in BOOLEAN /\ hr.unclean \in BOOLEAN
  BY HrAssumption DEF Bytes, AllLimits, HrInv, HrTyped
<1>a. PICK m \in 0 .. Len(Bytes) : \E q : HeadAt(q, m) /\ PieceStep(q, m)
  BY Received
<1>2. PICK q : HeadAt(q, m) /\ PieceStep(q, m)
  BY <1>a
<1> DEFINE e == SubSeq(Bytes, 1, m)
           f == Framed(q, m, hr.limits)
           res == http_response_result(f[1], e)
           All == HeadOfAll(Bytes, hr.limits, hr.head_only)
<1>5. /\ hr'.plan = hr.plan /\ hr'.limits = hr.limits /\ hr'.head_only = hr.head_only /\ hr'.unclean = hr.unclean
      /\ hr'.len = m /\ hr'.reader = f[1] /\ hr'.stopped = f[2] /\ (f[2] => hr'.result = res)
      /\ hr' = [plan |-> hr'.plan, limits |-> hr'.limits, head_only |-> hr'.head_only, unclean |-> hr'.unclean,
                len |-> hr'.len, reader |-> hr'.reader, stopped |-> hr'.stopped, result |-> hr'.result]
  BY <1>2 DEF PieceStep
<1>6. Bytes' = Bytes
  BY <1>5 DEF Bytes
<1>7. f[2] \in BOOLEAN
  BY <1>2 DEF PieceStep
<1>8. \/ HeadOpen(Bytes, m, hr.limits, q)
      \/ q = All /\ HeadReader(q, m)
      \/ q.fail # "none" /\ All.fail = q.fail
  BY <1>2 DEF HeadAt
<1> HIDE DEF e, All
<1>9. /\ ~f[2] => \/ HeadOpen(Bytes, m, hr.limits, f[1])
                  \/ f[1] = All /\ HeadReader(f[1], m) /\ Framed(f[1], m, hr.limits) = <<f[1], FALSE>>
      /\ f[2] => res = OnePiece(Bytes, hr.limits, hr.head_only, hr.unclean)
  <2>1. CASE HeadOpen(Bytes, m, hr.limits, q)
    <3>1. f = <<q, FALSE>>
      BY <2>1 DEF Framed, HeadOpen
    <3> HIDE DEF f
    <3> QED BY <2>1, <3>1
  <2>2. CASE q = All /\ HeadReader(q, m)
    <3>1. ~f[2] => f = <<q, FALSE>> /\ f[1] = q
      <4>1. (f = <<q, FALSE>> /\ f[1] = q /\ ~f[2]) \/ f[2] = TRUE
        BY FramedIs
      <4> HIDE DEF f
      <4> QED BY <4>1
    <3>2. ASSUME f[2] PROVE res = OnePiece(Bytes, hr.limits, hr.head_only, hr.unclean)
      BY <1>1, <1>2, <2>2, <3>2, StopSame DEF All, e
    <3>3. f = Framed(q, m, hr.limits)
      OBVIOUS
    <3> HIDE DEF f, res
    <3>4. CASE f[2]
      BY <3>2, <3>4
    <3>5. CASE ~f[2]
      <4>1. f = <<q, FALSE>> /\ f[1] = q
        BY <3>1, <3>5
      <4> QED BY <2>2, <3>3, <3>5, <4>1
    <3> QED BY <3>4, <3>5
  <2>3. CASE q.fail # "none" /\ All.fail = q.fail
    <3>1. f = <<q, TRUE>> /\ http_response_result(q, e) = <<q.fail, <<>>>>
      BY <2>3, FailedOutcome
    <3>2. Framed(All, Len(Bytes), hr.limits) = <<All, TRUE>> /\ http_response_result(All, Bytes) = <<q.fail, <<>>>>
      BY <2>3, FailedOutcome
    <3>3. OnePiece(Bytes, hr.limits, hr.head_only, hr.unclean) = http_response_result(All, Bytes)
      BY <3>2, OnePieceStops DEF All
    <3>4. res = http_response_result(q, e)
      BY <3>1
    <3> HIDE DEF f, res
    <3> QED BY <3>1, <3>2, <3>3, <3>4
  <2> QED BY <1>8, <2>1, <2>2, <2>3
<1> HIDE DEF f, res
<1>10. HrTyped'
  BY <1>2, <1>5, <1>6, <1>7 DEF HrInv, HrTyped
<1>11. ~hr'.stopped => ReadsOn'
  BY <1>5, <1>6, <1>9 DEF ReadsOn, All
<1>12. hr'.stopped => hr'.result = OnePiece(Bytes, hr.limits, hr.head_only, hr.unclean)
  BY <1>5, <1>9
<1> QED BY <1>5, <1>6, <1>10, <1>11, <1>12 DEF HrInv

(* The peer closed.                                                         *)
LEMMA HrEnds == ASSUME HrInv, eof PROVE HrInv'
<1> DEFINE q == http_reader_eof(hr.reader, hr.len, hr.unclean)
           res == http_response_result(q, Bytes)
           All == HeadOfAll(Bytes, hr.limits, hr.head_only)
<1>1. Bytes \in Seq(STRING) /\ hr.limits \in AllLimits
  BY HrAssumption DEF Bytes, AllLimits, HrInv, HrTyped
<1>2. ~hr.stopped /\ hr.len = Len(Bytes) /\ Len(Bytes) \in Nat /\ SubSeq(Bytes, 1, Len(Bytes)) = Bytes
  BY <1>1, SubSeqFull DEF eof, Bytes
<1>3. hr' = [hr EXCEPT !.reader = q, !.stopped = TRUE, !.result = res]
  <2>1. Data(hr.len) = Bytes
    BY <1>2 DEF Data, Bytes
  <2> HIDE DEF Bytes
  <2> QED BY <2>1 DEF eof
<1>4. /\ hr'.plan = hr.plan /\ hr'.limits = hr.limits /\ hr'.head_only = hr.head_only /\ hr'.unclean = hr.unclean
      /\ hr'.len = hr.len /\ hr'.reader = q /\ hr'.stopped = TRUE /\ hr'.result = res
      /\ hr' = [plan |-> hr'.plan, limits |-> hr'.limits, head_only |-> hr'.head_only, unclean |-> hr'.unclean,
                len |-> hr'.len, reader |-> hr'.reader, stopped |-> hr'.stopped, result |-> hr'.result]
  <2>1. hr = [plan |-> hr.plan, limits |-> hr.limits, head_only |-> hr.head_only, unclean |-> hr.unclean,
              len |-> hr.len, reader |-> hr.reader, stopped |-> hr.stopped, result |-> hr.result]
    BY DEF HrInv, HrTyped
  <2> HIDE DEF q, res
  <2> QED BY <1>3, <2>1
<1>5. Bytes' = Bytes
  BY <1>4 DEF Bytes
<1>6. Framed(All, Len(Bytes), hr.limits) = <<hr.reader, FALSE>>
  <2>1. CASE HeadOpen(Bytes, hr.len, hr.limits, hr.reader)
    <3> DEFINE a == ScanHead(FreshReader, Bytes)
    <3>1. /\ hr.reader \in Chain(Bytes) /\ Stuck(hr.reader, Bytes) /\ hr.reader.body_start = 0
          /\ Len(Bytes) <= hr.limits.header /\ ~hr.reader.head_done /\ hr.reader.fail = "none"
      BY <1>2, <2>1 DEF HeadOpen
    <3>2. a = hr.reader
      BY <1>1, <3>1, ChainEnd
    <3>3. All = IF (IF a.body_start > 0 THEN a.body_start - 1 ELSE Len(Bytes)) > hr.limits.header
                THEN Failed(a, "header_limit")
                ELSE IF ~(a.body_start > 0) THEN a
                ELSE http_reader_parse_head(a, SubSeq(Bytes, 1, a.scan - 1), hr.limits, hr.head_only)
      BY DEF ReadHead, HeadOfAll, FreshReader
    <3>4. hr.limits.header \in Nat
      BY <1>1 DEF AllLimits
    <3> HIDE DEF a, All
    <3>5. All = hr.reader
      BY <1>2, <3>1, <3>2, <3>3, <3>4
    <3> QED BY <3>1, <3>5 DEF Framed
  <2>2. CASE hr.reader = All /\ Framed(hr.reader, hr.len, hr.limits) = <<hr.reader, FALSE>>
    BY <1>2, <2>2
  <2> QED BY <1>2, <2>1, <2>2 DEF HrInv, ReadsOn
<1>7. OnePiece(Bytes, hr.limits, hr.head_only, hr.unclean)
        = http_response_result(http_reader_eof(hr.reader, Len(Bytes), hr.unclean), Bytes)
  BY <1>6, OnePieceEnds
<1>8. res = OnePiece(Bytes, hr.limits, hr.head_only, hr.unclean)
  BY <1>2, <1>7
<1> HIDE DEF q, res
<1>9. HrTyped'
  BY <1>4, <1>5 DEF HrInv, HrTyped
<1> QED BY <1>4, <1>5, <1>8, <1>9 DEF HrInv

(* Every step of an exchange keeps the invariant.                           *)
LEMMA HrKeeps == HrInv /\ [HrNext]_hr => HrInv'
<1> SUFFICES ASSUME HrInv, [HrNext]_hr PROVE HrInv'
  OBVIOUS
<1>1. CASE eof
  BY <1>1, HrEnds
<1>2. ASSUME NEW n \in 1 .. Len(Stream(hr.plan)), recv(n) PROVE HrInv'
  BY <1>2, HrReceives DEF Bytes
<1>3. CASE UNCHANGED hr
  BY <1>3 DEF HrInv, HrTyped, ReadsOn, Bytes
<1> QED BY <1>1, <1>2, <1>3 DEF HrNext

(* For every response, every limit and every way in which recv cuts the     *)
(* response into pieces, the request has the outcome that it would have if  *)
(* http_reader_step had seen all the bytes at once.                         *)
THEOREM HttpPieces == HrSpec => []HttpSplitIndependent
<1>1. HrInv => HttpSplitIndependent
  BY DEF HrInv, HttpSplitIndependent, InOnePiece, OnePiece, Bytes
<1> QED BY <1>1, HrStarts, HrKeeps, PTL DEF HrSpec

-----------------------------------------------------------------------------
(* Where the head ends *)

\* A scan has passed no blank line, and the one it stops at is the first.
LineStart(r, d) ==
  /\ r.lines > 0 <=> r.scan > 1
  /\ r.scan > 1 => d[r.scan - 1] = "LF"
  /\ \A k \in 1 .. r.scan - 1 : ~BlankAt(d, k)
  /\ r.body_start # 0 => /\ BlankAt(d, r.body_start - 1)
                         /\ \A k \in 1 .. r.body_start - 2 : ~BlankAt(d, k)

(* A line is blank exactly if the scan says so.                             *)
LEMMA LineBlank ==
  ASSUME NEW d \in Seq(STRING), NEW r, Within(r, d), r.body_start = 0, LineStart(r, d),
         NEW n \in LineEnds(r, d), \A j \in LineEnds(r, d) : n <= j
  PROVE  LineStart(PastLine(r, d, n), d)
<1> DEFINE c == IF n > r.scan /\ d[n - 1] = "CR" THEN n - 1 ELSE n
           blank == r.lines > 0 /\ c = r.scan
           a == [r EXCEPT !.body_start = n + 1]
           b == [r EXCEPT !.lines = @ + 1, !.scan = n + 1]
<1>1. /\ r \in Readers /\ r.scan \in Nat \ {0} /\ r.lines \in Nat /\ Len(d) \in Nat
      /\ n \in Nat /\ n >= r.scan /\ n <= Len(d) /\ d[n] = "LF"
      /\ \A k \in r.scan .. n - 1 : d[k] # "LF"
  <2>1. /\ r \in Readers /\ r.scan \in Nat \ {0} /\ r.lines \in Nat /\ Len(d) \in Nat
        /\ n \in r.scan .. Len(d) /\ d[n] = "LF"
    BY DEF Within, Readers, LineEnds
  <2>2. ASSUME NEW k \in r.scan .. n - 1, d[k] = "LF" PROVE FALSE
    <3>1. k \in LineEnds(r, d)
      BY <2>1, <2>2 DEF LineEnds
    <3> QED BY <2>1, <3>1
  <2> QED BY <2>1, <2>2
<1>2. PastLine(r, d, n) = IF blank THEN a ELSE b
  BY DEF PastLine
<1>3. /\ a.scan = r.scan /\ a.lines = r.lines /\ a.body_start = n + 1
      /\ b.scan = n + 1 /\ b.lines = r.lines + 1 /\ b.body_start = 0
  BY <1>1 DEF Readers
<1> HIDE DEF a, b
<1>4. /\ r.lines > 0 <=> r.scan > 1
      /\ r.scan > 1 => d[r.scan - 1] = "LF"
      /\ \A k \in 1 .. r.scan - 1 : ~BlankAt(d, k)
  BY DEF LineStart
<1>5. \A k \in 1 .. n - 1 : ~BlankAt(d, k)
  <2> SUFFICES ASSUME NEW k \in 1 .. n - 1 PROVE ~BlankAt(d, k)
    OBVIOUS
  <2>1. CASE k <= r.scan - 1
    BY <1>1, <1>4, <2>1
  <2>2. CASE ~(k <= r.scan - 1)
    <3>1. k \in r.scan .. n - 1
      BY <1>1, <2>2
    <3> QED BY <1>1, <3>1 DEF BlankAt
  <2> QED BY <2>1, <2>2
<1>6. blank => BlankAt(d, n)
  BY <1>1, <1>4 DEF BlankAt
<1>7. BlankAt(d, n) => blank
  <2> SUFFICES ASSUME BlankAt(d, n) PROVE blank
    OBVIOUS
  <2>1. CASE n > 1 /\ d[n - 1] = "LF"
    <3>1. n = r.scan
      BY <1>1, <2>1
    <3>2. c = n /\ r.scan > 1
      BY <1>1, <2>1, <3>1
    <3> QED BY <1>4, <3>1, <3>2
  <2>2. CASE n > 2 /\ d[n - 1] = "CR" /\ d[n - 2] = "LF"
    <3>1. ~(n - 2 >= r.scan)
      BY <1>1, <2>2
    <3>2. n = r.scan \/ n - 1 = r.scan
      BY <1>1, <3>1
    <3>3. r.scan > 1
      BY <1>1, <2>2, <3>2
    <3>4. n # r.scan
      BY <1>4, <2>2, <3>3
    <3>5. c = n - 1
      BY <1>1, <2>2, <3>2, <3>4
    <3> QED BY <1>4, <3>2, <3>3, <3>4, <3>5
  <2> QED BY <2>1, <2>2 DEF BlankAt
<1> HIDE DEF blank
<1>8. CASE blank
  <2>1. a.body_start - 1 = n /\ a.body_start - 2 = n - 1
    BY <1>1, <1>3
  <2>2. LineStart(a, d)
    BY <1>3, <1>4, <1>5, <1>6, <1>8, <2>1 DEF LineStart
  <2> QED BY <1>2, <1>8, <2>2
<1>9. CASE ~blank
  <2>1. b.lines > 0 /\ b.scan > 1 /\ b.scan - 1 = n
    BY <1>1, <1>3
  <2>2. \A k \in 1 .. n : ~BlankAt(d, k)
    BY <1>1, <1>5, <1>7, <1>9
  <2>3. LineStart(b, d)
    BY <1>1, <1>3, <2>1, <2>2 DEF LineStart
  <2> QED BY <1>2, <1>9, <2>3
<1> QED BY <1>8, <1>9

(* Of every reader a scan goes through.                                     *)
LEMMA ChainLines ==
  ASSUME NEW d \in Seq(STRING), NEW r \in Chain(d)
  PROVE  LineStart(r, d)
<1> DEFINE R(k) == ReadRun(FreshReader, d, k)
           T == {k \in Nat : LineStart(R(k), d)}
<1>1. R(0) = FreshReader /\ \A k \in Nat : Within(R(k), d) /\ R(k + 1) = Turned(R(k), d)
  BY FreshWithin, ReadLoop
<1>2. PICK k \in Nat : r = R(k)
  BY DEF Chain
<1> HIDE DEF R
<1>3. 0 \in T
  <2>1. LineStart(FreshReader, d)
    BY DEF LineStart, FreshReader
  <2> QED BY <1>1, <2>1
<1>4. ASSUME NEW i \in Nat, i \in T PROVE i + 1 \in T
  <2> DEFINE q == R(i)
  <2>1. Within(q, d) /\ R(i + 1) = Turned(q, d) /\ LineStart(q, d)
    BY <1>1, <1>4
  <2> HIDE DEF q
  <2>2. CASE Stuck(q, d)
    <3>1. Turned(q, d) = q
      BY <2>1, <2>2, TurnMoves
    <3> QED BY <2>1, <3>1
  <2>3. CASE ~Stuck(q, d)
    <3> DEFINE s == [reader |-> q, data |-> d]
    <3>1. s \in Scans(d) /\ s.reader = q
      BY <2>1 DEF Scans, Within
    <3> HIDE DEF s
    <3>2. PICK n \in LineEnds(q, d) : (\A j \in LineEnds(q, d) : n <= j) /\ Turned(q, d) = PastLine(q, d, n)
      BY <2>3, <3>1, ScanOnce
    <3>3. q.body_start = 0
      BY <2>3 DEF Stuck
    <3>4. LineStart(PastLine(q, d, n), d)
      BY <2>1, <3>2, <3>3, LineBlank
    <3> QED BY <2>1, <3>2, <3>4
  <2> QED BY <2>2, <2>3
<1> HIDE DEF T
<1>5. Nat \subseteq T
  BY <1>3, <1>4, Induct
<1> QED BY <1>2, <1>5 DEF T

\* A head that ends at its only blank line.
GoodHead(h) == h \in Seq(STRING) /\ h # <<>> /\ \A k \in 1 .. Len(h) : BlankAt(h, k) <=> k = Len(h)

(* The body starts behind such a head.                                      *)
LEMMA BodyBehind ==
  ASSUME NEW h, GoodHead(h), NEW d \in Seq(STRING), \A k \in 1 .. Len(h) : k <= Len(d) => d[k] = h[k],
         NEW r \in Chain(d), r.body_start # 0
  PROVE  r.body_start = Len(h) + 1 /\ Len(h) <= Len(d)
<1>1. /\ BlankAt(d, r.body_start - 1) /\ \A k \in 1 .. r.body_start - 2 : ~BlankAt(d, k)
      /\ r.body_start \in Nat /\ r.body_start > 1 /\ r.body_start <= Len(d) + 1 /\ Len(d) \in Nat
  <2>1. LineStart(r, d) /\ Within(r, d)
    BY ChainLines, ChainStep
  <2>2. r.body_start \in Nat /\ r.scan \in Nat \ {0} /\ r.scan < r.body_start /\ r.body_start <= Len(d) + 1
    BY <2>1 DEF Within, Readers
  <2> QED BY <2>1, <2>2 DEF LineStart
<1>2. h \in Seq(STRING) /\ Len(h) \in Nat /\ Len(h) > 0 /\ \A k \in 1 .. Len(h) : BlankAt(h, k) <=> k = Len(h)
  BY DEF GoodHead
<1>3. \A k \in 1 .. Len(h) : k <= Len(d) => (BlankAt(d, k) <=> BlankAt(h, k))
  <2> SUFFICES ASSUME NEW k \in 1 .. Len(h), k <= Len(d) PROVE BlankAt(d, k) <=> BlankAt(h, k)
    OBVIOUS
  <2>0. /\ k > 1 => k - 1 \in 1 .. Len(h) /\ k - 1 <= Len(d)
        /\ k > 2 => k - 2 \in 1 .. Len(h) /\ k - 2 <= Len(d)
    BY <1>1, <1>2
  <2>1. d[k] = h[k] /\ (k > 1 => d[k - 1] = h[k - 1]) /\ (k > 2 => d[k - 2] = h[k - 2])
    BY <2>0
  <2> QED BY <2>1 DEF BlankAt
<1> DEFINE e == r.body_start - 1
<1>4. e \in Nat /\ e >= 1 /\ e <= Len(d)
  BY <1>1
<1>5. ~(e < Len(h))
  <2> SUFFICES ASSUME e < Len(h) PROVE FALSE
    OBVIOUS
  <2>1. e \in 1 .. Len(h) /\ e # Len(h) /\ e <= Len(d)
    BY <1>2, <1>4
  <2> QED BY <1>1, <1>2, <1>3, <2>1
<1>6. ~(e > Len(h))
  <2> SUFFICES ASSUME e > Len(h) PROVE FALSE
    OBVIOUS
  <2>1. Len(h) \in 1 .. Len(h) /\ Len(h) <= Len(d) /\ Len(h) \in 1 .. r.body_start - 2
    BY <1>1, <1>2, <1>4
  <2>2. BlankAt(d, Len(h))
    BY <1>2, <1>3, <2>1
  <2> QED BY <1>1, <2>1, <2>2
<1> QED BY <1>1, <1>2, <1>4, <1>5, <1>6

-----------------------------------------------------------------------------
(* What the peer sends *)

\* The tokens of a chunked body.
Tokens == STRING \cup {"0", "1", "2", "LF", "CR"}
GoodChunks(chunks, eol) ==
  /\ eol \in {<<"LF">>, <<"CR", "LF">>}
  /\ chunks \in Seq(Seq(STRING)) /\ \A k \in 1 .. Len(chunks) : Len(chunks[k]) \in 1 .. 2
SizeToken(c) == IF Len(c) = 1 THEN "1" ELSE "2"

\* The solutions of a recursion over 1 .. n.
RecsOf(P, n, G, x) == {f \in [0 .. n -> P] : f[0] = x /\ \A i \in 1 .. n : f[i] = G[<<i, f[i - 1]>>]}

(* There is one.                                                            *)
LEMMA BoundedRec ==
  ASSUME NEW P, NEW n \in Nat, NEW x \in P, NEW G \in [(1 .. n) \X P -> P]
  PROVE  RecsOf(P, n, G, x) # {}
<1> DEFINE Q(j) == \E f \in [0 .. j -> P] : f[0] = x /\ \A i \in 1 .. j : f[i] = G[<<i, f[i - 1]>>]
           T == {j \in Nat : j <= n => Q(j)}
<1>1. 0 \in T
  <2> DEFINE f == [i \in 0 .. 0 |-> x]
  <2>1. f \in [0 .. 0 -> P] /\ f[0] = x /\ \A i \in 1 .. 0 : f[i] = G[<<i, f[i - 1]>>]
    OBVIOUS
  <2> HIDE DEF f
  <2>2. Q(0)
    BY ONLY <2>1
  <2> QED BY <2>2
<1>2. ASSUME NEW j \in Nat, j \in T PROVE j + 1 \in T
  <2> SUFFICES ASSUME j + 1 <= n PROVE Q(j + 1)
    OBVIOUS
  <2>1. PICK f \in [0 .. j -> P] : f[0] = x /\ \A i \in 1 .. j : f[i] = G[<<i, f[i - 1]>>]
    BY <1>2
  <2> DEFINE g == [i \in 0 .. j + 1 |-> IF i = j + 1 THEN G[<<j + 1, f[j]>>] ELSE f[i]]
  <2>2. G[<<j + 1, f[j]>>] \in P
    <3>1. j + 1 \in 1 .. n /\ f[j] \in P
      BY <2>1
    <3> QED BY <3>1
  <2>3. g \in [0 .. j + 1 -> P]
    BY <2>1, <2>2
  <2>4. g[0] = x
    BY <2>1
  <2>5. ASSUME NEW i \in 1 .. j + 1 PROVE g[i] = G[<<i, g[i - 1]>>]
    <3>1. CASE i = j + 1
      <4>1. g[i] = G[<<j + 1, f[j]>>] /\ i - 1 = j /\ g[j] = f[j]
        BY <3>1
      <4> QED BY <3>1, <4>1
    <3>2. CASE i # j + 1
      <4>1. i \in 1 .. j /\ g[i] = f[i] /\ g[i - 1] = f[i - 1]
        BY <3>2
      <4> QED BY <2>1, <4>1
    <3> QED BY <3>1, <3>2
  <2> HIDE DEF g
  <2> QED BY <2>3, <2>4, <2>5
<1> HIDE DEF T
<1>3. Nat \subseteq T
  BY <1>1, <1>2, Induct
<1>4. n \in T
  BY <1>3
<1>5. n <= n => Q(n)
  <2> HIDE DEF Q
  <2> QED BY <1>4 DEF T
<1>6. Q(n)
  <2> HIDE DEF Q
  <2> QED BY <1>5
<1> QED BY <1>6 DEF RecsOf

(* The concatenation of the chunks, chunk by chunk.                         *)
LEMMA FlatIs ==
  ASSUME NEW chunks \in Seq(Seq(STRING))
  PROVE  \E g \in [0 .. Len(chunks) -> Seq(STRING)] :
           /\ g[0] = <<>> /\ \A k \in 1 .. Len(chunks) : g[k] = g[k - 1] \o chunks[k]
           /\ FlattenSeq(chunks) = g[Len(chunks)]
<1> DEFINE n == Len(chunks)
           P == Seq(STRING)
<1>1. n \in Nat /\ \A k \in 1 .. n : chunks[k] \in P
  OBVIOUS
<1>2. CASE n = 0
  <2> DEFINE g == [k \in 0 .. 0 |-> <<>>]
  <2>1. chunks = <<>>
    BY <1>2
  <2>2. FlattenSeq(chunks) = <<>>
    BY <1>2, <2>1 DEF FlattenSeq
  <2>3. g \in [0 .. n -> P] /\ g[0] = <<>> /\ g[n] = <<>>
    BY <1>2
  <2>4. \A k \in 1 .. n : g[k] = g[k - 1] \o chunks[k]
    BY <1>2
  <2> HIDE DEF g
  <2> QED BY <2>2, <2>3, <2>4
<1>3. CASE n # 0
  <2> DEFINE Rec(f) == f = [i \in 1 .. n |-> IF i = 1 THEN chunks[i] ELSE f[i - 1] \o chunks[i]]
             flat == CHOOSE f : Rec(f)
             G == [p \in (1 .. n) \X P |-> p[2] \o chunks[p[1]]]
  <2>1. FlattenSeq(chunks) = flat[n]
    BY <1>3 DEF FlattenSeq
  <2>2. G \in [(1 .. n) \X P -> P]
    <3>1. ASSUME NEW p \in (1 .. n) \X P PROVE p[2] \o chunks[p[1]] \in P
      BY <1>1, ConcatProperties
    <3> QED BY <3>1
  <2>3. \A i \in 1 .. n, s \in P : G[<<i, s>>] = s \o chunks[i]
    OBVIOUS
  <2> HIDE DEF P, G
  <2>4. <<>> \in P
    BY DEF P
  <2>5. PICK h \in [0 .. n -> P] : h[0] = <<>> /\ \A i \in 1 .. n : h[i] = G[<<i, h[i - 1]>>]
    <3> DEFINE x == <<>>
    <3>1. n \in Nat /\ x \in P /\ G \in [(1 .. n) \X P -> P]
      BY <1>1, <2>2, <2>4
    <3> HIDE DEF n, x
    <3>2. RecsOf(P, n, G, x) # {}
      BY <3>1, BoundedRec
    <3> QED BY <3>2 DEF x, RecsOf
  <2>6. \A i \in 1 .. n : h[i] = h[i - 1] \o chunks[i]
    <3> SUFFICES ASSUME NEW i \in 1 .. n PROVE h[i] = h[i - 1] \o chunks[i]
      OBVIOUS
    <3>1. h[i - 1] \in P
      BY <1>1, <2>5
    <3> QED BY <2>3, <2>5, <3>1
  <2> DEFINE h1 == [i \in 1 .. n |-> h[i]]
  <2>7. Rec(h1)
    <3>1. ASSUME NEW i \in 1 .. n PROVE h1[i] = IF i = 1 THEN chunks[i] ELSE h1[i - 1] \o chunks[i]
      <4>1. CASE i = 1
        <5>0. 1 \in 1 .. n /\ 1 - 1 = 0
          BY <1>1, <4>1
        <5>1. h1[1] = <<>> \o chunks[1]
          BY <2>5, <2>6, <5>0
        <5>2. <<>> \o chunks[1] = chunks[1]
          BY <1>1, <4>1, ConcatEmptySeq DEF P
        <5> QED BY <4>1, <5>1, <5>2
      <4>2. CASE i # 1
        <5>1. i - 1 \in 1 .. n
          BY <1>1, <4>2
        <5> QED BY <2>6, <4>2, <5>1
      <4> QED BY <4>1, <4>2
    <3> QED BY <3>1
  <2>8. Rec(flat)
    BY <2>7
  <2> HIDE DEF flat, h1
  <2> DEFINE T == {i \in Nat : i <= n => (i = 0 \/ flat[i] = h[i])}
  <2>9. 0 \in T
    OBVIOUS
  <2>10. ASSUME NEW i \in Nat, i \in T PROVE i + 1 \in T
    <3> SUFFICES ASSUME i + 1 <= n PROVE flat[i + 1] = h[i + 1]
      OBVIOUS
    <3>1. i + 1 \in 1 .. n /\ (i + 1) - 1 = i
      BY <1>1
    <3>2. h[i + 1] = h[i] \o chunks[i + 1]
      BY <2>6, <3>1
    <3>3. CASE i = 0
      <4>1. flat[1] = chunks[1]
        BY <2>8, <3>1, <3>3
      <4>2. <<>> \o chunks[1] = chunks[1]
        BY <1>1, <3>1, <3>3, ConcatEmptySeq DEF P
      <4>3. h[1] = h[0] \o chunks[1]
        <5>1. 1 \in 1 .. n /\ 1 - 1 = 0
          BY <1>1, <3>1, <3>3
        <5>2. h[1] = h[1 - 1] \o chunks[1]
          BY ONLY <2>6, <5>1
        <5> QED BY <5>1, <5>2
      <4> QED BY <2>5, <3>3, <4>1, <4>2, <4>3
    <3>4. CASE i # 0
      <4>1. flat[i] = h[i]
        BY <2>10, <3>1, <3>4
      <4>0. i + 1 # 1
        BY <3>4
      <4>2. flat[i + 1] = flat[i] \o chunks[i + 1]
        <5>1. flat[i + 1] = flat[(i + 1) - 1] \o chunks[i + 1]
          BY ONLY <2>8, <3>1, <4>0
        <5> QED BY <3>1, <5>1
      <4> QED BY <3>2, <4>1, <4>2
    <3> QED BY <3>3, <3>4
  <2> HIDE DEF T
  <2>11. Nat \subseteq T
    BY <2>9, <2>10, Induct
  <2>12. flat[n] = h[n]
    BY <1>1, <1>3, <2>11 DEF T
  <2> QED BY <2>1, <2>5, <2>6, <2>12 DEF P
<1> QED BY <1>2, <1>3

(* The value of one digit.                                                  *)
LEMMA HexOne ==
  ASSUME NEW t \in {"0", "1", "2"}
  PROVE  HexValue(<<t>>) = HexDigit[t]
<1> DEFINE ds == <<t>>
           Rec(f) == f = [k \in 0 .. Len(ds) |->
                            IF k = 0 THEN 0
                            ELSE IF f[k - 1] < 0 THEN f[k - 1]
                            ELSE IF ds[k] \notin DOMAIN HexDigit THEN -1
                            ELSE IF f[k - 1] > HrSizeMax \div 16 THEN -2
                            ELSE f[k - 1] * 16 + HexDigit[ds[k]]]
           value == CHOOSE f : Rec(f)
           v == HexDigit[t]
           g == [k \in 0 .. 1 |-> IF k = 0 THEN 0 ELSE v]
<1>1. HexValue(<<t>>) = value[Len(ds)]
  BY DEF HexValue
<1>2. Len(ds) = 1 /\ ds[1] = t
  OBVIOUS
<1>3. t \in DOMAIN HexDigit /\ v \in Nat
  BY DEF HexDigit
<1>4. ~(0 > HrSizeMax \div 16) /\ ~(0 < 0) /\ 0 * 16 + v = v
  <2>1. HrSizeMax \in Nat
    BY HrAssumption
  <2> QED BY <1>3, <2>1
<1> HIDE DEF ds, v
<1>5. Rec(g)
  <2>1. ASSUME NEW k \in 0 .. 1
        PROVE  g[k] = IF k = 0 THEN 0
                      ELSE IF g[k - 1] < 0 THEN g[k - 1]
                      ELSE IF ds[k] \notin DOMAIN HexDigit THEN -1
                      ELSE IF g[k - 1] > HrSizeMax \div 16 THEN -2
                      ELSE g[k - 1] * 16 + HexDigit[ds[k]]
    <3>1. CASE k = 0
      BY <3>1
    <3>2. CASE k = 1
      <4>1. g[1] = v /\ g[0] = 0 /\ k - 1 = 0 /\ ds[k] = t /\ HexDigit[ds[k]] = v
        BY <1>2, <3>2 DEF v
      <4> QED BY <1>3, <1>4, <3>2, <4>1
    <3> QED BY <3>1, <3>2
  <2> HIDE DEF g
  <2>2. g = [k \in 0 .. 1 |-> g[k]]
    BY DEF g
  <2> QED BY <1>2, <2>1, <2>2
<1>6. Rec(value)
  BY <1>5
<1> HIDE DEF value
<1>7. value[0] = 0
  BY <1>2, <1>6
<1>8. value[1] = IF value[0] < 0 THEN value[0]
                 ELSE IF ds[1] \notin DOMAIN HexDigit THEN -1
                 ELSE IF value[0] > HrSizeMax \div 16 THEN -2
                 ELSE value[0] * 16 + HexDigit[ds[1]]
  BY <1>2, <1>6
<1> QED BY <1>1, <1>2, <1>3, <1>4, <1>7, <1>8 DEF v

\* A chunk on the wire behind position p of B: its size, its bytes, the line ends.
ChunkAt(B, p, eol, c) ==
  /\ p + 1 + Len(eol) + Len(c) + Len(eol) <= Len(B)
  /\ B[p + 1] = SizeToken(c)
  /\ \A j \in 1 .. Len(eol) : B[p + 1 + j] = eol[j]
  /\ \A j \in 1 .. Len(c) : B[p + 1 + Len(eol) + j] = c[j]
  /\ \A j \in 1 .. Len(eol) : B[p + 1 + Len(eol) + Len(c) + j] = eol[j]
\* Nothing but the last chunk's size line is behind p.
EndAt(B, p, eol) ==
  /\ p + 1 + Len(eol) = Len(B)
  /\ B[p + 1] = "0"
  /\ \A j \in 1 .. Len(eol) : B[p + 1 + j] = eol[j]
StartsWith(B, u) == Len(u) <= Len(B) /\ \A i \in 1 .. Len(u) : B[i] = u[i]
WithChunk(u, c, eol) == u \o SizeLine(Len(c)) \o eol \o c \o eol
Eolines == {<<"LF">>, <<"CR", "LF">>}

(* The line ends.                                                           *)
LEMMA EolIs ==
  ASSUME NEW eol \in Eolines
  PROVE  /\ eol \in Seq(Tokens) /\ Len(eol) \in 1 .. 2 /\ eol[Len(eol)] = "LF"
         /\ Len(eol) = 2 => eol[1] = "CR"
<1>1. CASE eol = <<"LF">>
  BY <1>1 DEF Tokens
<1>2. CASE eol = <<"CR", "LF">>
  BY <1>2 DEF Tokens
<1> QED BY <1>1, <1>2 DEF Eolines

\* w is u and then v.
Joins(w, u, v) ==
  /\ w \in Seq(Tokens) /\ Len(w) = Len(u) + Len(v) /\ Len(u) \in Nat /\ Len(v) \in Nat
  /\ \A i \in 1 .. Len(u) : w[i] = u[i]
  /\ \A j \in 1 .. Len(v) : w[Len(u) + j] = v[j]

(* The positions of a concatenation.                                        *)
LEMMA Joined ==
  ASSUME NEW u, NEW v, u \in Seq(Tokens), v \in Seq(Tokens), NEW w, w = u \o v
  PROVE  Joins(w, u, v)
<1>1. w \in Seq(Tokens) /\ Len(w) = Len(u) + Len(v) /\ Len(u) \in Nat /\ Len(v) \in Nat
  BY ConcatProperties
<1>2. \A i \in 1 .. Len(u) + Len(v) : w[i] = IF i <= Len(u) THEN u[i] ELSE v[i - Len(u)]
  BY ConcatProperties
<1>3. \A i \in 1 .. Len(u) : w[i] = u[i]
  BY <1>1, <1>2
<1>4. ASSUME NEW j \in 1 .. Len(v) PROVE w[Len(u) + j] = v[j]
  <2>1. Len(u) + j \in 1 .. Len(u) + Len(v) /\ ~(Len(u) + j <= Len(u)) /\ (Len(u) + j) - Len(u) = j
    BY <1>1
  <2> QED BY <1>2, <2>1
<1> QED BY <1>1, <1>3, <1>4 DEF Joins

(* A chunk behind what was sent.                                            *)
LEMMA ChunkSent ==
  ASSUME NEW u \in Seq(Tokens), NEW c \in Seq(STRING), Len(c) \in 1 .. 2, NEW eol \in Eolines,
         NEW v, v = WithChunk(u, c, eol)
  PROVE  /\ v \in Seq(Tokens) /\ StartsWith(v, u) /\ ChunkAt(v, Len(u), eol, c)
         /\ Len(v) = Len(u) + 1 + Len(eol) + Len(c) + Len(eol)
<1> DEFINE z == SizeLine(Len(c))
           v1 == u \o z
           v2 == v1 \o eol
           v3 == v2 \o c
           v4 == v3 \o eol
<1>0. v = v4
  BY DEF WithChunk
<1>1. z \in Seq(Tokens) /\ Len(z) = 1 /\ z[1] = SizeToken(c)
  BY DEF SizeLine, SizeToken, Tokens
<1>2. eol \in Seq(Tokens) /\ Len(eol) \in Nat
  BY EolIs
<1>3. c \in Seq(Tokens) /\ Len(c) \in Nat
  <2>1. \A j \in 1 .. Len(c) : c[j] \in Tokens
    BY DEF Tokens
  <2>2. c = [j \in 1 .. Len(c) |-> c[j]]
    OBVIOUS
  <2>3. c \in [1 .. Len(c) -> Tokens]
    BY <2>1, <2>2
  <2> QED BY <2>3
<1> HIDE DEF z
<1>4. /\ v1 \in Seq(Tokens) /\ Len(v1) = Len(u) + 1 /\ Len(u) \in Nat
      /\ (\A i \in 1 .. Len(u) : v1[i] = u[i]) /\ (\A j \in 1 .. 1 : v1[Len(u) + j] = z[j])
  <2>1. v1 = u \o z
    OBVIOUS
  <2> HIDE DEF v1
  <2>2. Joins(v1, u, z)
    BY <1>1, <2>1, Joined
  <2> QED BY <1>1, <2>2 DEF Joins
<1> HIDE DEF v1
<1>5. /\ v2 \in Seq(Tokens) /\ Len(v2) = Len(u) + 1 + Len(eol)
      /\ (\A i \in 1 .. Len(u) + 1 : v2[i] = v1[i]) /\ (\A j \in 1 .. Len(eol) : v2[Len(u) + 1 + j] = eol[j])
  <2>1. v2 = v1 \o eol
    OBVIOUS
  <2> HIDE DEF v2
  <2>2. Joins(v2, v1, eol)
    BY <1>2, <1>4, <2>1, Joined
  <2> QED BY <1>4, <2>2 DEF Joins
<1> HIDE DEF v2
<1>6. /\ v3 \in Seq(Tokens) /\ Len(v3) = Len(u) + 1 + Len(eol) + Len(c)
      /\ (\A i \in 1 .. Len(u) + 1 + Len(eol) : v3[i] = v2[i])
      /\ (\A j \in 1 .. Len(c) : v3[Len(u) + 1 + Len(eol) + j] = c[j])
  <2>1. v3 = v2 \o c
    OBVIOUS
  <2> HIDE DEF v3
  <2>2. Joins(v3, v2, c)
    BY <1>3, <1>5, <2>1, Joined
  <2> QED BY <1>5, <2>2 DEF Joins
<1> HIDE DEF v3
<1>7. /\ v4 \in Seq(Tokens) /\ Len(v4) = Len(u) + 1 + Len(eol) + Len(c) + Len(eol)
      /\ (\A i \in 1 .. Len(u) + 1 + Len(eol) + Len(c) : v4[i] = v3[i])
      /\ (\A j \in 1 .. Len(eol) : v4[Len(u) + 1 + Len(eol) + Len(c) + j] = eol[j])
  <2>1. v4 = v3 \o eol
    OBVIOUS
  <2> HIDE DEF v4
  <2>2. Joins(v4, v3, eol)
    BY <1>2, <1>6, <2>1, Joined
  <2> QED BY <1>6, <2>2 DEF Joins
<1> HIDE DEF v4
<1>8. \A i \in 1 .. Len(u) : v4[i] = u[i]
  <2> SUFFICES ASSUME NEW i \in 1 .. Len(u) PROVE v4[i] = u[i]
    OBVIOUS
  <2>1. i \in 1 .. Len(u) + 1 /\ i \in 1 .. Len(u) + 1 + Len(eol) /\ i \in 1 .. Len(u) + 1 + Len(eol) + Len(c)
    BY <1>2, <1>3, <1>4
  <2> QED BY <1>4, <1>5, <1>6, <1>7, <2>1
<1>9. v4[Len(u) + 1] = SizeToken(c)
  <2>1. /\ Len(u) + 1 \in 1 .. Len(u) + 1 /\ Len(u) + 1 \in 1 .. Len(u) + 1 + Len(eol)
        /\ Len(u) + 1 \in 1 .. Len(u) + 1 + Len(eol) + Len(c) /\ 1 \in 1 .. 1
    BY <1>2, <1>3, <1>4
  <2> QED BY <1>1, <1>4, <1>5, <1>6, <1>7, <2>1
<1>10. \A j \in 1 .. Len(eol) : v4[Len(u) + 1 + j] = eol[j]
  <2> SUFFICES ASSUME NEW j \in 1 .. Len(eol) PROVE v4[Len(u) + 1 + j] = eol[j]
    OBVIOUS
  <2>1. /\ Len(u) + 1 + j \in 1 .. Len(u) + 1 + Len(eol)
        /\ Len(u) + 1 + j \in 1 .. Len(u) + 1 + Len(eol) + Len(c)
    BY <1>2, <1>3, <1>4
  <2> QED BY <1>5, <1>6, <1>7, <2>1
<1>11. \A j \in 1 .. Len(c) : v4[Len(u) + 1 + Len(eol) + j] = c[j]
  <2> SUFFICES ASSUME NEW j \in 1 .. Len(c) PROVE v4[Len(u) + 1 + Len(eol) + j] = c[j]
    OBVIOUS
  <2>1. Len(u) + 1 + Len(eol) + j \in 1 .. Len(u) + 1 + Len(eol) + Len(c)
    BY <1>2, <1>3, <1>4
  <2> QED BY <1>6, <1>7, <2>1
<1>12. Len(u) <= Len(v4) /\ Len(u) + 1 + Len(eol) + Len(c) + Len(eol) <= Len(v4)
  BY <1>2, <1>3, <1>4, <1>7
<1> QED BY <1>0, <1>7, <1>8, <1>9, <1>10, <1>11, <1>12 DEF ChunkAt, StartsWith

(* A chunk stays where it is when more is sent.                             *)
LEMMA ChunkStays ==
  ASSUME NEW u \in Seq(Tokens), NEW v \in Seq(Tokens), StartsWith(v, u), NEW p \in Nat,
         NEW eol \in Eolines, NEW c \in Seq(STRING), ChunkAt(u, p, eol, c)
  PROVE  ChunkAt(v, p, eol, c)
<1>1. Len(u) \in Nat /\ Len(v) \in Nat /\ Len(eol) \in Nat /\ Len(c) \in Nat
  BY EolIs
<1>2. p + 1 + Len(eol) + Len(c) + Len(eol) <= Len(u) /\ Len(u) <= Len(v) /\ \A i \in 1 .. Len(u) : v[i] = u[i]
  BY DEF ChunkAt, StartsWith
<1>3. p + 1 \in 1 .. Len(u)
  BY <1>1, <1>2
<1>4. \A j \in 1 .. Len(eol) : p + 1 + j \in 1 .. Len(u) /\ p + 1 + Len(eol) + Len(c) + j \in 1 .. Len(u)
  BY <1>1, <1>2
<1>5. \A j \in 1 .. Len(c) : p + 1 + Len(eol) + j \in 1 .. Len(u)
  BY <1>1, <1>2
<1>6. p + 1 + Len(eol) + Len(c) + Len(eol) <= Len(v)
  BY <1>1, <1>2
<1> QED BY <1>2, <1>3, <1>4, <1>5, <1>6 DEF ChunkAt

(* What is sent, chunk by chunk.                                            *)
LEMMA WireIs ==
  ASSUME NEW chunks, NEW eol, GoodChunks(chunks, eol)
  PROVE  \E f \in [0 .. Len(chunks) -> Seq(Tokens)] :
           /\ f[0] = <<>> /\ \A k \in 1 .. Len(chunks) : f[k] = WithChunk(f[k - 1], chunks[k], eol)
           /\ Encoded(chunks, eol) = f[Len(chunks)] \o <<"0">> \o eol
<1> DEFINE n == Len(chunks)
           P == Seq(Tokens)
           G == [p \in (1 .. n) \X P |-> WithChunk(p[2], chunks[p[1]], eol)]
           Rec(f) == f = [k \in 0 .. n |-> IF k = 0 THEN <<>>
                                           ELSE f[k - 1] \o SizeLine(Len(chunks[k])) \o eol \o chunks[k] \o eol]
           sent == CHOOSE f : Rec(f)
           none == <<>>
<1>1. /\ n \in Nat /\ (\A k \in 1 .. n : chunks[k] \in Seq(STRING) /\ Len(chunks[k]) \in 1 .. 2)
      /\ eol \in Eolines
  BY DEF GoodChunks, Eolines
<1>2. Encoded(chunks, eol) = sent[n] \o <<"0">> \o eol
  BY DEF Encoded
<1>3. G \in [(1 .. n) \X P -> P]
  <2>1. ASSUME NEW p \in (1 .. n) \X P PROVE WithChunk(p[2], chunks[p[1]], eol) \in P
    <3>1. p[1] \in 1 .. n /\ p[2] \in P
      OBVIOUS
    <3>2. chunks[p[1]] \in Seq(STRING) /\ Len(chunks[p[1]]) \in 1 .. 2
      BY <1>1, <3>1
    <3> QED BY <1>1, <3>1, <3>2, ChunkSent
  <2> HIDE DEF P
  <2> QED BY <2>1
<1>4. \A k \in 1 .. n, u \in P : G[<<k, u>>] = WithChunk(u, chunks[k], eol)
  OBVIOUS
<1>5. none \in P
  OBVIOUS
<1> HIDE DEF P, G, none
<1>6. PICK f \in [0 .. n -> P] : f[0] = none /\ \A k \in 1 .. n : f[k] = G[<<k, f[k - 1]>>]
  <2>1. n \in Nat
    BY <1>1
  <2> HIDE DEF n
  <2>2. RecsOf(P, n, G, none) # {}
    BY <1>3, <1>5, <2>1, BoundedRec
  <2> QED BY <2>2 DEF RecsOf
<1>7. \A k \in 1 .. n : f[k] = WithChunk(f[k - 1], chunks[k], eol)
  <2> SUFFICES ASSUME NEW k \in 1 .. n PROVE f[k] = WithChunk(f[k - 1], chunks[k], eol)
    OBVIOUS
  <2>1. f[k - 1] \in P
    BY <1>1, <1>6
  <2> QED BY <1>4, <1>6, <2>1
<1>8. Rec(f)
  <2>1. ASSUME NEW k \in 0 .. n
        PROVE  f[k] = IF k = 0 THEN <<>>
                      ELSE f[k - 1] \o SizeLine(Len(chunks[k])) \o eol \o chunks[k] \o eol
    <3>1. CASE k = 0
      BY <1>6, <3>1 DEF none
    <3>2. CASE k # 0
      <4>1. k \in 1 .. n
        BY <1>1, <3>2
      <4>2. f[k] = WithChunk(f[k - 1], chunks[k], eol)
        BY <1>7, <4>1
      <4> QED BY <3>2, <4>2 DEF WithChunk
    <3> QED BY <3>1, <3>2
  <2> DEFINE a == [k \in 0 .. n |-> f[k]]
             b == [k \in 0 .. n |-> IF k = 0 THEN <<>>
                                    ELSE f[k - 1] \o SizeLine(Len(chunks[k])) \o eol \o chunks[k] \o eol]
  <2>2. f = a
    BY <1>6
  <2>3. a = b
    BY <2>1
  <2> QED BY <2>2, <2>3
<1>9. Rec(sent)
  BY <1>8
<1> HIDE DEF sent
<1> DEFINE T == {k \in Nat : k <= n => sent[k] = f[k]}
<1>10. 0 \in T
  <2>1. 0 \in 0 .. n
    BY <1>1
  <2>2. sent[0] = <<>>
    BY <1>9, <2>1
  <2> QED BY <1>6, <2>2 DEF none
<1>11. ASSUME NEW k \in Nat, k \in T PROVE k + 1 \in T
  <2> SUFFICES ASSUME k + 1 <= n PROVE sent[k + 1] = f[k + 1]
    OBVIOUS
  <2>1. k + 1 \in 1 .. n /\ (k + 1) - 1 = k /\ k + 1 # 0 /\ k + 1 \in 0 .. n /\ k <= n
    BY <1>1
  <2>2. sent[k] = f[k]
    BY <1>11, <2>1
  <2>3. sent[k + 1] = sent[(k + 1) - 1] \o SizeLine(Len(chunks[k + 1])) \o eol \o chunks[k + 1] \o eol
    BY ONLY <1>9, <2>1
  <2>4. f[k + 1] = WithChunk(f[(k + 1) - 1], chunks[k + 1], eol)
    BY <1>7, <2>1
  <2> QED BY <2>1, <2>2, <2>3, <2>4 DEF WithChunk
<1> HIDE DEF T
<1>12. Nat \subseteq T
  BY <1>10, <1>11, Induct
<1>13. sent[n] = f[n]
  BY <1>1, <1>12 DEF T
<1> QED BY <1>2, <1>6, <1>7, <1>13 DEF P, none

\* Where the chunks begin on the wire B.
OnWire(B, w, chunks, eol) ==
  /\ B \in Seq(Tokens) /\ w \in [0 .. Len(chunks) -> Nat] /\ w[0] = 0
  /\ \A k \in 1 .. Len(chunks) : /\ w[k] = w[k - 1] + 1 + Len(eol) + Len(chunks[k]) + Len(eol)
                                 /\ ChunkAt(B, w[k - 1], eol, chunks[k])
  /\ EndAt(B, w[Len(chunks)], eol)

(* The encoded body is laid out that way.                                   *)
LEMMA Layout ==
  ASSUME NEW chunks, NEW eol, GoodChunks(chunks, eol), NEW B, B = Encoded(chunks, eol)
  PROVE  \E w : OnWire(B, w, chunks, eol)
<1> DEFINE n == Len(chunks)
<1>1. /\ n \in Nat /\ (\A k \in 1 .. n : chunks[k] \in Seq(STRING) /\ Len(chunks[k]) \in 1 .. 2)
      /\ eol \in Eolines
  BY DEF GoodChunks, Eolines
<1>2. PICK f \in [0 .. n -> Seq(Tokens)] :
           /\ f[0] = <<>> /\ \A k \in 1 .. n : f[k] = WithChunk(f[k - 1], chunks[k], eol)
           /\ Encoded(chunks, eol) = f[n] \o <<"0">> \o eol
  BY WireIs
<1> HIDE DEF n
<1>3. \A k \in 0 .. n : f[k] \in Seq(Tokens) /\ Len(f[k]) \in Nat
  BY <1>2
<1>4. \A k \in 1 .. n : /\ StartsWith(f[k], f[k - 1]) /\ ChunkAt(f[k], Len(f[k - 1]), eol, chunks[k])
                        /\ Len(f[k]) = Len(f[k - 1]) + 1 + Len(eol) + Len(chunks[k]) + Len(eol)
  <2> SUFFICES ASSUME NEW k \in 1 .. n
               PROVE  /\ StartsWith(f[k], f[k - 1]) /\ ChunkAt(f[k], Len(f[k - 1]), eol, chunks[k])
                      /\ Len(f[k]) = Len(f[k - 1]) + 1 + Len(eol) + Len(chunks[k]) + Len(eol)
    OBVIOUS
  <2>1. k - 1 \in 0 .. n
    BY <1>1
  <2> DEFINE u == f[k - 1]
             c == chunks[k]
             v == f[k]
  <2>2. u \in Seq(Tokens) /\ c \in Seq(STRING) /\ Len(c) \in 1 .. 2 /\ v = WithChunk(u, c, eol) /\ eol \in Eolines
    BY <1>1, <1>2, <1>3, <2>1
  <2> HIDE DEF u, c, v
  <2>3. StartsWith(v, u) /\ ChunkAt(v, Len(u), eol, c) /\ Len(v) = Len(u) + 1 + Len(eol) + Len(c) + Len(eol)
    BY <2>2, ChunkSent
  <2> QED BY <2>3 DEF u, c, v
<1> DEFINE Placed(j) == \A k \in 1 .. j : ChunkAt(f[j], Len(f[k - 1]), eol, chunks[k])
           T == {j \in Nat : j <= n => Placed(j)}
<1>5. 0 \in T
  OBVIOUS
<1>6. ASSUME NEW j \in Nat, j \in T PROVE j + 1 \in T
  <2> SUFFICES ASSUME j + 1 <= n, NEW k \in 1 .. j + 1 PROVE ChunkAt(f[j + 1], Len(f[k - 1]), eol, chunks[k])
    OBVIOUS
  <2>1. j + 1 \in 1 .. n /\ (j + 1) - 1 = j /\ j \in 0 .. n /\ j + 1 \in 0 .. n /\ j <= n
    BY <1>1
  <2>2. CASE k = j + 1
    BY <1>4, <2>1, <2>2
  <2>3. CASE k # j + 1
    <3>1. k \in 1 .. j /\ k - 1 \in 0 .. n /\ k \in 1 .. n
      BY <1>1, <2>1, <2>3
    <3> DEFINE u == f[j]
               v == f[j + 1]
               p == Len(f[k - 1])
               c == chunks[k]
    <3>2. StartsWith(v, u)
      BY <1>4, <2>1
    <3>3. ChunkAt(u, p, eol, c)
      BY <1>6, <2>1, <3>1
    <3>4. u \in Seq(Tokens) /\ v \in Seq(Tokens) /\ p \in Nat /\ c \in Seq(STRING) /\ eol \in Eolines
      BY <1>1, <1>3, <2>1, <3>1
    <3> HIDE DEF u, v, p, c
    <3>5. ChunkAt(v, p, eol, c)
      BY <3>2, <3>3, <3>4, ChunkStays
    <3> QED BY <3>5 DEF v, p, c
  <2> QED BY <2>2, <2>3
<1> HIDE DEF T
<1>7. Nat \subseteq T
  BY <1>5, <1>6, Induct
<1>8. Placed(n)
  BY <1>1, <1>7 DEF T
<1> DEFINE z == <<"0">>
           u == f[n]
           v == u \o z
           y == v \o eol
<1>9. B = y
  BY <1>2
<1>10. u \in Seq(Tokens) /\ Len(u) \in Nat /\ z \in Seq(Tokens) /\ Len(z) = 1 /\ z[1] = "0"
       /\ eol \in Seq(Tokens) /\ Len(eol) \in Nat
  BY <1>1, <1>3, EolIs DEF Tokens
<1>11. Joins(v, u, z)
  <2>1. v = u \o z
    OBVIOUS
  <2> HIDE DEF u, z, v
  <2> QED BY <1>10, <2>1, Joined
<1>12. Joins(y, v, eol)
  <2>1. v \in Seq(Tokens)
    BY <1>11 DEF Joins
  <2>2. y = v \o eol
    OBVIOUS
  <2> HIDE DEF v, y
  <2> QED BY <1>10, <2>1, <2>2, Joined
<1> HIDE DEF y, v, u, z
<1>13. y \in Seq(Tokens) /\ Len(y) = Len(u) + 1 + Len(eol) /\ Len(v) = Len(u) + 1
  BY <1>10, <1>11, <1>12 DEF Joins
<1>14. EndAt(y, Len(u), eol)
  <2>1. Len(u) + 1 \in 1 .. Len(v) /\ 1 \in 1 .. Len(z)
    BY <1>10, <1>13
  <2>2. y[Len(u) + 1] = "0"
    BY <1>10, <1>11, <1>12, <2>1 DEF Joins
  <2>3. \A j \in 1 .. Len(eol) : y[Len(u) + 1 + j] = eol[j]
    BY <1>12, <1>13 DEF Joins
  <2> QED BY <1>13, <2>2, <2>3 DEF EndAt
<1>15. StartsWith(y, u)
  <2>1. \A i \in 1 .. Len(u) : i \in 1 .. Len(v)
    BY <1>10, <1>13
  <2>2. \A i \in 1 .. Len(u) : y[i] = u[i]
    BY <1>11, <1>12, <2>1 DEF Joins
  <2> QED BY <1>10, <1>13, <2>2 DEF StartsWith
<1> DEFINE w == [k \in 0 .. n |-> Len(f[k])]
<1>16. w \in [0 .. n -> Nat] /\ w[0] = 0 /\ w[n] = Len(u)
  BY <1>1, <1>2, <1>3 DEF u
<1>17. ASSUME NEW k \in 1 .. n
       PROVE  w[k] = w[k - 1] + 1 + Len(eol) + Len(chunks[k]) + Len(eol) /\ ChunkAt(y, w[k - 1], eol, chunks[k])
  <2>1. k \in 0 .. n /\ k - 1 \in 0 .. n
    BY <1>1
  <2>2. w[k] = Len(f[k]) /\ w[k - 1] = Len(f[k - 1])
    BY <2>1
  <2> DEFINE p == Len(f[k - 1])
             c == chunks[k]
  <2>3. ChunkAt(u, p, eol, c)
    BY <1>8 DEF u
  <2>4. p \in Nat /\ c \in Seq(STRING) /\ eol \in Eolines
    BY <1>1, <1>3, <2>1
  <2> HIDE DEF p, c, w
  <2>5. ChunkAt(y, p, eol, c)
    BY <1>10, <1>13, <1>15, <2>3, <2>4, ChunkStays
  <2> QED BY <1>4, <2>2, <2>5 DEF p, c
<1> HIDE DEF w
<1>18. OnWire(y, w, chunks, eol)
  BY <1>13, <1>14, <1>16, <1>17 DEF OnWire, n
<1> QED BY <1>9, <1>18

-----------------------------------------------------------------------------
(* The chunk decoder *)

\* u is the first position from i on of a token with (in) S, or the end of b.
FirstIn(b, i, S, u) ==
  /\ u \in i .. Len(b) + 1 /\ (u <= Len(b) => b[u] \in S)
  /\ \A k \in i .. u - 1 : b[k] \notin S
FirstNotIn(b, i, S, u) ==
  /\ u \in i .. Len(b) + 1 /\ (u <= Len(b) => b[u] \notin S)
  /\ \A k \in i .. u - 1 : b[k] \in S

(* Upto finds it.                                                           *)
LEMMA UptoIs ==
  ASSUME NEW b \in Seq(STRING), NEW i \in 1 .. Len(b) + 1, NEW S, NEW u, u = Upto(b, i, S)
  PROVE  FirstIn(b, i, S, u)
<1> DEFINE K == {k \in i .. Len(b) : b[k] \in S}
           x == CHOOSE k \in K : \A j \in K : k <= j
<1>1. Len(b) \in Nat /\ u = IF K = {} THEN Len(b) + 1 ELSE x
  BY DEF Upto
<1>2. K \subseteq Nat /\ \A k \in K : k \in i .. Len(b) /\ b[k] \in S
  OBVIOUS
<1>3. \A k \in i .. Len(b) : b[k] \in S => k \in K
  OBVIOUS
<1> HIDE DEF K
<1>4. CASE K = {}
  BY <1>1, <1>3, <1>4 DEF FirstIn
<1>5. CASE K # {}
  <2>1. \E k \in K : \A j \in K : k <= j
    BY <1>2, <1>5, FirstPosition
  <2>2. x \in K /\ \A j \in K : x <= j
    BY <2>1
  <2> HIDE DEF x
  <2>3. x \in i .. Len(b) /\ b[x] \in S /\ u = x
    BY <1>1, <1>2, <1>5, <2>2
  <2>4. ASSUME NEW k \in i .. x - 1 PROVE b[k] \notin S
    <3>1. k \in i .. Len(b) /\ ~(x <= k)
      BY <1>1, <2>3
    <3> QED BY <1>3, <2>2, <3>1
  <2>5. x \in i .. Len(b) + 1
    BY <1>1, <2>3
  <2> QED BY <2>3, <2>4, <2>5 DEF FirstIn
<1> QED BY <1>4, <1>5

(* So does Beyond.                                                          *)
LEMMA BeyondIs ==
  ASSUME NEW b \in Seq(STRING), NEW i \in 1 .. Len(b) + 1, NEW S, NEW u, u = Beyond(b, i, S)
  PROVE  FirstNotIn(b, i, S, u)
<1> DEFINE K == {k \in i .. Len(b) : b[k] \notin S}
           x == CHOOSE k \in K : \A j \in K : k <= j
<1>1. Len(b) \in Nat /\ u = IF K = {} THEN Len(b) + 1 ELSE x
  BY DEF Beyond
<1>2. K \subseteq Nat /\ \A k \in K : k \in i .. Len(b) /\ b[k] \notin S
  OBVIOUS
<1>3. \A k \in i .. Len(b) : b[k] \notin S => k \in K
  OBVIOUS
<1> HIDE DEF K
<1>4. CASE K = {}
  BY <1>1, <1>3, <1>4 DEF FirstNotIn
<1>5. CASE K # {}
  <2>1. \E k \in K : \A j \in K : k <= j
    BY <1>2, <1>5, FirstPosition
  <2>2. x \in K /\ \A j \in K : x <= j
    BY <2>1
  <2> HIDE DEF x
  <2>3. x \in i .. Len(b) /\ b[x] \notin S /\ u = x
    BY <1>1, <1>2, <1>5, <2>2
  <2>4. ASSUME NEW k \in i .. x - 1 PROVE b[k] \in S
    <3>1. k \in i .. Len(b) /\ ~(x <= k)
      BY <1>1, <2>3
    <3> QED BY <1>3, <2>2, <3>1
  <2>5. x \in i .. Len(b) + 1
    BY <1>1, <2>3
  <2> QED BY <2>3, <2>4, <2>5 DEF FirstNotIn
<1> QED BY <1>4, <1>5

(* A size is a number, or one of the two marks.                             *)
LEMMA HexIs ==
  ASSUME NEW ds \in Seq(STRING)
  PROVE  HexValue(ds) \in Int
<1> DEFINE n == Len(ds)
           Digit(k, v) == IF v < 0 THEN v
                          ELSE IF ds[k] \notin DOMAIN HexDigit THEN -1
                          ELSE IF v > HrSizeMax \div 16 THEN -2
                          ELSE v * 16 + HexDigit[ds[k]]
           G == [p \in (1 .. n) \X Int |-> Digit(p[1], p[2])]
           Rec(f) == f = [k \in 0 .. n |-> IF k = 0 THEN 0
                                           ELSE IF f[k - 1] < 0 THEN f[k - 1]
                                           ELSE IF ds[k] \notin DOMAIN HexDigit THEN -1
                                           ELSE IF f[k - 1] > HrSizeMax \div 16 THEN -2
                                           ELSE f[k - 1] * 16 + HexDigit[ds[k]]]
           value == CHOOSE f : Rec(f)
<1>1. HexValue(ds) = value[n]
  BY DEF HexValue
<1>2. n \in Nat
  OBVIOUS
<1>3. ASSUME NEW k \in 1 .. n, NEW v \in Int PROVE Digit(k, v) \in Int
  <2>1. \A x \in DOMAIN HexDigit : HexDigit[x] \in Int
    BY DEF HexDigit
  <2> DEFINE d == ds[k]
             h == HexDigit[d]
             bad == d \notin DOMAIN HexDigit
             over == v > HrSizeMax \div 16
  <2>2. ~bad => h \in Int
    BY <2>1
  <2>3. Digit(k, v) = IF v < 0 THEN v ELSE IF bad THEN -1 ELSE IF over THEN -2 ELSE v * 16 + h
    OBVIOUS
  <2> HIDE DEF d, h, bad, over, Digit
  <2>4. CASE v < 0 \/ bad \/ over
    BY <2>3, <2>4
  <2>5. CASE ~(v < 0 \/ bad \/ over)
    <3>1. v * 16 + h \in Int
      BY <2>2, <2>5
    <3> QED BY <2>3, <2>5, <3>1
  <2> QED BY <2>4, <2>5
<1> HIDE DEF Digit
<1>4. G \in [(1 .. n) \X Int -> Int] /\ \A k \in 1 .. n, v \in Int : G[<<k, v>>] = Digit(k, v)
  BY <1>3
<1> HIDE DEF G
<1>5. PICK f \in [0 .. n -> Int] : f[0] = 0 /\ \A k \in 1 .. n : f[k] = G[<<k, f[k - 1]>>]
  <2> DEFINE I == Int
             o == 0
  <2>1. n \in Nat /\ o \in I /\ G \in [(1 .. n) \X I -> I]
    BY <1>2, <1>4
  <2> HIDE DEF n, I, o
  <2>2. RecsOf(I, n, G, o) # {}
    BY ONLY <2>1, BoundedRec
  <2> QED BY <2>2 DEF RecsOf, I, o
<1>6. Rec(f)
  <2>1. ASSUME NEW k \in 0 .. n PROVE f[k] = IF k = 0 THEN 0 ELSE Digit(k, f[k - 1])
    <3>1. CASE k # 0
      <4>1. k \in 1 .. n /\ k - 1 \in 0 .. n
        BY <1>2, <3>1
      <4>2. f[k - 1] \in Int
        BY <1>5, <4>1
      <4> QED BY <1>4, <1>5, <3>1, <4>1, <4>2
    <3> QED BY <1>5, <3>1
  <2> DEFINE a == [k \in 0 .. n |-> f[k]]
             c == [k \in 0 .. n |-> IF k = 0 THEN 0 ELSE Digit(k, f[k - 1])]
  <2>2. f = a
    BY <1>5
  <2>3. a = c
    BY <2>1
  <2> QED BY <2>2, <2>3 DEF Digit
<1>7. Rec(value)
  BY <1>6
<1>8. \A k \in 0 .. n : value[k] = IF k = 0 THEN 0 ELSE Digit(k, value[k - 1])
  <2> HIDE DEF value
  <2>1. value = [k \in 0 .. n |-> IF k = 0 THEN 0 ELSE Digit(k, value[k - 1])]
    BY <1>7 DEF Digit
  <2> DEFINE e(k) == IF k = 0 THEN 0 ELSE Digit(k, value[k - 1])
  <2>2. value = [k \in 0 .. n |-> e(k)]
    BY ONLY <2>1
  <2> HIDE DEF e
  <2>3. \A k \in 0 .. n : value[k] = e(k)
    BY ONLY <2>2
  <2> QED BY ONLY <2>3 DEF e
<1> HIDE DEF value
<1> DEFINE T == {k \in Nat : k <= n => value[k] \in Int}
<1>9. 0 \in T
  <2>1. 0 \in 0 .. n
    BY <1>2
  <2>2. value[0] = 0
    BY <1>8, <2>1
  <2> QED BY <2>2
<1>10. ASSUME NEW k \in Nat, k \in T PROVE k + 1 \in T
  <2> SUFFICES ASSUME k + 1 <= n PROVE value[k + 1] \in Int
    OBVIOUS
  <2>1. k + 1 \in 0 .. n /\ k + 1 # 0 /\ (k + 1) - 1 = k /\ k <= n /\ k + 1 \in 1 .. n
    BY <1>2
  <2>2. value[k] \in Int
    BY <1>10, <2>1
  <2>3. value[k + 1] = Digit(k + 1, value[k])
    BY <1>8, <2>1
  <2> QED BY <1>3, <2>1, <2>2, <2>3
<1> HIDE DEF T
<1>11. Nat \subseteq T
  BY <1>9, <1>10, Induct
<1> QED BY <1>1, <1>2, <1>11 DEF T

\* The states of the decoder of b: it has not written more than it has read.
Decoders(b) == {s \in [body : {b}, at : 1 .. Len(b) + 1, out : Seq(STRING), verdict : {"more", "incomplete", "decode", "ok"}] :
                  Len(s.out) <= s.at - 1}
\* The bytes that end a size.
SizeStops == Eols \cup {";"}
(* Line ends do, digits do not.                                             *)
LEMMA StopsAre == Eols \subseteq SizeStops /\ \A t \in {"0", "1", "2"} : t \notin SizeStops
  BY Zenon DEF SizeStops, Eols

\* What the decoder sees at position at.
Sees(b, at, start, stop, size, nl) ==
  /\ start = Beyond(b, at, Eols) /\ stop = Upto(b, start, SizeStops)
  /\ size = HexValue(SubSeq(b, start, stop - 1)) /\ nl = Upto(b, stop, {"LF"})
\* Its ways on: it stops short, it is done, or it has a chunk with lf bytes of line end.
StopsShort(s, t) == \E v \in {"incomplete", "decode"} : t = [s EXCEPT !.verdict = v]
IsDone(s, t, start, size, nl) ==
  start <= Len(s.body) /\ nl <= Len(s.body) /\ size = 0 /\ t = [s EXCEPT !.verdict = "ok"]
HasChunk(s, t, start, size, nl, lf) ==
  /\ start <= Len(s.body) /\ nl <= Len(s.body) /\ size > 0 /\ nl + size + lf <= Len(s.body)
  /\ lf = 1 => s.body[nl + 1 + size] = "LF"
  /\ lf = 2 => s.body[nl + 1 + size] = "CR"
  /\ t = [s EXCEPT !.at = nl + 1 + size + lf, !.out = @ \o SubSeq(s.body, nl + 1, nl + size)]

(* What the decoder sees lies in the body.                                  *)
LEMMA SeesTyped ==
  ASSUME NEW b \in Seq(STRING), NEW at \in 1 .. Len(b) + 1, NEW start, NEW stop, NEW size, NEW nl,
         Sees(b, at, start, stop, size, nl)
  PROVE  /\ FirstNotIn(b, at, Eols, start) /\ FirstIn(b, start, SizeStops, stop) /\ FirstIn(b, stop, {"LF"}, nl)
         /\ Len(b) \in Nat /\ start \in at .. Len(b) + 1 /\ stop \in start .. Len(b) + 1 /\ nl \in stop .. Len(b) + 1
         /\ size \in Int
<1>0. Len(b) \in Nat
  OBVIOUS
<1>1. FirstNotIn(b, at, Eols, start) /\ start \in at .. Len(b) + 1
  <2>1. FirstNotIn(b, at, Eols, start)
    BY BeyondIs DEF Sees
  <2> QED BY <2>1 DEF FirstNotIn
<1>2. start \in 1 .. Len(b) + 1
  BY <1>0, <1>1
<1>3. FirstIn(b, start, SizeStops, stop) /\ stop \in start .. Len(b) + 1
  <2>1. FirstIn(b, start, SizeStops, stop)
    BY <1>2, UptoIs DEF Sees
  <2> QED BY <2>1 DEF FirstIn
<1>4. start \in Int /\ stop \in 1 .. Len(b) + 1
  <2>1. start \in Int /\ start >= 1
    BY <1>2
  <2>2. stop \in Int /\ stop >= start /\ stop <= Len(b) + 1
    BY <1>0, <1>3, <2>1
  <2> QED BY <1>0, <2>1, <2>2
<1>5. FirstIn(b, stop, {"LF"}, nl) /\ nl \in stop .. Len(b) + 1
  <2>1. FirstIn(b, stop, {"LF"}, nl)
    BY <1>4, UptoIs DEF Sees
  <2> QED BY <2>1 DEF FirstIn
<1>6. size \in Int
  <2>1. \A i \in start .. stop - 1 : b[i] \in STRING
    <3> SUFFICES ASSUME NEW i \in start .. stop - 1 PROVE b[i] \in STRING
      OBVIOUS
    <3>1. i \in 1 .. Len(b)
      BY <1>0, <1>2, <1>4
    <3> QED BY <3>1
  <2>2. start \in Int /\ stop - 1 \in Int
    BY <1>2, <1>4
  <2>3. SubSeq(b, start, stop - 1) \in Seq(STRING)
    BY <2>1, <2>2, SubSeqProperties
  <2> QED BY <2>3, HexIs DEF Sees
<1> QED BY <1>0, <1>1, <1>3, <1>5, <1>6

(* A turn of the decoder takes one of these ways.                           *)
LEMMA TurnWays ==
  ASSUME NEW b \in Seq(STRING), NEW s \in Decoders(b), s.verdict = "more", NEW start, NEW stop, NEW size, NEW nl,
         Sees(b, s.at, start, stop, size, nl), NEW t, t = ChunkTurn(s)
  PROVE  \/ StopsShort(s, t) \/ IsDone(s, t, start, size, nl) \/ \E lf \in 1 .. 2 : HasChunk(s, t, start, size, nl, lf)
<1>1. s.body = b /\ s.at \in 1 .. Len(b) + 1
  BY DEF Decoders
<1>2. /\ Len(b) \in Nat /\ start \in s.at .. Len(b) + 1 /\ stop \in start .. Len(b) + 1 /\ nl \in stop .. Len(b) + 1
      /\ size \in Int
  BY <1>1, SeesTyped
<1>3. start \in Nat /\ stop \in Nat /\ nl \in Nat
  BY <1>1, <1>2
<1> DEFINE after == nl + 1 + size
           left == Len(b) - after + 1
           Ended(how) == [s EXCEPT !.verdict = how]
           GoOn(k) == [s EXCEPT !.at = k, !.out = @ \o SubSeq(b, nl + 1, after - 1)]
<1>4. t = IF start > Len(b) THEN Ended("incomplete")
          ELSE IF stop = start \/ size < 0 THEN Ended("decode")
          ELSE IF nl > Len(b) THEN Ended("incomplete")
          ELSE IF size = 0 THEN Ended("ok")
          ELSE IF left < 0 THEN Ended("incomplete")
          ELSE IF left >= 2 /\ b[after] = "CR" /\ b[after + 1] = "LF" THEN GoOn(after + 2)
          ELSE IF left >= 1 /\ b[after] = "LF" THEN GoOn(after + 1)
          ELSE IF left = 0 \/ (left = 1 /\ b[after] = "CR") THEN Ended("incomplete")
          ELSE Ended("decode")
  BY <1>1, Zenon DEF ChunkTurn, Sees, SizeStops
<1>5. after - 1 = nl + size /\ after \in Int /\ left \in Int /\ left = Len(b) - nl - size
  BY <1>2, <1>3
<1>6. GoOn(after + 1) = [s EXCEPT !.at = nl + 1 + size + 1, !.out = @ \o SubSeq(b, nl + 1, nl + size)]
  BY <1>5
<1>7. GoOn(after + 2) = [s EXCEPT !.at = nl + 1 + size + 2, !.out = @ \o SubSeq(b, nl + 1, nl + size)]
  BY <1>5
<1>8. after = nl + 1 + size
  OBVIOUS
<1> HIDE DEF after, left, GoOn
<1> DEFINE long == left >= 2 /\ b[after] = "CR" /\ b[after + 1] = "LF"
           short == left >= 1 /\ b[after] = "LF"
<1>9. CASE start > Len(b) \/ stop = start \/ size < 0 \/ nl > Len(b)
  BY <1>4, <1>9 DEF StopsShort
<1>10. CASE ~(start > Len(b) \/ stop = start \/ size < 0 \/ nl > Len(b))
  <2>1. start <= Len(b) /\ nl <= Len(b) /\ size >= 0
    BY <1>2, <1>3, <1>10
  <2>2. CASE size = 0
    BY <1>1, <1>4, <1>10, <2>1, <2>2 DEF IsDone
  <2>3. CASE size # 0 /\ ~(left < 0) /\ long
    <3>1. t = GoOn(after + 2)
      BY <1>4, <1>10, <2>3
    <3>2. size > 0 /\ nl + size + 2 <= Len(b) /\ b[nl + 1 + size] = "CR"
      BY <1>2, <1>3, <1>5, <1>8, <2>1, <2>3
    <3>3. HasChunk(s, t, start, size, nl, 2)
      BY <1>1, <1>7, <2>1, <3>1, <3>2 DEF HasChunk
    <3> QED BY <3>3
  <2>4. CASE size # 0 /\ ~(left < 0) /\ ~long /\ short
    <3>1. t = GoOn(after + 1)
      BY <1>4, <1>10, <2>4
    <3>2. size > 0 /\ nl + size + 1 <= Len(b) /\ b[nl + 1 + size] = "LF"
      BY <1>2, <1>3, <1>5, <1>8, <2>1, <2>4
    <3>3. HasChunk(s, t, start, size, nl, 1)
      BY <1>1, <1>6, <2>1, <3>1, <3>2 DEF HasChunk
    <3> QED BY <3>3
  <2>5. CASE size # 0 /\ (left < 0 \/ (~long /\ ~short))
    <3>1. t \in {Ended("incomplete"), Ended("decode")}
      BY <1>4, <1>10, <2>5
    <3> QED BY <3>1 DEF StopsShort
  <2> QED BY <2>2, <2>3, <2>4, <2>5
<1> QED BY <1>9, <1>10

(* A turn leaves a decoder's state.                                         *)
LEMMA TurnDecodes ==
  ASSUME NEW b \in Seq(STRING), NEW s \in Decoders(b)
  PROVE  ChunkTurn(s) \in Decoders(b) /\ (s.verdict # "more" => ChunkTurn(s) = s)
<1> DEFINE t == ChunkTurn(s)
<1>1. /\ s.body = b /\ s.at \in 1 .. Len(b) + 1 /\ s.out \in Seq(STRING) /\ Len(s.out) <= s.at - 1
      /\ s = [body |-> b, at |-> s.at, out |-> s.out, verdict |-> s.verdict] /\ Len(b) \in Nat /\ Len(s.out) \in Nat
  BY DEF Decoders
<1>2. CASE s.verdict # "more"
  BY <1>2 DEF ChunkTurn
<1>3. CASE s.verdict = "more"
  <2> DEFINE start == Beyond(b, s.at, Eols)
             stop == Upto(b, start, SizeStops)
             size == HexValue(SubSeq(b, start, stop - 1))
             nl == Upto(b, stop, {"LF"})
  <2>1. Sees(b, s.at, start, stop, size, nl) /\ t = ChunkTurn(s)
    BY DEF Sees
  <2> HIDE DEF start, stop, size, nl, t
  <2>2. \/ StopsShort(s, t) \/ IsDone(s, t, start, size, nl) \/ \E lf \in 1 .. 2 : HasChunk(s, t, start, size, nl, lf)
    BY <1>3, <2>1, TurnWays
  <2>3. start \in s.at .. Len(b) + 1 /\ stop \in start .. Len(b) + 1 /\ nl \in stop .. Len(b) + 1 /\ size \in Int
    BY <1>1, <2>1, SeesTyped
  <2>4. CASE StopsShort(s, t) \/ IsDone(s, t, start, size, nl)
    <3>1. PICK v \in {"incomplete", "decode", "ok"} : t = [s EXCEPT !.verdict = v]
      BY <2>4 DEF StopsShort, IsDone
    <3>2. t = [body |-> b, at |-> s.at, out |-> s.out, verdict |-> v]
      BY <1>1, <3>1
    <3> QED BY <1>1, <1>3, <3>2 DEF Decoders, t
  <2>5. ASSUME NEW lf \in 1 .. 2, HasChunk(s, t, start, size, nl, lf) PROVE t \in Decoders(b)
    <3> DEFINE x == SubSeq(b, nl + 1, nl + size)
               y == s.out \o x
               k == nl + 1 + size + lf
    <3>1. size > 0 /\ nl + size + lf <= Len(b) /\ t = [s EXCEPT !.at = k, !.out = @ \o x]
      BY <1>1, <2>5 DEF HasChunk
    <3>2. nl \in Nat /\ nl >= s.at /\ s.at \in Nat /\ lf \in Nat
      BY <1>1, <2>3
    <3>3. x \in Seq(STRING) /\ Len(x) = size
      <4>1. \A i \in nl + 1 .. nl + size : b[i] \in STRING
        BY <1>1, <2>3, <3>1, <3>2
      <4>2. nl + 1 \in Int /\ nl + size \in Int
        BY <2>3, <3>2
      <4>3. x \in Seq(STRING) /\ Len(x) = IF nl + 1 <= nl + size THEN (nl + size) - (nl + 1) + 1 ELSE 0
        BY <4>1, <4>2, SubSeqProperties
      <4>4. nl + 1 <= nl + size /\ (nl + size) - (nl + 1) + 1 = size
        BY <2>3, <3>1, <3>2
      <4> HIDE DEF x
      <4> QED BY <4>3, <4>4
    <3>4. y \in Seq(STRING) /\ Len(y) = Len(s.out) + size
      BY <1>1, <3>3, ConcatProperties
    <3> HIDE DEF x
    <3>5. t = [s EXCEPT !.at = k, !.out = y]
      BY <3>1
    <3> HIDE DEF y
    <3>6. t = [body |-> b, at |-> k, out |-> y, verdict |-> s.verdict]
      BY <1>1, <3>5
    <3>7. k \in 1 .. Len(b) + 1 /\ Len(y) <= k - 1
      BY <1>1, <2>3, <3>1, <3>2, <3>4, SMTT(20)
    <3> HIDE DEF k
    <3> QED BY <1>3, <3>4, <3>6, <3>7 DEF Decoders
  <2> QED BY <1>3, <2>2, <2>4, <2>5 DEF t
<1> QED BY <1>2, <1>3

\* The chunks up to the k-th, one behind the other.
Appended(g, chunks) ==
  /\ g \in [0 .. Len(chunks) -> Seq(STRING)] /\ g[0] = <<>>
  /\ \A k \in 1 .. Len(chunks) : g[k] = g[k - 1] \o chunks[k]
\* The decoder stands before a chunk of the wire and has written the ones before it.
BeforeChunk(s, w, g, k) == s.at = w[k] + 1 /\ s.out = g[k]
OnTrack(s, w, g, n) ==
  /\ s.verdict = "more" => \E k \in 0 .. n : BeforeChunk(s, w, g, k)
  /\ s.verdict = "ok" => s.out = g[n]

\* Behind position p of B is a size line with the digit d.
SizeAt(B, p, eol, d) ==
  p + 1 + Len(eol) <= Len(B) /\ B[p + 1] = d /\ \A j \in 1 .. Len(eol) : B[p + 1 + j] = eol[j]

(* The size line in front of a chunk is read as what it is, if it is there. *)
LEMMA SizeSeen ==
  ASSUME NEW b \in Seq(STRING), NEW B \in Seq(Tokens), StartsWith(B, b), NEW eol \in Eolines,
         NEW p \in Nat, NEW d \in {"0", "1", "2"}, SizeAt(B, p, eol, d), p + 1 <= Len(b) + 1,
         NEW start, NEW stop, NEW size, NEW nl, Sees(b, p + 1, start, stop, size, nl),
         start <= Len(b), nl <= Len(b)
  PROVE  start = p + 1 /\ size = HexDigit[d] /\ nl = p + 1 + Len(eol)
<1>0. p + 1 + Len(eol) <= Len(B) /\ B[p + 1] = d /\ \A j \in 1 .. Len(eol) : B[p + 1 + j] = eol[j]
  BY DEF SizeAt
<1>1. /\ Len(b) \in Nat /\ Len(B) \in Nat /\ Len(b) <= Len(B) /\ \A i \in 1 .. Len(b) : b[i] = B[i]
  <2>1. Len(b) <= Len(B) /\ \A i \in 1 .. Len(b) : B[i] = b[i]
    BY DEF StartsWith
  <2> QED BY <2>1
<1>2. /\ eol \in Seq(Tokens) /\ Len(eol) \in 1 .. 2 /\ eol[Len(eol)] = "LF" /\ (Len(eol) = 2 => eol[1] = "CR")
  BY EolIs
<1>3. p + 1 \in 1 .. Len(b) + 1
  BY <1>1
<1>4. /\ FirstNotIn(b, p + 1, Eols, start) /\ FirstIn(b, start, SizeStops, stop) /\ FirstIn(b, stop, {"LF"}, nl)
      /\ start \in p + 1 .. Len(b) + 1 /\ stop \in start .. Len(b) + 1 /\ nl \in stop .. Len(b) + 1
  BY <1>3, SeesTyped
<1>5. start \in Nat /\ stop \in Nat /\ nl \in Nat /\ p + 1 \in 1 .. Len(b)
  BY <1>1, <1>4
<1>6. b[p + 1] = d /\ d \notin Eols /\ d \notin SizeStops
  BY <1>0, <1>1, <1>5, StopsAre DEF Eols
<1>7. start = p + 1
  <2> SUFFICES ASSUME start # p + 1 PROVE FALSE
    OBVIOUS
  <2>1. p + 1 \in p + 1 .. start - 1
    BY <1>4, <1>5
  <2> QED BY <1>4, <1>6, <2>1 DEF FirstNotIn
<1>8. stop # start
  BY <1>4, <1>6, <1>7 DEF FirstIn
<1>9. stop >= p + 2
  BY <1>4, <1>5, <1>7, <1>8
<1>10. p + 2 \in 1 .. Len(b) /\ b[p + 2] = eol[1]
  <2>1. p + 2 \in 1 .. Len(b)
    BY <1>1, <1>4, <1>5, <1>9
  <2>2. p + 1 + 1 = p + 2 /\ 1 \in 1 .. Len(eol)
    <3>1. p + 1 + 1 = p + 2
      OBVIOUS
    <3>2. 1 \in 1 .. Len(eol)
      BY ONLY <1>2
    <3> QED BY <3>1, <3>2
  <2>3. B[p + 1 + 1] = eol[1]
    BY <1>0, <2>2
  <2> QED BY <1>1, <2>1, <2>2, <2>3
<1>11. eol[1] \in Eols
  <2>1. CASE Len(eol) = 1
    BY <1>2, <2>1 DEF Eols
  <2>2. CASE Len(eol) = 2
    BY <1>2, <2>2 DEF Eols
  <2> QED BY <1>2, <2>1, <2>2
<1>12. stop = p + 2
  <2> SUFFICES ASSUME stop # p + 2 PROVE FALSE
    OBVIOUS
  <2>1. p + 2 \in start .. stop - 1
    BY <1>5, <1>7, <1>9
  <2>2. b[p + 2] \in SizeStops
    BY <1>10, <1>11, StopsAre
  <2> QED BY <1>4, <2>1, <2>2 DEF FirstIn
<1>13. size = HexDigit[d]
  <2>1. stop - 1 = p + 1
    BY <1>12
  <2>2. SubSeq(b, p + 1, p + 1) = <<d>>
    <3> DEFINE x == SubSeq(b, p + 1, p + 1)
               y == <<d>>
    <3>1. \A i \in p + 1 .. p + 1 : b[i] \in STRING
      BY <1>5
    <3>2. /\ x \in Seq(STRING) /\ Len(x) = IF p + 1 <= p + 1 THEN (p + 1) - (p + 1) + 1 ELSE 0
          /\ \A i \in 1 .. (p + 1) - (p + 1) + 1 : x[i] = b[p + 1 + i - 1]
      <4> DEFINE i0 == p + 1
      <4>1. i0 \in Int /\ \A i \in i0 .. i0 : b[i] \in STRING
        BY <3>1
      <4> HIDE DEF i0
      <4>2. LET z == SubSeq(b, i0, i0)
            IN /\ z \in Seq(STRING) /\ Len(z) = IF i0 <= i0 THEN i0 - i0 + 1 ELSE 0
               /\ \A i \in 1 .. i0 - i0 + 1 : z[i] = b[i0 + i - 1]
        BY ONLY <4>1, SubSeqProperties
      <4> QED BY ONLY <4>2 DEF i0
    <3>3. (p + 1) - (p + 1) + 1 = 1 /\ p + 1 <= p + 1 /\ p + 1 + 1 - 1 = p + 1 /\ 1 \in 1 .. 1
      OBVIOUS
    <3> HIDE DEF x
    <3>4. Len(x) = 1 /\ x[1] = d
      BY <1>6, <3>2, <3>3
    <3>5. x = <<x[1]>>
      BY <3>2, <3>4
    <3> QED BY <3>4, <3>5 DEF x
  <2>3. HexValue(<<d>>) = HexDigit[d]
    BY HexOne
  <2> QED BY <1>7, <2>1, <2>2, <2>3 DEF Sees
<1>14. nl = p + 1 + Len(eol)
  <2>1. b[nl] = "LF" /\ \A k \in stop .. nl - 1 : b[k] # "LF"
    BY <1>4 DEF FirstIn
  <2>2. CASE Len(eol) = 1
    <3>1. b[p + 2] = "LF"
      BY <1>2, <1>10, <2>2
    <3>2. ~(p + 2 \in stop .. nl - 1)
      BY <2>1, <3>1
    <3> QED BY <1>4, <1>5, <1>12, <2>2, <3>2
  <2>3. CASE Len(eol) = 2
    <3>1. b[p + 2] = "CR"
      BY <1>2, <1>10, <2>3
    <3>2. nl # p + 2
      BY <2>1, <3>1
    <3>3. nl >= p + 3 /\ p + 3 \in 1 .. Len(b)
      BY <1>1, <1>4, <1>5, <1>12, <3>2
    <3>4. b[p + 3] = "LF"
      <4>1. p + 1 + 2 = p + 3 /\ 2 \in 1 .. Len(eol)
        BY <2>3
      <4>2. B[p + 1 + 2] = eol[2]
        BY <1>0, <4>1
      <4> QED BY <1>1, <1>2, <2>3, <3>3, <4>1, <4>2
    <3>5. ~(p + 3 \in stop .. nl - 1)
      BY <2>1, <3>4
    <3> QED BY <1>5, <1>12, <2>3, <3>3, <3>5
  <2> QED BY <1>2, <2>2, <2>3
<1> QED BY <1>7, <1>13, <1>14


(* A turn of the decoder over a prefix of the wire.                         *)
LEMMA WireTurn ==
  ASSUME NEW chunks, NEW eol, GoodChunks(chunks, eol), NEW B, NEW w, OnWire(B, w, chunks, eol), NEW g, Appended(g, chunks),
         NEW b \in Seq(STRING), StartsWith(B, b), NEW s \in Decoders(b), s.verdict = "more",
         NEW k \in 0 .. Len(chunks), BeforeChunk(s, w, g, k)
  PROVE  OnTrack(ChunkTurn(s), w, g, Len(chunks))
<1> DEFINE n == Len(chunks)
           p == w[k]
           start == Beyond(b, s.at, Eols)
           stop == Upto(b, start, SizeStops)
           size == HexValue(SubSeq(b, start, stop - 1))
           nl == Upto(b, stop, {"LF"})
           t == ChunkTurn(s)
<1>0. n \in Nat /\ eol \in Eolines /\ Len(eol) \in 1 .. 2
  BY EolIs DEF GoodChunks, Eolines
<1>1. Sees(b, s.at, start, stop, size, nl) /\ t = ChunkTurn(s)
  BY DEF Sees
<1>2. /\ B \in Seq(Tokens) /\ p \in Nat /\ s.at = p + 1 /\ s.body = b /\ s.out = g[k] /\ Len(b) \in Nat
      /\ p + 1 <= Len(b) + 1 /\ Len(B) \in Nat /\ p + 1 \in 1 .. Len(b) + 1
  <2>1. s.at \in 1 .. Len(b) + 1 /\ s.body = b
    BY DEF Decoders
  <2>2. s.at = p + 1 /\ s.out = g[k]
    BY DEF BeforeChunk
  <2>3. w \in [0 .. n -> Nat] /\ B \in Seq(Tokens)
    BY DEF OnWire
  <2>4. p \in Nat
    BY <2>3
  <2> HIDE DEF p
  <2> QED BY <2>1, <2>2, <2>3, <2>4
<1> HIDE DEF p, start, stop, size, nl, t, n
<1>3. \/ StopsShort(s, t) \/ IsDone(s, t, start, size, nl) \/ \E lf \in 1 .. 2 : HasChunk(s, t, start, size, nl, lf)
  BY <1>1, TurnWays
<1>4. start \in p + 1 .. Len(b) + 1 /\ nl \in stop .. Len(b) + 1 /\ size \in Int
  BY <1>1, <1>2, SeesTyped
<1>5. CASE StopsShort(s, t)
  <2>1. t.verdict \in {"incomplete", "decode"}
    BY <1>5 DEF StopsShort, Decoders
  <2> QED BY <2>1 DEF OnTrack, t
<1>6. CASE k = n
  <2>1. EndAt(B, p, eol)
    BY <1>6 DEF OnWire, p, n
  <2>2. p + 1 + Len(eol) <= Len(B) /\ B[p + 1] = "0" /\ \A j \in 1 .. Len(eol) : B[p + 1 + j] = eol[j]
    BY <1>0, <1>2, <2>1 DEF EndAt
  <2>3. start <= Len(b) /\ nl <= Len(b) => size = HexDigit["0"]
    <3> SUFFICES ASSUME start <= Len(b), nl <= Len(b) PROVE size = HexDigit["0"]
      OBVIOUS
    <3>1. Sees(b, p + 1, start, stop, size, nl)
      BY <1>1, <1>2
    <3> DEFINE d == "0"
    <3>2. d \in {"0", "1", "2"} /\ SizeAt(B, p, eol, d)
      BY <2>2 DEF SizeAt
    <3> HIDE DEF d
    <3>3. size = HexDigit[d]
      BY <1>0, <1>2, <3>1, <3>2, SizeSeen
    <3> QED BY <3>3 DEF d
  <2>4. HexDigit["0"] = 0
    BY DEF HexDigit
  <2>5. CASE IsDone(s, t, start, size, nl)
    <3>1. t.verdict = "ok" /\ t.out = s.out
      BY <2>5 DEF IsDone, Decoders
    <3> QED BY <1>2, <1>6, <3>1 DEF OnTrack, t, n
  <2>6. ASSUME NEW lf \in 1 .. 2, HasChunk(s, t, start, size, nl, lf) PROVE FALSE
    <3>1. start <= Len(b) /\ nl <= Len(b) /\ size > 0
      BY <1>2, <2>6 DEF HasChunk
    <3> QED BY <2>3, <2>4, <3>1
  <2> QED BY <1>3, <1>5, <2>5, <2>6
<1>7. CASE k # n
  <2> DEFINE c == chunks[k + 1]
  <2>1. k + 1 \in 1 .. n /\ (k + 1) - 1 = k /\ k + 1 \in 0 .. n /\ k \in Nat
    BY <1>0, <1>7 DEF n
  <2>2. c \in Seq(STRING) /\ Len(c) \in 1 .. 2
    BY <2>1 DEF GoodChunks, n
  <2>3. ChunkAt(B, p, eol, c) /\ w[k + 1] = p + 1 + Len(eol) + Len(c) + Len(eol)
    <3>1. /\ w[k + 1] = w[(k + 1) - 1] + 1 + Len(eol) + Len(c) + Len(eol)
          /\ ChunkAt(B, w[(k + 1) - 1], eol, c)
      BY <2>1 DEF OnWire, n
    <3> QED BY <2>1, <3>1 DEF p
  <2>4. g[k + 1] = g[k] \o c
    <3>1. g[k + 1] = g[(k + 1) - 1] \o c
      BY <2>1 DEF Appended, n
    <3> QED BY <2>1, <3>1
  <2> HIDE DEF c
  <2> DEFINE d == SizeToken(c)
             z == Len(c)
             e == Len(eol)
  <2>5. z \in 1 .. 2 /\ e \in 1 .. 2
    BY <1>0, <2>2
  <2>6. d \in {"0", "1", "2"} /\ HexDigit[d] = z
    <3>1. CASE Len(c) = 1
      BY <3>1 DEF SizeToken, HexDigit
    <3>2. CASE Len(c) = 2
      BY <3>2 DEF SizeToken, HexDigit
    <3> QED BY <2>2, <3>1, <3>2
  <2>7. /\ p + 1 + e + z + e <= Len(B) /\ B[p + 1] = d
        /\ (\A j \in 1 .. e : B[p + 1 + j] = eol[j]) /\ (\A j \in 1 .. z : B[p + 1 + e + j] = c[j])
        /\ (\A j \in 1 .. e : B[p + 1 + e + z + j] = eol[j])
    BY <2>3 DEF ChunkAt
  <2> HIDE DEF d
  <2>8. start <= Len(b) /\ nl <= Len(b) => size = z /\ nl = p + 1 + e
    <3> SUFFICES ASSUME start <= Len(b), nl <= Len(b) PROVE size = z /\ nl = p + 1 + e
      OBVIOUS
    <3>1. Sees(b, p + 1, start, stop, size, nl)
      BY <1>1, <1>2
    <3>2. SizeAt(B, p, eol, d)
      BY <1>2, <2>5, <2>7 DEF SizeAt
    <3>3. size = HexDigit[d] /\ nl = p + 1 + Len(eol)
      BY <1>0, <1>2, <2>6, <3>1, <3>2, SizeSeen
    <3> QED BY <2>6, <3>3
  <2>9. CASE IsDone(s, t, start, size, nl)
    <3>1. start <= Len(b) /\ nl <= Len(b) /\ size = 0
      BY <1>2, <2>9 DEF IsDone
    <3> QED BY <2>5, <2>8, <3>1
  <2>10. ASSUME NEW lf \in 1 .. 2, HasChunk(s, t, start, size, nl, lf) PROVE OnTrack(t, w, g, n)
    <3> DEFINE x == SubSeq(b, nl + 1, nl + size)
    <3>1. start <= Len(b) /\ nl <= Len(b) /\ nl + size + lf <= Len(b)
      BY <1>2, <2>10 DEF HasChunk
    <3>2. size = z /\ nl = p + 1 + e
      BY <2>8, <3>1
    <3>3. \A i \in 1 .. Len(b) : b[i] = B[i]
      BY DEF StartsWith
    <3>4. lf = e
      <4> DEFINE a == nl + 1 + size
      <4>0. lf >= 1 /\ lf \in Nat /\ Len(b) \in Nat /\ p \in Nat
        BY <1>2
      <4>1. a \in 1 .. Len(b) /\ a = p + 1 + e + z + 1 /\ 1 \in 1 .. e
        <5> HIDE DEF e, z
        <5>1. nl \in Nat /\ size \in Nat /\ a = p + 1 + e + z + 1 /\ 1 \in 1 .. e
          BY ONLY <2>5, <3>2, <4>0
        <5> QED BY <3>1, <4>0, <5>1
      <4>2. b[a] = eol[1]
        BY <2>7, <3>3, <4>1
      <4>3. e = 1 => eol[1] = "LF"
        BY <1>0, EolIs
      <4>4. e = 2 => eol[1] = "CR"
        BY <1>0, EolIs
      <4>5. (lf = 1 => b[a] = "LF") /\ (lf = 2 => b[a] = "CR")
        BY <1>2, <2>10 DEF HasChunk
      <4> HIDE DEF a, e
      <4> QED BY <2>5, <4>2, <4>3, <4>4, <4>5
    <3>5. x = c
      <4>1. \A i \in nl + 1 .. nl + size : b[i] \in STRING
        BY <1>2, <2>5, <3>1, <3>2
      <4>2. nl + 1 \in Int /\ nl + size \in Int /\ nl + 1 <= nl + size /\ (nl + size) - (nl + 1) + 1 = z
        BY <1>2, <2>5, <3>2
      <4>3. /\ x \in Seq(STRING) /\ Len(x) = IF nl + 1 <= nl + size THEN (nl + size) - (nl + 1) + 1 ELSE 0
            /\ \A i \in 1 .. (nl + size) - (nl + 1) + 1 : x[i] = b[nl + 1 + i - 1]
        BY <4>1, <4>2, SubSeqProperties, SMTT(20)
      <4> HIDE DEF x
      <4>4. x \in Seq(STRING) /\ Len(x) = z /\ \A i \in 1 .. z : x[i] = b[nl + 1 + i - 1]
        BY <4>2, <4>3
      <4>5. ASSUME NEW i \in 1 .. z PROVE x[i] = c[i]
        <5>1. nl + 1 + i - 1 = p + 1 + e + i /\ p + 1 + e + i \in 1 .. Len(b)
          BY <1>2, <2>5, <3>1, <3>2
        <5>2. x[i] = b[p + 1 + e + i] /\ b[p + 1 + e + i] = B[p + 1 + e + i]
          BY <3>3, <4>4, <5>1
        <5> QED BY <2>7, <5>2
      <4>6. x \in Seq(STRING) /\ c \in Seq(STRING) /\ Len(x) = Len(c) /\ \A i \in 1 .. Len(x) : x[i] = c[i]
        BY <2>2, <4>4, <4>5
      <4> QED BY ONLY <4>6, SeqEqual
    <3>6. t = [s EXCEPT !.at = nl + 1 + size + lf, !.out = @ \o x]
      BY <1>2, <2>10 DEF HasChunk
    <3> HIDE DEF x
    <3>7. t.at = nl + 1 + size + lf /\ t.out = s.out \o c /\ t.verdict = "more"
      BY <3>5, <3>6 DEF Decoders
    <3>8. nl + 1 + size + lf = w[k + 1] + 1
      BY <1>2, <2>3, <2>5, <3>2, <3>4
    <3>9. BeforeChunk(t, w, g, k + 1)
      BY <1>2, <2>4, <3>7, <3>8 DEF BeforeChunk
    <3>10. \E i \in 0 .. n : BeforeChunk(t, w, g, i)
      BY <2>1, <3>9
    <3>11. t.verdict # "ok"
      BY <3>7
    <3> QED BY <3>10, <3>11 DEF OnTrack
  <2> QED BY <1>3, <1>5, <2>9, <2>10 DEF t, n
<1> QED BY <1>6, <1>7

DecodeRun(x, k) == After(ChunkTurn, x, k)
FreshDecoder(b) == [body |-> b, at |-> 1, out |-> <<>>, verdict |-> "more"]

(* The decoder, turn after turn.                                            *)
LEMMA DecodeLoop ==
  ASSUME NEW b \in Seq(STRING), NEW x \in Decoders(b)
  PROVE  /\ DecodeRun(x, 0) = x
         /\ \A k \in Nat : DecodeRun(x, k) \in Decoders(b) /\ DecodeRun(x, k + 1) = ChunkTurn(DecodeRun(x, k))
<1> DEFINE S == Decoders(b)
           F == [s \in S |-> ChunkTurn(s)]
           Run(g) == g = [k \in Nat |-> IF k = 0 THEN x ELSE ChunkTurn(g[k - 1])]
           run == CHOOSE g : Run(g)
<1>0. \A s \in S : ChunkTurn(s) \in S
  BY TurnDecodes
<1>a. x \in S
  OBVIOUS
<1> HIDE DEF S
<1>1. F \in [S -> S] /\ \A s \in S : F[s] = ChunkTurn(s)
  BY <1>0
<1> HIDE DEF F
<1>2. PICK g \in [Nat -> S] : g[0] = x /\ \A k \in Nat : g[k + 1] = F[g[k]]
  <2>1. RunsOf(S, F, x) # {}
    BY <1>a, <1>1, Iterate
  <2> QED BY <2>1 DEF RunsOf
<1>3. Run(g)
  <2>1. ASSUME NEW k \in Nat PROVE g[k] = IF k = 0 THEN x ELSE ChunkTurn(g[k - 1])
    <3>1. CASE k # 0
      <4>1. k - 1 \in Nat /\ (k - 1) + 1 = k
        BY <3>1
      <4>2. g[(k - 1) + 1] = F[g[k - 1]]
        BY <1>2, <4>1
      <4> QED BY <1>1, <1>2, <3>1, <4>1, <4>2
    <3> QED BY <1>2, <3>1
  <2> QED BY <2>1
<1>4. Run(run)
  BY <1>3
<1>5. \A k : DecodeRun(x, k) = run[k]
  BY DEF After, DecodeRun
<1> HIDE DEF run
<1>6. run[0] = x /\ \A k \in Nat : run[k + 1] = ChunkTurn(run[k])
  BY <1>4
<1> DEFINE T == {k \in Nat : run[k] \in S}
<1>7. 0 \in T /\ \A k \in Nat : k \in T => k + 1 \in T
  <2>1. 0 \in T
    BY <1>a, <1>6
  <2>2. ASSUME NEW k \in Nat, k \in T PROVE k + 1 \in T
    <3>1. run[k] \in S /\ run[k + 1] = ChunkTurn(run[k])
      BY <1>6, <2>2
    <3>2. run[k + 1] \in S /\ k + 1 \in Nat
      BY <1>0, <3>1
    <3> QED BY <3>2
  <2> QED BY <2>1, <2>2
<1> HIDE DEF T
<1>8. Nat \subseteq T
  BY <1>7, Induct
<1> QED BY <1>5, <1>6, <1>8 DEF T, S

(* It starts at the start.                                                  *)
LEMMA DecoderStarts ==
  ASSUME NEW b \in Seq(STRING)
  PROVE  FreshDecoder(b) \in Decoders(b)
<1>1. Len(b) \in Nat /\ <<>> \in Seq(STRING) /\ Len(<<>>) = 0
  OBVIOUS
<1>2. 1 \in 1 .. Len(b) + 1
  BY <1>1
<1> QED BY <1>1, <1>2 DEF FreshDecoder, Decoders

(* A decoded body is not longer than the body.                              *)
LEMMA DecodedFits ==
  ASSUME NEW b \in Seq(STRING)
  PROVE  LET o == http_decode_chunked_body(b)[2] IN o \in Seq(STRING) /\ Len(o) <= Len(b)
<1> DEFINE x == FreshDecoder(b)
           t == DecodeRun(x, Len(b) + 1)
<1>1. Len(b) \in Nat /\ Len(b) + 1 \in Nat /\ x \in Decoders(b)
  BY DecoderStarts
<1>2. t \in Decoders(b)
  BY <1>1, DecodeLoop
<1>3. http_decode_chunked_body(b) = <<t.verdict, IF t.verdict = "ok" THEN t.out ELSE <<>>>>
  BY DEF http_decode_chunked_body, DecodeRun, FreshDecoder
<1> HIDE DEF t
<1>4. t.out \in Seq(STRING) /\ Len(t.out) \in Nat /\ t.at \in 1 .. Len(b) + 1 /\ Len(t.out) <= t.at - 1
  BY <1>2 DEF Decoders
<1>5. Len(t.out) <= Len(b)
  BY <1>1, <1>4
<1>6. <<>> \in Seq(STRING) /\ Len(<<>>) <= Len(b)
  BY <1>1
<1>7. http_decode_chunked_body(b)[2] = IF t.verdict = "ok" THEN t.out ELSE <<>>
  BY ONLY <1>3
<1>8. CASE t.verdict = "ok"
  BY <1>4, <1>5, <1>7, <1>8
<1>9. CASE t.verdict # "ok"
  BY <1>6, <1>7, <1>9
<1> QED BY <1>8, <1>9

(* What is decoded of a prefix of the wire is all that was sent, or refused. *)
LEMMA DecodedWhole ==
  ASSUME NEW chunks, NEW eol, GoodChunks(chunks, eol), NEW b \in Seq(STRING), StartsWith(Encoded(chunks, eol), b),
         http_decode_chunked_body(b)[1] = "ok"
  PROVE  http_decode_chunked_body(b)[2] = FlattenSeq(chunks)
<1> DEFINE n == Len(chunks)
           B == Encoded(chunks, eol)
           x == FreshDecoder(b)
           R(k) == DecodeRun(x, k)
<1>1. PICK w : OnWire(B, w, chunks, eol)
  BY Layout
<1>2. chunks \in Seq(Seq(STRING)) /\ n \in Nat
  BY DEF GoodChunks
<1>3. PICK g \in [0 .. n -> Seq(STRING)] :
           /\ g[0] = <<>> /\ \A k \in 1 .. n : g[k] = g[k - 1] \o chunks[k]
           /\ FlattenSeq(chunks) = g[n]
  BY <1>2, FlatIs
<1>4. Appended(g, chunks)
  BY <1>3 DEF Appended
<1>5. x \in Decoders(b) /\ Len(b) \in Nat /\ Len(b) + 1 \in Nat
  BY DecoderStarts
<1>6. R(0) = x /\ \A k \in Nat : R(k) \in Decoders(b) /\ R(k + 1) = ChunkTurn(R(k))
  <2> HIDE DEF x
  <2> QED BY <1>5, DecodeLoop
<1>7. http_decode_chunked_body(b) = <<R(Len(b) + 1).verdict, IF R(Len(b) + 1).verdict = "ok" THEN R(Len(b) + 1).out ELSE <<>>>>
  BY DEF http_decode_chunked_body, DecodeRun, FreshDecoder
<1> HIDE DEF R
<1> DEFINE T == {k \in Nat : OnTrack(R(k), w, g, n)}
<1>8. 0 \in T
  <2>1. w[0] = 0
    BY <1>1 DEF OnWire
  <2>2. x.at = w[0] + 1 /\ x.out = g[0] /\ x.verdict = "more"
    BY <1>3, <2>1 DEF FreshDecoder
  <2>3. BeforeChunk(x, w, g, 0) /\ 0 \in 0 .. n
    BY <1>2, <2>2 DEF BeforeChunk
  <2>4. OnTrack(x, w, g, n)
    BY <2>2, <2>3 DEF OnTrack
  <2> QED BY <1>6, <2>4
<1>9. ASSUME NEW k \in Nat, k \in T PROVE k + 1 \in T
  <2> DEFINE s == R(k)
  <2>1. s \in Decoders(b) /\ R(k + 1) = ChunkTurn(s) /\ OnTrack(s, w, g, n) /\ k + 1 \in Nat
    BY <1>6, <1>9
  <2> HIDE DEF s
  <2>2. CASE s.verdict # "more"
    <3>1. ChunkTurn(s) = s
      BY <2>1, <2>2, TurnDecodes
    <3> QED BY <2>1, <3>1
  <2>3. CASE s.verdict = "more"
    <3>1. PICK i \in 0 .. n : BeforeChunk(s, w, g, i)
      BY <2>1, <2>3 DEF OnTrack
    <3> HIDE DEF B
    <3>2. StartsWith(B, b)
      BY DEF B
    <3>3. OnTrack(ChunkTurn(s), w, g, n)
      BY <1>1, <1>4, <2>1, <2>3, <3>1, <3>2, WireTurn
    <3> QED BY <2>1, <3>3
  <2> QED BY <2>2, <2>3
<1> HIDE DEF T
<1>10. Nat \subseteq T
  BY <1>8, <1>9, Induct
<1> DEFINE t == R(Len(b) + 1)
<1>11. OnTrack(t, w, g, n)
  BY <1>5, <1>10 DEF T
<1> HIDE DEF t
<1>12. http_decode_chunked_body(b) = <<t.verdict, IF t.verdict = "ok" THEN t.out ELSE <<>>>>
  BY <1>7 DEF t
<1>13. t.verdict = "ok"
  BY <1>12
<1>14. http_decode_chunked_body(b)[2] = t.out
  BY <1>12, <1>13
<1> QED BY <1>3, <1>11, <1>13, <1>14 DEF OnTrack

-----------------------------------------------------------------------------
(* The body of an exchange *)

(* A head that announces a length announces no more than the limit.         *)
LEMMA ParsedLength ==
  ASSUME NEW r \in Readers, r.fail = "none", ~r.head_done, NEW h, NEW limits \in AllLimits,
         NEW head_only \in BOOLEAN, NEW p, p = http_reader_parse_head(r, h, limits, head_only)
  PROVE  p.head_done /\ p.framing = "length" => p.content_length <= limits.body
<1> DEFINE st == h[1]
           s == [r EXCEPT !.status = st]
           te == SelectSeq(h, LAMBDA x : x \in {"te", "tebad"})
           cl == http_content_length(h)
           ce == "ce" \in Range(h)
           t1 == te # <<>> /\ te[1] = "te"
           t2 == te # <<>> \/ cl[1] = "invalid"
           n == cl[2]
           f == IF cl[1] = "valid" THEN "length" ELSE "close"
           a == [s EXCEPT !.framing = f, !.content_length = n, !.head_done = TRUE]
           over == n > limits.body
<1>1. p = IF st \notin Statuses \ {"sbad"} THEN Failed(r, "decode")
          ELSE IF st \in {"s404", "s204"} \/ head_only THEN [s EXCEPT !.framing = "none", !.head_done = TRUE]
          ELSE IF ce THEN Failed(s, "decode")
          ELSE IF t1 THEN [s EXCEPT !.framing = "chunked", !.head_done = TRUE]
          ELSE IF t2 THEN Failed(s, "decode")
          ELSE IF over THEN Failed(s, "body_limit")
          ELSE a
  BY DEF http_reader_parse_head
<1>2. n \in Nat
  <2>1. CASE Lengths(h) = {} \/ Cardinality(Lengths(h)) > 1 \/ "clbad" \in Lengths(h)
    BY <2>1 DEF http_content_length
  <2>2. CASE ~(Lengths(h) = {} \/ Cardinality(Lengths(h)) > 1 \/ "clbad" \in Lengths(h))
    <3> DEFINE x == CHOOSE y \in Lengths(h) : TRUE
    <3>1. x \in Lengths(h)
      BY <2>2
    <3> HIDE DEF x
    <3>2. x \in {"cl0", "cl1", "cl2"}
      BY <2>2, <3>1 DEF Lengths
    <3>3. LengthOf[x] \in Nat
      BY <3>2 DEF LengthOf
    <3>4. cl[2] = LengthOf[x]
      BY <2>2 DEF http_content_length, x
    <3> QED BY <3>3, <3>4
  <2> QED BY <2>1, <2>2
<1>3. limits.body \in Nat
  BY DEF AllLimits
<1>4. /\ s.framing = r.framing /\ ~s.head_done /\ a.content_length = n
      /\ ~Failed(r, "decode").head_done /\ ~Failed(s, "decode").head_done /\ ~Failed(s, "body_limit").head_done
      /\ [s EXCEPT !.framing = "none", !.head_done = TRUE].framing = "none"
      /\ [s EXCEPT !.framing = "chunked", !.head_done = TRUE].framing = "chunked"
  <2> HIDE DEF st, te, cl, ce, t1, t2, f, n, over
  <2>1. DOMAIN s = DOMAIN r /\ s.framing = r.framing /\ ~s.head_done
    BY DEF Readers
  <2> QED BY <2>1 DEF Readers, Failed
<1> HIDE DEF st, s, te, cl, ce, t1, t2, f, a, n
<1>5. CASE p = a /\ ~over
  BY <1>2, <1>3, <1>4, <1>5
<1>6. CASE p # a \/ over
  BY <1>1, <1>4, <1>6
<1> QED BY <1>5, <1>6

(* The head that all the bytes have.                                        *)
LEMMA HeadOfAllIs ==
  ASSUME NEW d \in Seq(STRING), NEW limits \in AllLimits, NEW head_only \in BOOLEAN,
         NEW A, A = HeadOfAll(d, limits, head_only)
  PROVE  /\ A \in Readers
         /\ A.head_done => /\ A.framing = "length" => A.content_length <= limits.body
                           /\ \E r \in Chain(d) : r.body_start # 0 /\ r.body_start = A.body_start
<1> DEFINE a == ScanHead(FreshReader, d)
           h == SubSeq(d, 1, a.scan - 1)
           q == http_reader_parse_head(a, h, limits, head_only)
<1>1. A = IF (IF a.body_start > 0 THEN a.body_start - 1 ELSE Len(d)) > limits.header THEN Failed(a, "header_limit")
          ELSE IF ~(a.body_start > 0) THEN a ELSE q
  BY DEF ReadHead, HeadOfAll, FreshReader
<1>2. a \in Readers /\ a.fail = "none" /\ ~a.head_done /\ a \in Chain(d)
  <2>1. Within(FreshReader, d) /\ FreshReader.fail = "none" /\ ~FreshReader.head_done
    BY FreshWithin DEF FreshReader
  <2>2. a = ScanHead(FreshReader, d)
    OBVIOUS
  <2> HIDE DEF a
  <2>3. a = ReadRun(FreshReader, d, Len(d)) /\ Within(a, d) /\ a.head_done = FreshReader.head_done /\ a.fail = FreshReader.fail
    BY <2>1, <2>2, ScanEnds
  <2>4. Len(d) \in Nat
    OBVIOUS
  <2> QED BY <2>1, <2>3, <2>4 DEF Within, Chain
<1> HIDE DEF a, h
<1>3. q \in Readers /\ q.body_start = a.body_start /\ (q.head_done /\ q.framing = "length" => q.content_length <= limits.body)
  <2>1. q = http_reader_parse_head(a, h, limits, head_only)
    OBVIOUS
  <2> HIDE DEF q
  <2> QED BY <1>2, <2>1, ParsedHead, ParsedLength DEF AllLimits
<1>4. Failed(a, "header_limit") \in Readers /\ ~Failed(a, "header_limit").head_done
  BY <1>2 DEF Failed, Readers, Fails
<1> HIDE DEF q
<1>5. A = Failed(a, "header_limit") \/ A = a \/ (A = q /\ a.body_start > 0)
  BY <1>1
<1>6. a.body_start \in Nat
  BY <1>2 DEF Readers
<1>7. CASE A = q /\ a.body_start > 0
  <2>1. a.body_start # 0
    BY <1>6, <1>7
  <2> QED BY <1>2, <1>3, <1>7, <2>1
<1> QED BY <1>2, <1>4, <1>5, <1>7

(* When a read of len bytes with a head stops.                              *)
LEMMA FramedCases ==
  ASSUME NEW m \in Nat, NEW q, HeadReader(q, m), NEW limits \in AllLimits, NEW got, got = m - q.body_start + 1
  PROVE  \/ Framed(q, m, limits) = <<q, TRUE>> /\ (q.framing = "none" \/ (q.framing = "length" /\ got >= q.content_length))
         \/ Framed(q, m, limits) = <<Failed(q, "body_limit"), TRUE>>
         \/ /\ Framed(q, m, limits) = <<q, FALSE>> /\ q.framing # "none"
            /\ q.framing = "length" => got < q.content_length
            /\ q.framing # "length" => got <= limits.body
<1>1. q \in Readers /\ q.fail = "none" /\ q.head_done
  BY DEF HeadReader
<1>2. Framed(q, m, limits) =
        IF q.framing = "none" \/ (q.framing = "length" /\ got >= q.content_length) THEN <<q, TRUE>>
        ELSE IF q.framing # "length" /\ got > limits.body THEN <<Failed(q, "body_limit"), TRUE>>
        ELSE <<q, FALSE>>
  BY <1>1 DEF Framed
<1>3. got \in Int /\ q.content_length \in Nat /\ limits.body \in Nat
  BY <1>1 DEF Readers, AllLimits
<1> DEFINE F == Framed(q, m, limits)
           b == Failed(q, "body_limit")
           c == q.content_length
           x == q.framing
<1>4. /\ F = IF x = "none" \/ (x = "length" /\ got >= c) THEN <<q, TRUE>>
             ELSE IF x # "length" /\ got > limits.body THEN <<b, TRUE>> ELSE <<q, FALSE>>
      /\ got \in Int /\ c \in Nat /\ limits.body \in Nat
  BY <1>2, <1>3
<1> HIDE DEF F, b, c, x
<1>5. CASE x = "none" \/ (x = "length" /\ got >= c)
  <2>1. F = <<q, TRUE>>
    BY <1>4, <1>5
  <2> QED BY <1>5, <2>1 DEF F, c, x
<1>6. CASE ~(x = "none" \/ (x = "length" /\ got >= c)) /\ x # "length" /\ got > limits.body
  <2>1. F = <<b, TRUE>>
    BY <1>4, <1>6
  <2> QED BY <2>1 DEF F, b
<1>7. CASE ~(x = "none" \/ (x = "length" /\ got >= c)) /\ ~(x # "length" /\ got > limits.body)
  <2>1. F = <<q, FALSE>>
    BY <1>4, <1>7
  <2>2. x # "none" /\ (x = "length" => got < c) /\ (x # "length" => got <= limits.body)
    BY <1>4, <1>7
  <2> QED BY <2>1, <2>2 DEF F, c, x
<1> QED BY <1>5, <1>6, <1>7

\* A read that has stopped: its outcome is that of its reader, and a reader without a
\* failure has read a head and a body that its framing lets pass.
Passed ==
  LET r   == hr.reader
      got == hr.len - r.body_start + 1
  IN /\ r = HeadOfAll(Bytes, hr.limits, hr.head_only) /\ HeadReader(r, hr.len)
     /\ r.framing = "length" => got >= r.content_length
     /\ r.framing = "close" => ~hr.unclean
     /\ r.framing \in {"chunked", "close"} => got <= hr.limits.body
Delivered == hr.stopped =>
  /\ hr.result = http_response_result(hr.reader, SubSeq(Bytes, 1, hr.len))
  /\ hr.reader.fail \in Fails /\ (hr.reader.fail = "none" => Passed)

(* A piece that ends the read.                                              *)
LEMMA PieceDelivers == ASSUME HrInv, NEW n \in 1 .. Len(Bytes), recv(n) PROVE Delivered'
<1>1. Bytes \in Seq(STRING) /\ hr.limits \in AllLimits /\ hr.head_only \in BOOLEAN /\ Len(Bytes) \in Nat
  BY HrAssumption DEF Bytes, AllLimits, HrInv, HrTyped
<1>a. PICK m \in 0 .. Len(Bytes) : \E q : HeadAt(q, m) /\ PieceStep(q, m)
  BY Received
<1>2. PICK q : HeadAt(q, m) /\ PieceStep(q, m)
  BY <1>a
<1> DEFINE f == Framed(q, m, hr.limits)
           All == HeadOfAll(Bytes, hr.limits, hr.head_only)
<1>3. /\ hr'.plan = hr.plan /\ hr'.limits = hr.limits /\ hr'.head_only = hr.head_only /\ hr'.unclean = hr.unclean
      /\ hr'.len = m /\ hr'.reader = f[1] /\ hr'.stopped = f[2]
      /\ (f[2] => hr'.result = http_response_result(f[1], SubSeq(Bytes, 1, m)))
  BY <1>2 DEF PieceStep
<1>4. Bytes' = Bytes /\ m \in Nat
  BY <1>1, <1>3 DEF Bytes
<1> SUFFICES ASSUME f[2]
             PROVE  /\ hr'.result = http_response_result(hr'.reader, SubSeq(Bytes, 1, hr'.len))
                    /\ hr'.reader.fail \in Fails /\ (hr'.reader.fail = "none" => Passed')
  <2> HIDE DEF f
  <2> QED BY <1>3, <1>4 DEF Delivered
<1>5. hr'.result = http_response_result(hr'.reader, SubSeq(Bytes, 1, hr'.len))
  <2> HIDE DEF f
  <2> QED BY <1>3
<1>6. CASE HeadOpen(Bytes, m, hr.limits, q)
  <2>1. f = <<q, FALSE>>
    BY <1>6 DEF Framed, HeadOpen
  <2> HIDE DEF f
  <2> QED BY <2>1
<1>7. CASE q = All /\ HeadReader(q, m)
  <2> DEFINE got == m - q.body_start + 1
  <2>1. \/ f = <<q, TRUE>> /\ (q.framing = "none" \/ (q.framing = "length" /\ got >= q.content_length))
        \/ f = <<Failed(q, "body_limit"), TRUE>>
        \/ f = <<q, FALSE>>
    BY <1>1, <1>4, <1>7, FramedCases
  <2>2. q \in Readers /\ q.fail = "none"
    BY <1>7 DEF HeadReader
  <2> HIDE DEF f
  <2>3. CASE f = <<q, TRUE>> /\ (q.framing = "none" \/ (q.framing = "length" /\ got >= q.content_length))
    <3>1. hr'.reader = q
      BY <1>3, <2>3
    <3>2. Passed'
      BY <1>3, <1>4, <1>7, <2>3, <3>1 DEF Passed, All
    <3>3. hr'.reader.fail \in Fails
      BY <2>2, <3>1 DEF Fails
    <3> QED BY <1>5, <3>2, <3>3
  <2>4. CASE f = <<Failed(q, "body_limit"), TRUE>>
    <3>1. hr'.reader = Failed(q, "body_limit")
      BY <1>3, <2>4
    <3>2. hr'.reader.fail = "body_limit"
      BY <2>2, <3>1 DEF Failed, Readers
    <3> QED BY <1>5, <3>2 DEF Fails
  <2>5. f # <<q, FALSE>>
    <3>1. f = <<q, FALSE>> => f[2] = FALSE
      OBVIOUS
    <3>2. f[2]
      OBVIOUS
    <3> QED BY ONLY <3>1, <3>2
  <2> QED BY ONLY <2>1, <2>3, <2>4, <2>5
<1>8. CASE q.fail # "none" /\ All.fail = q.fail
  <2>1. f = <<q, TRUE>>
    BY <1>8, FailedOutcome
  <2>2. All \in Readers
    BY <1>1, HeadOfAllIs
  <2> HIDE DEF f
  <2>3. hr'.reader = q
    BY <1>3, <2>1
  <2>4. q.fail \in Fails
    <3> HIDE DEF All
    <3> QED BY <1>8, <2>2 DEF Readers
  <2> QED BY <1>5, <1>8, <2>3, <2>4
<1> QED BY <1>2, <1>6, <1>7, <1>8 DEF HeadAt

(* The end of the stream.                                                   *)
LEMMA EndDelivers == ASSUME HrInv, eof PROVE Delivered'
<1> DEFINE q == http_reader_eof(hr.reader, hr.len, hr.unclean)
           r == hr.reader
<1>1. Bytes \in Seq(STRING) /\ hr.limits \in AllLimits /\ hr.unclean \in BOOLEAN
  BY HrAssumption DEF Bytes, AllLimits, HrInv, HrTyped
<1>2. ~hr.stopped /\ hr.len = Len(Bytes) /\ Len(Bytes) \in Nat /\ SubSeq(Bytes, 1, Len(Bytes)) = Bytes
  BY <1>1, SubSeqFull DEF eof, Bytes
<1>3. hr' = [hr EXCEPT !.reader = q, !.stopped = TRUE, !.result = http_response_result(q, SubSeq(Bytes, 1, hr.len))]
  BY DEF eof, Data, Bytes
<1>4. /\ hr'.plan = hr.plan /\ hr'.limits = hr.limits /\ hr'.head_only = hr.head_only /\ hr'.unclean = hr.unclean
      /\ hr'.len = hr.len /\ hr'.reader = q /\ hr'.result = http_response_result(q, SubSeq(Bytes, 1, hr.len))
  <2>1. hr = [plan |-> hr.plan, limits |-> hr.limits, head_only |-> hr.head_only, unclean |-> hr.unclean,
              len |-> hr.len, reader |-> hr.reader, stopped |-> hr.stopped, result |-> hr.result]
    BY DEF HrInv, HrTyped
  <2> HIDE DEF q
  <2> QED BY <1>3, <2>1
<1>5. Bytes' = Bytes
  BY <1>4 DEF Bytes
<1>6. q.fail \in Fails /\ (q.fail = "none" => Passed')
  <2>1. CASE HeadOpen(Bytes, hr.len, hr.limits, r)
    <3>1. r \in Readers /\ ~r.head_done
      BY <2>1 DEF HeadOpen, Within
    <3>2. q = Failed(r, "no_response") \/ q = Failed(r, "decode")
      BY <3>1 DEF http_reader_eof
    <3> HIDE DEF q
    <3>3. q.fail \in {"no_response", "decode"}
      BY <3>1, <3>2 DEF Failed, Readers
    <3> QED BY <3>3 DEF Fails
  <2>2. CASE /\ r = HeadOfAll(Bytes, hr.limits, hr.head_only) /\ HeadReader(r, hr.len)
             /\ Framed(r, hr.len, hr.limits) = <<r, FALSE>>
    <3> DEFINE got == hr.len - r.body_start + 1
    <3>1. r.framing # "none" /\ (r.framing = "length" => got < r.content_length) /\ (r.framing # "length" => got <= hr.limits.body)
      <4> DEFINE fr == Framed(r, hr.len, hr.limits)
      <4>1. \/ fr = <<r, TRUE>> /\ (r.framing = "none" \/ (r.framing = "length" /\ got >= r.content_length))
            \/ fr = <<Failed(r, "body_limit"), TRUE>>
            \/ /\ fr = <<r, FALSE>> /\ r.framing # "none"
               /\ r.framing = "length" => got < r.content_length
               /\ r.framing # "length" => got <= hr.limits.body
        BY <1>1, <1>2, <2>2, FramedCases
      <4>2. fr = <<r, FALSE>>
        BY <2>2
      <4> HIDE DEF fr
      <4> QED BY <4>1, <4>2
    <3>2. r \in Readers /\ r.head_done /\ r.fail = "none"
      BY <2>2 DEF HeadReader
    <3>3. q = IF r.framing = "length" \/ (r.framing = "close" /\ hr.unclean) THEN Failed(r, "incomplete") ELSE r
      BY <3>1, <3>2 DEF http_reader_eof
    <3> HIDE DEF q
    <3>4. CASE r.framing = "length" \/ (r.framing = "close" /\ hr.unclean)
      <4>1. q.fail = "incomplete"
        BY <3>2, <3>3, <3>4 DEF Failed, Readers
      <4> QED BY <4>1 DEF Fails
    <3>5. CASE ~(r.framing = "length" \/ (r.framing = "close" /\ hr.unclean))
      <4>1. q = r
        BY <3>3, <3>5
      <4>2. Passed'
        BY <1>4, <1>5, <2>2, <3>1, <3>5, <4>1 DEF Passed
      <4> QED BY <3>2, <4>1, <4>2 DEF Fails
    <3> QED BY <3>4, <3>5
  <2> QED BY <1>2, <2>1, <2>2 DEF HrInv, ReadsOn
<1> QED BY <1>4, <1>5, <1>6 DEF Delivered

\* The bytes d are the head h and the wire B, up to where the peer closed.
ChunkedBytes(d, h, B) ==
  /\ B \in Seq(Tokens) /\ d \in Seq(STRING)
  /\ \A k \in 1 .. Len(h) : k <= Len(d) => d[k] = h[k]
  /\ Len(d) <= Len(h) + Len(B)
  /\ \A j \in 1 .. Len(B) : Len(h) + j <= Len(d) => d[Len(h) + j] = B[j]

(* What a peer that sends chunks sends.                                     *)
LEMMA StreamIs ==
  ASSUME NEW p \in HrPlans, p.body = "chunks"
  PROVE  GoodHead(p.head) /\ GoodChunks(p.chunks, p.eol) /\ ChunkedBytes(Stream(p), p.head, Encoded(p.chunks, p.eol))
<1> DEFINE h == p.head
           B == Encoded(p.chunks, p.eol)
           d == Stream(p)
           all == h \o B
           c == IF p.cut < Len(all) THEN p.cut ELSE Len(all)
<1>1. GoodHead(h) /\ GoodChunks(p.chunks, p.eol) /\ d \in Seq(STRING) /\ p.cut \in Nat /\ h \in Seq(STRING)
  BY HrAssumption DEF GoodHead, GoodChunks
<1>2. B \in Seq(Tokens)
  <2>1. PICK w : OnWire(B, w, p.chunks, p.eol)
    BY <1>1, Layout
  <2> QED BY <2>1 DEF OnWire
<1>3. h \in Seq(Tokens)
  <2>1. \A j \in 1 .. Len(h) : h[j] \in Tokens
    BY <1>1 DEF Tokens
  <2>2. h \in [1 .. Len(h) -> Tokens] /\ Len(h) \in Nat
    BY <1>1, <2>1
  <2> QED BY <2>2
<1>4. d = SubSeq(all, 1, c)
  BY DEF Stream, Body
<1> HIDE DEF h, B, d
<1>5. Joins(all, h, B)
  <2>1. all = h \o B
    OBVIOUS
  <2> HIDE DEF all
  <2> QED BY <1>2, <1>3, <2>1, Joined
<1> HIDE DEF all
<1>6. /\ all \in Seq(Tokens) /\ Len(all) = Len(h) + Len(B) /\ Len(h) \in Nat /\ Len(B) \in Nat
      /\ (\A i \in 1 .. Len(h) : all[i] = h[i]) /\ (\A j \in 1 .. Len(B) : all[Len(h) + j] = B[j])
  BY <1>5 DEF Joins
<1>7. c \in 0 .. Len(all)
  BY <1>1, <1>6
<1> HIDE DEF c
<1>8. Len(d) = c /\ \A i \in 1 .. c : d[i] = all[i]
  <2>1. \A i \in 1 .. c : all[i] \in Tokens
    BY <1>6, <1>7
  <2>2. 1 \in Int /\ c \in Int
    BY <1>6, <1>7
  <2>3. /\ Len(d) = IF 1 <= c THEN c - 1 + 1 ELSE 0
        /\ \A i \in 1 .. c - 1 + 1 : d[i] = all[1 + i - 1]
    BY <1>4, <2>1, <2>2, SubSeqProperties
  <2>4. c - 1 + 1 = c /\ \A i \in 1 .. c : 1 + i - 1 = i
    BY <2>2
  <2>5. c \in Nat
    BY <1>6, <1>7
  <2>6. \A i \in 1 .. c : d[i] = all[i]
    BY <2>3, <2>4
  <2>7. Len(d) = c
    BY <2>3, <2>4, <2>5
  <2> QED BY <2>6, <2>7
<1>9. \A k \in 1 .. Len(h) : k <= Len(d) => d[k] = h[k]
  BY <1>6, <1>7, <1>8
<1>10. ASSUME NEW j \in 1 .. Len(B), Len(h) + j <= Len(d) PROVE d[Len(h) + j] = B[j]
  <2>1. Len(h) + j \in 1 .. c
    BY <1>6, <1>7, <1>8, <1>10
  <2> QED BY <1>6, <1>8, <2>1
<1>11. Len(d) <= Len(h) + Len(B)
  BY <1>6, <1>7, <1>8
<1>12. ChunkedBytes(d, h, B)
  BY <1>1, <1>2, <1>9, <1>10, <1>11 DEF ChunkedBytes
<1> QED BY <1>1, <1>12 DEF h, B, d

(* The body that has come of the bytes d.                                   *)
LEMMA BodySeq ==
  ASSUME NEW d \in Seq(STRING), NEW m \in 0 .. Len(d), NEW b \in Nat, b >= 1, b <= m + 1,
         NEW x, x = SubSeq(SubSeq(d, 1, m), b, Len(SubSeq(d, 1, m)))
  PROVE  x \in Seq(STRING) /\ Len(x) = m - b + 1 /\ \A i \in 1 .. Len(x) : x[i] = d[b - 1 + i]
<1> DEFINE e == SubSeq(d, 1, m)
<1>1. e \in Seq(STRING) /\ Len(e) = m /\ m \in Nat /\ Len(d) \in Nat /\ \A k \in 1 .. m : e[k] = d[k]
  BY PrefixFacts
<1>2. x = SubSeq(e, b, m)
  BY <1>1
<1> HIDE DEF e
<1>3. \A k \in b .. m : e[k] \in STRING
  BY <1>1
<1>4. /\ x \in Seq(STRING) /\ Len(x) = IF b <= m THEN m - b + 1 ELSE 0
      /\ \A k \in 1 .. m - b + 1 : x[k] = e[b + k - 1]
  BY <1>1, <1>2, <1>3, SubSeqProperties
<1>5. Len(x) = m - b + 1
  BY <1>1, <1>4
<1>6. ASSUME NEW i \in 1 .. m - b + 1 PROVE x[i] = d[b - 1 + i]
  <2>1. b + i - 1 = b - 1 + i /\ b - 1 + i \in 1 .. m
    BY <1>1
  <2> QED BY <1>1, <1>4, <2>1
<1> QED BY <1>4, <1>5, <1>6

(* A delivered body is whole.                                               *)
LEMMA DeliveredWhole == ASSUME HrInv, Delivered PROVE HttpBodyWhole
<1> SUFFICES ASSUME hr.stopped, hr.result[1] = "ok"
             PROVE  /\ (hr.reader.framing = "chunked" /\ hr.plan.body = "chunks") => hr.result[2] = FlattenSeq(hr.plan.chunks)
                    /\ hr.reader.framing = "length" => Len(hr.result[2]) = hr.reader.content_length
                    /\ (hr.reader.framing = "close" /\ hr.unclean) => FALSE
                    /\ Len(hr.result[2]) <= hr.limits.body
  BY DEF HttpBodyWhole
<1> DEFINE r == hr.reader
           d == Bytes
           m == hr.len
           e == SubSeq(d, 1, m)
           b == r.body_start
           x == SubSeq(e, b, Len(e))
           n == r.content_length
           lim == hr.limits.body
           out == hr.result[2]
<1>1. /\ d \in Seq(STRING) /\ hr.limits \in AllLimits /\ hr.head_only \in BOOLEAN /\ m \in 0 .. Len(d) /\ Len(d) \in Nat
      /\ hr.plan \in HrPlans /\ lim \in Nat
  BY HrAssumption DEF Bytes, AllLimits, HrInv, HrTyped
<1>2. hr.result = http_response_result(r, e) /\ r.fail \in Fails /\ (r.fail = "none" => Passed)
  BY DEF Delivered
<1>3. r.fail = "none"
  <2> SUFFICES ASSUME r.fail # "none" PROVE FALSE
    OBVIOUS
  <2>1. hr.result = <<r.fail, <<>>>>
    BY <1>2 DEF http_response_result
  <2>2. hr.result[1] = r.fail
    BY <2>1
  <2> QED BY <1>2, <2>2 DEF Fails
<1>4. /\ r = HeadOfAll(Bytes, hr.limits, hr.head_only) /\ HeadReader(r, m)
      /\ r.framing = "length" => m - b + 1 >= n
      /\ r.framing = "close" => ~hr.unclean
      /\ r.framing \in {"chunked", "close"} => m - b + 1 <= lim
  BY <1>2, <1>3 DEF Passed
<1>5. r \in Readers /\ r.head_done /\ b \in Nat /\ b >= 1 /\ b <= m + 1 /\ n \in Nat
      /\ r.framing \in {"none", "chunked", "length", "close"}
  BY <1>4 DEF HeadReader, Readers
<1>6. /\ r.framing = "length" => n <= lim
      /\ \E q \in Chain(d) : q.body_start # 0 /\ q.body_start = b
  BY <1>1, <1>4, <1>5, HeadOfAllIs
<1>7. x \in Seq(STRING) /\ Len(x) = m - b + 1 /\ \A i \in 1 .. Len(x) : x[i] = d[b - 1 + i]
  <2>1. x = SubSeq(SubSeq(d, 1, m), b, Len(SubSeq(d, 1, m)))
    OBVIOUS
  <2> HIDE DEF x, d, m, b
  <2> QED BY <1>1, <1>5, <2>1, BodySeq
<1>8. hr.result = IF r.status = "s404" THEN <<"bad_status", <<>>>>
                  ELSE IF r.framing = "chunked" THEN http_decode_chunked_body(x)
                  ELSE IF r.framing = "none" THEN <<"ok", <<>>>>
                  ELSE IF r.framing = "length" /\ Len(x) > n THEN <<"ok", SubSeq(x, 1, n)>>
                  ELSE <<"ok", x>>
  BY <1>2, <1>3 DEF http_response_result
<1> HIDE DEF x, d, e, m, b, n, lim
<1>9. r.status # "s404"
  <2> SUFFICES ASSUME r.status = "s404" PROVE FALSE
    OBVIOUS
  <2>1. hr.result = <<"bad_status", <<>>>>
    BY <1>8
  <2> QED BY <2>1
<1>10. CASE r.framing = "chunked"
  <2>1. hr.result = http_decode_chunked_body(x)
    BY <1>8, <1>9, <1>10
  <2>2. Len(out) <= Len(x) /\ Len(out) \in Nat
    BY <1>7, <2>1, DecodedFits
  <2>3. Len(x) <= lim /\ Len(x) \in Nat
    BY <1>4, <1>7, <1>10
  <2>4. Len(out) <= lim
    BY <1>1, <2>2, <2>3
  <2>5. ASSUME hr.plan.body = "chunks" PROVE out = FlattenSeq(hr.plan.chunks)
    <3> DEFINE p == hr.plan
               h == p.head
               B == Encoded(p.chunks, p.eol)
    <3>1. /\ GoodHead(h) /\ GoodChunks(p.chunks, p.eol) /\ B \in Seq(Tokens)
          /\ \A k \in 1 .. Len(h) : k <= Len(d) => d[k] = h[k]
          /\ Len(d) <= Len(h) + Len(B)
          /\ \A j \in 1 .. Len(B) : Len(h) + j <= Len(d) => d[Len(h) + j] = B[j]
      <4>1. GoodHead(h) /\ GoodChunks(p.chunks, p.eol) /\ ChunkedBytes(d, h, B)
        BY <1>1, <2>5, StreamIs DEF d, Bytes
      <4> HIDE DEF h, B
      <4> QED BY <4>1 DEF ChunkedBytes
    <3> HIDE DEF h, B
    <3>2. b = Len(h) + 1 /\ Len(h) <= Len(d)
      <4>1. PICK q \in Chain(d) : q.body_start # 0 /\ q.body_start = b
        BY <1>6
      <4> QED BY <1>1, <3>1, <4>1, BodyBehind
    <3>3. Len(h) \in Nat /\ Len(B) \in Nat /\ m <= Len(d) /\ m \in Nat /\ Len(x) = m - Len(h)
      <4>1. Len(h) \in Nat /\ Len(B) \in Nat
        BY <3>1 DEF GoodHead
      <4>2. m <= Len(d) /\ m \in Nat
        BY <1>1
      <4> QED BY <1>7, <3>2, <4>1, <4>2
    <3>4. Len(x) <= Len(B)
      BY <1>1, <3>1, <3>3
    <3>5. ASSUME NEW i \in 1 .. Len(x) PROVE B[i] = x[i]
      <4>1. i \in 1 .. Len(B) /\ Len(h) + i <= Len(d) /\ b - 1 + i = Len(h) + i
        BY <1>1, <3>2, <3>3, <3>4
      <4> QED BY <1>7, <3>1, <4>1
    <3>6. StartsWith(B, x)
      BY <3>4, <3>5 DEF StartsWith
    <3>7. http_decode_chunked_body(x)[1] = "ok"
      BY <2>1
    <3>8. http_decode_chunked_body(x)[2] = FlattenSeq(p.chunks)
      BY <1>7, <3>1, <3>6, <3>7, DecodedWhole DEF B
    <3> QED BY <2>1, <3>8
  <2> QED BY <1>10, <2>4, <2>5 DEF lim
<1>11. CASE r.framing = "none"
  <2>1. hr.result = <<"ok", <<>>>>
    BY <1>8, <1>9, <1>11
  <2>2. Len(out) = 0
    BY <2>1
  <2>3. Len(out) <= lim
    BY <1>1, <2>2
  <2> QED BY <1>11, <2>3 DEF lim
<1>12. CASE r.framing = "length"
  <2>1. hr.result = <<"ok", IF Len(x) > n THEN SubSeq(x, 1, n) ELSE x>>
    BY <1>8, <1>9, <1>12
  <2>2. out = IF Len(x) > n THEN SubSeq(x, 1, n) ELSE x
    BY ONLY <2>1
  <2>3. Len(x) >= n /\ Len(x) \in Nat
    BY <1>4, <1>7, <1>12
  <2>4. CASE Len(x) > n
    <3>1. n \in 0 .. Len(x)
      BY <1>5, <2>3
    <3>2. Len(SubSeq(x, 1, n)) = n
      BY <1>7, <3>1, PrefixFacts
    <3> QED BY <1>6, <1>12, <2>2, <2>4, <3>2 DEF lim, n
  <2>5. CASE ~(Len(x) > n)
    <3>1. Len(x) = n
      BY <1>5, <2>3, <2>5
    <3> QED BY <1>6, <1>12, <2>2, <2>5, <3>1 DEF lim, n
  <2> QED BY <2>4, <2>5
<1>13. CASE r.framing = "close"
  <2>1. hr.result = <<"ok", x>>
    BY <1>8, <1>9, <1>13
  <2>2. out = x
    BY <2>1
  <2>3. Len(x) <= lim
    BY <1>4, <1>7, <1>13
  <2> QED BY <1>4, <1>13, <2>2, <2>3 DEF lim
<1> QED BY <1>5, <1>10, <1>11, <1>12, <1>13

(* For every response, every limit and every way in which recv cuts it into *)
(* pieces and the peer cuts it short, a success that http_response_result   *)
(* reports is all of the body: all the chunks that were sent, as many bytes *)
(* as Content-Length says, no body that ends with an unclean close, and no  *)
(* more than max_body_bytes.                                                *)
THEOREM HttpBodies == HrSpec => []HttpBodyWhole
<1> DEFINE Inv == HrInv /\ Delivered
<1>1. HrInit => Inv
  <2> SUFFICES ASSUME HrInit PROVE Inv
    OBVIOUS
  <2>1. hr.stopped = FALSE
    BY DEF HrInit
  <2> QED BY <2>1, HrStarts DEF Delivered
<1>2. Inv /\ [HrNext]_hr => Inv'
  <2> SUFFICES ASSUME HrInv, Delivered, [HrNext]_hr PROVE Inv'
    OBVIOUS
  <2>1. HrInv'
    BY HrKeeps
  <2>2. CASE eof
    BY <2>1, <2>2, EndDelivers
  <2>3. ASSUME NEW n \in 1 .. Len(Stream(hr.plan)), recv(n) PROVE Delivered'
    BY <2>3, PieceDelivers DEF Bytes
  <2>4. CASE UNCHANGED hr
    BY <2>1, <2>4 DEF Delivered, Passed, Bytes
  <2> QED BY <2>1, <2>2, <2>3, <2>4 DEF HrNext
<1>3. Inv => HttpBodyWhole
  BY DeliveredWhole
<1> QED BY <1>1, <1>2, <1>3, PTL DEF HrSpec

-----------------------------------------------------------------------------
(* The HTTP client *)

USE HttpAssumption

HttpPlaces == {"idle", "resolve", "dnspark", "connect", "connpark", "connected", "handshake", "handpark",
               "send", "sendpark", "recv", "recvpark", "ended", "dropped", "abandoned"}
HttpThings == {"request", "url", "fd", "tls", "response", "dnsreq", "pipeR", "pipeW"}

CallType == [pc : HttpPlaces, scheme : UrlSchemes, left : Int, got : Nat, budget : BOOLEAN,
             live : SUBSET HttpThings, wrong : SUBSET HttpThings]
DnsType == [refs : Int, thread : {"none", "lookup", "close", "decref"}, answer : Int]

\* What the frame of the call holds, by where it is.
FrameHolds(r) ==
  (IF r.pc \in {"resolve", "dnspark", "connect", "connpark", "connected", "handshake", "handpark",
                "send", "sendpark", "abandoned"} THEN Buffers(r) ELSE {})
  \cup (IF r.pc \in {"recv", "recvpark"}
        THEN {"url"} \cup (IF Tls(r) THEN {"request"} ELSE {}) \cup (r.live \cap {"response"}) ELSE {})
  \cup (IF r.pc \in {"connpark", "connected", "handshake", "handpark", "send", "sendpark", "recv", "recvpark"}
        THEN {"fd"} ELSE {})
  \cup (IF Tls(r) /\ r.pc \in {"handshake", "handpark", "send", "sendpark", "recv", "recvpark"}
        THEN {"tls"} ELSE {})
  \cup (IF r.pc = "dnspark" THEN {"pipeR"} ELSE {})
\* What the resolver thread holds, and the request it shares with the frame.
ThreadHolds(q) == IF q.thread \in {"lookup", "close"} THEN {"pipeW"} ELSE {}
SharedHolds(r, q) == IF r.pc = "dnspark" \/ q.thread # "none" THEN {"dnsreq"} ELSE {}

\* The places each scheme can be at.
SchemeSound(r) ==
  /\ r.scheme = "https_refused" => r.pc \in {"idle", "ended"}
  /\ Tcp(r) => r.pc \notin {"handshake", "handpark", "send", "sendpark", "recv", "recvpark"}
  /\ r.pc \in {"handshake", "handpark"} => Tls(r)

RefsSound(r, q) ==
  /\ q.refs = (IF r.pc = "dnspark" THEN 1 ELSE 0) + (IF q.thread # "none" THEN 1 ELSE 0)
  /\ r.pc \in {"idle", "resolve"} => q.thread = "none"

CallSound(r, q) ==
  /\ r \in CallType /\ q \in DnsType
  /\ r.wrong = {}
  /\ r.live = FrameHolds(r) \cup ThreadHolds(q) \cup SharedHolds(r, q)
  /\ SchemeSound(r) /\ RefsSound(r, q)

InFlight == {c \in HttpCalls : dnsReq[c].thread \in {"lookup", "close"}}

HttpInv ==
  /\ http \in [HttpCalls -> CallType] /\ dnsReq \in [HttpCalls -> DnsType]
  /\ \A c \in HttpCalls : CallSound(http[c], dnsReq[c])
  /\ dnsInflight = Cardinality(InFlight) /\ dnsInflight <= DnsThreadCap

(* Record sets grow with the sets of their fields.                          *)
LEMMA RecordWidens ==
  ASSUME NEW U, NEW P1, NEW P2, NEW I1, NEW I2, NEW N1, NEW N2, NEW B1, NEW B2, NEW L1, NEW L2,
         P1 \subseteq P2, I1 \subseteq I2, N1 \subseteq N2, B1 \subseteq B2, L1 \subseteq L2,
         NEW r \in [pc : P1, scheme : U, left : I1, got : N1, budget : B1, live : L1, wrong : L1]
  PROVE  r \in [pc : P2, scheme : U, left : I2, got : N2, budget : B2, live : L2, wrong : L2]
  OBVIOUS

(* Requests that have not started hold nothing.                             *)
LEMMA HttpInitInv == HttpInit => HttpInv
<1> SUFFICES ASSUME HttpInit PROVE HttpInv
  OBVIOUS
<1> DEFINE Fresh == [pc : {"idle"}, scheme : UrlSchemes, left : {0}, got : {0}, budget : {TRUE},
                     live : {{}}, wrong : {{}}]
<1>1. ASSUME NEW r \in Fresh
      PROVE  r.pc = "idle" /\ r.scheme \in UrlSchemes /\ r.live = {} /\ r.wrong = {} /\ r \in CallType
  <2>1. r.pc \in {"idle"} /\ r.live \in {{}} /\ r.wrong \in {{}}
    BY DEF Fresh
  <2>2. {"idle"} \subseteq HttpPlaces /\ {0} \subseteq Nat /\ {0} \subseteq Int /\ {TRUE} \subseteq BOOLEAN
        /\ {{}} \subseteq SUBSET HttpThings
    BY DEF HttpPlaces
  <2>3. r.scheme \in UrlSchemes
    BY DEF Fresh
  <2>4. r \in CallType
    BY <2>2, RecordWidens DEF Fresh, CallType
  <2> QED BY <2>1, <2>3, <2>4
<1>2. http \in [HttpCalls -> Fresh] /\ \A c \in HttpCalls : dnsReq[c] = [refs |-> 0, thread |-> "none", answer |-> 0]
  BY DEF HttpInit
<1> HIDE DEF Fresh
<1>3. http \in [HttpCalls -> CallType] /\ dnsReq \in [HttpCalls -> DnsType]
  BY <1>1, <1>2 DEF HttpInit, DnsType
<1>4. ASSUME NEW c \in HttpCalls PROVE CallSound(http[c], dnsReq[c])
  BY <1>1, <1>2, <1>3 DEF CallSound, FrameHolds, ThreadHolds, SharedHolds, SchemeSound, RefsSound, Tcp
<1>5. InFlight = {}
  BY <1>2 DEF InFlight
<1> QED BY <1>3, <1>4, <1>5, FS_EmptySet DEF HttpInv, HttpInit

(* A step of call c that leaves the resolver's side alone. *)
LEMMA CallStep ==
  ASSUME HttpInv, NEW c \in HttpCalls, NEW r, CallSound(r, dnsReq[c]),
         http' = [http EXCEPT ![c] = r], DnsUnchanged
  PROVE  HttpInv'
<1>1. InFlight' = InFlight
  BY DEF InFlight, DnsUnchanged
<1>2. \A d \in HttpCalls : CallSound(http'[d], dnsReq'[d])
  BY DEF HttpInv, DnsUnchanged
<1>3. http' \in [HttpCalls -> CallType]
  BY DEF HttpInv, CallSound
<1> QED BY <1>1, <1>2, <1>3 DEF HttpInv, DnsUnchanged

(* Setting the fields that are not about what is held.                      *)
LEMMA FieldsSet ==
  ASSUME NEW r \in CallType, NEW p \in HttpPlaces, NEW n \in Int, NEW m \in Nat, NEW b \in BOOLEAN
  PROVE  LET s == [r EXCEPT !.pc = p, !.left = n, !.got = m, !.budget = b]
         IN  /\ s \in CallType
             /\ s.pc = p /\ s.scheme = r.scheme /\ s.live = r.live /\ s.wrong = r.wrong
  BY DEF CallType

(* What releasing and returning do to the fields of a call.                 *)
LEMMA DropsFields ==
  ASSUME NEW r \in CallType, NEW S \in SUBSET HttpThings
  PROVE  /\ Drops(r, S) \in CallType
         /\ Drops(r, S).pc = r.pc /\ Drops(r, S).scheme = r.scheme
         /\ Drops(r, S).live = r.live \ S /\ Drops(r, S).wrong = r.wrong \cup (S \ r.live)
  BY DEF Drops, CallType
(* What a call keeps and releases when it returns.                          *)
LEMMA ReturnsFields ==
  ASSUME NEW r \in CallType, NEW S \in SUBSET HttpThings
  PROVE  /\ Returns(r, S) \in CallType
         /\ Returns(r, S).pc = "ended" /\ Returns(r, S).scheme = r.scheme
         /\ Returns(r, S).live = r.live \ S /\ Returns(r, S).wrong = r.wrong \cup (S \ r.live)
<1>1. "ended" \in HttpPlaces
  BY DEF HttpPlaces
<1> DEFINE d == Drops(r, S)
           zero == 0
           yes == TRUE
<1>2. d \in CallType /\ d.scheme = r.scheme /\ d.live = r.live \ S /\ d.wrong = r.wrong \cup (S \ r.live)
  BY DropsFields
<1>3. Returns(r, S) = [d EXCEPT !.pc = "ended", !.left = zero, !.got = zero, !.budget = yes]
  BY DEF Returns
<1>4. zero \in Int /\ zero \in Nat /\ yes \in BOOLEAN
  OBVIOUS
<1> HIDE DEF d, zero, yes
<1> DEFINE s == [d EXCEPT !.pc = "ended", !.left = zero, !.got = zero, !.budget = yes]
<1>5. s \in CallType
  BY <1>1, <1>2, <1>4, FieldsSet
<1>6. s.pc = "ended" /\ s.scheme = d.scheme /\ s.live = d.live /\ s.wrong = d.wrong
  BY <1>2 DEF CallType
<1> HIDE DEF s
<1> QED BY <1>2, <1>3, <1>5, <1>6 DEF s

(* The places and the resources the steps below name.                       *)
LEMMA PlacesAndThings ==
  /\ "resolve" \in HttpPlaces /\ "dnspark" \in HttpPlaces /\ "connect" \in HttpPlaces /\ "connpark" \in HttpPlaces
  /\ "connected" \in HttpPlaces /\ "handshake" \in HttpPlaces /\ "handpark" \in HttpPlaces /\ "send" \in HttpPlaces
  /\ "sendpark" \in HttpPlaces /\ "recv" \in HttpPlaces /\ "recvpark" \in HttpPlaces /\ "ended" \in HttpPlaces
  /\ "dropped" \in HttpPlaces /\ "abandoned" \in HttpPlaces
  /\ {"request", "url"} \subseteq HttpThings /\ {"fd"} \subseteq HttpThings /\ {"tls"} \subseteq HttpThings
  /\ {"response"} \subseteq HttpThings /\ {"dnsreq", "pipeR", "pipeW"} \subseteq HttpThings
  BY DEF HttpPlaces, HttpThings

-----------------------------------------------------------------------------
(* Away from the look-up's park, a step of the frame does not change what   *)
(* the resolver's side holds.                                               *)
Elsewhere(r, q) == ThreadHolds(q) \cup SharedHolds(r, q)

(* The frame moves to a place where it holds what it should.                *)
LEMMA Moves ==
  ASSUME NEW r, NEW q, CallSound(r, q), r.pc # "dnspark",
         NEW s \in CallType, s.pc \notin {"idle", "resolve", "dnspark"}, s.scheme = r.scheme, s.wrong = {},
         s.live = FrameHolds(s) \cup Elsewhere(r, q), SchemeSound(s)
  PROVE  CallSound(s, q)
  BY DEF CallSound, RefsSound, SharedHolds, Elsewhere

(* The frame returns from x, a state inside a step of r, and releases S.    *)
LEMMA Leaves ==
  ASSUME NEW r, NEW q, CallSound(r, q), r.pc # "dnspark",
         NEW x \in CallType, x.scheme = r.scheme, x.wrong = {}, r.scheme # "https_refused" \/ r.pc = "idle",
         NEW S, S \subseteq x.live, x.live \ S = Elsewhere(r, q)
  PROVE  CallSound(Returns(x, S), q)
<1> DEFINE s == Returns(x, S)
<1>1. x.live \subseteq HttpThings /\ S \in SUBSET HttpThings
  BY DEF CallType
<1>2. s \in CallType /\ s.pc = "ended" /\ s.scheme = r.scheme /\ s.live = x.live \ S /\ s.wrong = {}
  BY <1>1, ReturnsFields
<1> HIDE DEF s
<1>3. FrameHolds(s) = {} /\ SchemeSound(s)
  BY <1>2 DEF FrameHolds, SchemeSound, Tcp
<1>4. s.live = FrameHolds(s) \cup Elsewhere(r, q)
  BY <1>2, <1>3
<1>5. CallSound(s, q)
  BY <1>2, <1>3, <1>4, Moves
<1> QED BY <1>5 DEF s

(* What CallSound says of a call away from the look-up's park.              *)
LEMMA Holding ==
  ASSUME NEW r, NEW q, CallSound(r, q)
  PROVE  /\ r \in CallType /\ q \in DnsType /\ r.wrong = {} /\ r.live \subseteq HttpThings
         /\ r.live = FrameHolds(r) \cup Elsewhere(r, q)
         /\ Elsewhere(r, q) \subseteq {"pipeW", "dnsreq"}
         /\ "pipeW" \notin FrameHolds(r) /\ "dnsreq" \notin FrameHolds(r)
  BY DEF CallSound, CallType, Elsewhere, ThreadHolds, SharedHolds, FrameHolds, Buffers

(* Building the request.                                                    *)
LEMMA BuildInv ==
  ASSUME HttpInv, NEW c \in HttpCalls, http_build(c)
  PROVE  HttpInv'
<1> DEFINE r == http[c]
           q == dnsReq[c]
           s == [r EXCEPT !.pc = "resolve", !.live = Buffers(r)]
           x == [r EXCEPT !.live = Buffers(r)]
<1>1. CallSound(r, q) /\ r.pc = "idle" /\ DnsUnchanged
  BY DEF HttpInv, http_build, Step
<1>2. r \in CallType /\ r.wrong = {} /\ r.live = {} /\ q.thread = "none" /\ Elsewhere(r, q) = {}
  <2>1. q.thread = "none"
    BY <1>1 DEF CallSound, RefsSound
  <2>2. Elsewhere(r, q) = {} /\ FrameHolds(r) = {}
    BY <1>1, <2>1 DEF FrameHolds, Elsewhere, ThreadHolds, SharedHolds
  <2> QED BY <1>1, <2>1, <2>2, Holding
<1>3. Buffers(r) \in SUBSET HttpThings /\ "resolve" \in HttpPlaces
  BY PlacesAndThings DEF Buffers
<1>4. s \in CallType /\ s.pc = "resolve" /\ s.scheme = r.scheme /\ s.live = Buffers(r) /\ s.wrong = {}
  BY <1>2, <1>3 DEF CallType
<1>5. x \in CallType /\ x.scheme = r.scheme /\ x.live = Buffers(r) /\ x.wrong = {}
  BY <1>2, <1>3 DEF CallType
<1> HIDE DEF s, x
<1>6. CASE http' = [http EXCEPT ![c] = Returns(r, {})]
  <2>1. CallSound(Returns(r, {}), q)
    BY <1>1, <1>2, Leaves
  <2> QED BY <1>1, <1>6, <2>1, CallStep
<1>7. CASE r.scheme # "https_refused" /\ http' = [http EXCEPT ![c] = s]
  <2>1. CallSound(s, q)
    BY <1>1, <1>2, <1>4, <1>7 DEF CallSound, RefsSound, SchemeSound, FrameHolds, ThreadHolds, SharedHolds, Buffers,
       Tls, Tcp
  <2> QED BY <1>1, <1>7, <2>1, CallStep
<1>8. CASE http' = [http EXCEPT ![c] = Returns(x, Buffers(r))]
  <2>1. CallSound(Returns(x, Buffers(r)), q)
    BY <1>1, <1>2, <1>5, Leaves
  <2> QED BY <1>1, <1>8, <2>1, CallStep
<1> QED BY <1>6, <1>7, <1>8 DEF http_build, Step, s, x

(* The addresses are known, or there are none: no thread was needed.        *)
LEMMA ResolvedInv ==
  ASSUME HttpInv, NEW c \in HttpCalls, NEW n \in Int, Step(c, "resolve", Resolved(http[c], n)), DnsUnchanged
  PROVE  HttpInv'
<1> DEFINE r == http[c]
           q == dnsReq[c]
           s == [r EXCEPT !.pc = "connect", !.left = n]
<1>1. CallSound(r, q) /\ r.pc = "resolve"
  BY DEF HttpInv, Step
<1>2. r \in CallType /\ r.wrong = {} /\ r.live = Buffers(r) \cup Elsewhere(r, q) /\ r.scheme # "https_refused"
      /\ Elsewhere(r, q) \subseteq {"pipeW", "dnsreq"}
  BY <1>1, Holding DEF FrameHolds, CallSound, SchemeSound
<1>3. s \in CallType /\ s.pc = "connect" /\ s.scheme = r.scheme /\ s.live = r.live /\ s.wrong = {}
  BY <1>2, PlacesAndThings DEF CallType
<1> HIDE DEF s
<1>4. FrameHolds(s) = Buffers(r) /\ SchemeSound(s)
  BY <1>2, <1>3 DEF FrameHolds, SchemeSound, Buffers, Tcp
<1>5. CallSound(s, q)
  BY <1>1, <1>2, <1>3, <1>4, Moves
<1>6. CallSound(Returns(r, Buffers(r)), q)
  <2>1. r.live \ Buffers(r) = Elsewhere(r, q)
    BY <1>2 DEF Buffers
  <2> QED BY <1>1, <1>2, <2>1, Leaves
<1>7. CallSound(Resolved(r, n), q)
  BY <1>5, <1>6 DEF Resolved, s
<1> QED BY <1>7, CallStep DEF Step

(* Moves that only change the place: the frame holds the same before and    *)
(* after.                                                                   *)
LEMMA PlaceMoves ==
  ASSUME HttpInv, NEW c \in HttpCalls, NEW p \in HttpPlaces, http[c].pc # "dnspark",
         p \notin {"idle", "resolve", "dnspark"}, NEW s, s = [http[c] EXCEPT !.pc = p],
         FrameHolds(s) = FrameHolds(http[c]), SchemeSound(s)
  PROVE  CallSound(s, dnsReq[c])
<1> DEFINE r == http[c]
           q == dnsReq[c]
<1>1. CallSound(r, q)
  BY DEF HttpInv
<1>2. r \in CallType /\ r.wrong = {} /\ r.live = FrameHolds(r) \cup Elsewhere(r, q)
  BY <1>1, Holding
<1>3. s \in CallType /\ s.pc = p /\ s.scheme = r.scheme /\ s.live = r.live /\ s.wrong = {}
  BY <1>2 DEF CallType
<1> QED BY <1>1, <1>2, <1>3, Moves

-----------------------------------------------------------------------------
(* The look-up: steps that touch the call and its DnsRequest.               *)

(* A step that changes one call and its resolver request.                   *)
LEMMA BothStep ==
  ASSUME HttpInv, NEW c \in HttpCalls, NEW r, NEW q, CallSound(r, q),
         http' = [http EXCEPT ![c] = r], dnsReq' = [dnsReq EXCEPT ![c] = q],
         dnsInflight' = Cardinality(InFlight'), dnsInflight' <= DnsThreadCap
  PROVE  HttpInv'
<1>1. r \in CallType /\ q \in DnsType
  BY DEF CallSound
<1>2. http' \in [HttpCalls -> CallType] /\ dnsReq' \in [HttpCalls -> DnsType]
  BY <1>1 DEF HttpInv
<1>3. \A d \in HttpCalls : CallSound(http'[d], dnsReq'[d])
  BY DEF HttpInv
<1> QED BY <1>2, <1>3 DEF HttpInv

(* The threads in flight, after the thread of c came or went.               *)
LEMMA InFlightChanges ==
  ASSUME HttpInv, NEW c \in HttpCalls, NEW q, dnsReq' = [dnsReq EXCEPT ![c] = q]
  PROVE  /\ dnsInflight \in Nat /\ dnsInflight <= DnsThreadCap
         /\ InFlight' = IF q.thread \in {"lookup", "close"} THEN InFlight \cup {c} ELSE InFlight \ {c}
         /\ Cardinality(InFlight \cup {c}) = IF c \in InFlight THEN dnsInflight ELSE dnsInflight + 1
         /\ Cardinality(InFlight \ {c}) = IF c \in InFlight THEN dnsInflight - 1 ELSE dnsInflight
<1>1. IsFiniteSet(InFlight)
  <2>1. InFlight \in SUBSET HttpCalls
    BY DEF InFlight
  <2> QED BY <2>1, FS_Subset
<1>2. Cardinality(InFlight) \in Nat
  BY <1>1, FS_CardinalityType
<1>3. InFlight' = IF q.thread \in {"lookup", "close"} THEN InFlight \cup {c} ELSE InFlight \ {c}
  BY DEF InFlight, HttpInv
<1> QED BY <1>1, <1>2, <1>3, FS_AddElement, FS_RemoveElement DEF HttpInv

(* The thread starts: the frame and the thread hold a reference each.       *)
LEMMA OnThreadInv ==
  ASSUME HttpInv, NEW c \in HttpCalls, resolve_on_thread(c)
  PROVE  HttpInv'
<1> DEFINE r == http[c]
           q == [refs |-> 2, thread |-> "lookup", answer |-> 0]
           s == [r EXCEPT !.pc = "dnspark", !.live = @ \cup {"dnsreq", "pipeR", "pipeW"}]
<1>1. CallSound(r, dnsReq[c]) /\ r.pc = "resolve" /\ dnsInflight < DnsThreadCap
      /\ http' = [http EXCEPT ![c] = s] /\ dnsReq' = [dnsReq EXCEPT ![c] = q] /\ dnsInflight' = dnsInflight + 1
  BY DEF HttpInv, Step, resolve_on_thread
<1>2. dnsReq[c].thread = "none" /\ r.scheme # "https_refused"
  BY <1>1 DEF CallSound, RefsSound, SchemeSound
<1>3. r \in CallType /\ r.wrong = {} /\ r.live = Buffers(r)
  <2>1. FrameHolds(r) = Buffers(r) /\ Elsewhere(r, dnsReq[c]) = {}
    BY <1>1, <1>2 DEF FrameHolds, Elsewhere, ThreadHolds, SharedHolds
  <2>2. r \in CallType /\ r.wrong = {} /\ r.live = FrameHolds(r) \cup Elsewhere(r, dnsReq[c])
    BY <1>1, Holding
  <2> QED BY <2>1, <2>2
<1>4. s \in CallType /\ s.pc = "dnspark" /\ s.scheme = r.scheme /\ s.wrong = {}
      /\ s.live = Buffers(r) \cup {"dnsreq", "pipeR", "pipeW"}
  BY <1>3, PlacesAndThings DEF CallType
<1> HIDE DEF s
<1>5. CallSound(s, q)
  <2>1. q \in DnsType
    BY DEF DnsType
  <2>2. RefsSound(s, q) /\ SchemeSound(s)
    BY <1>2, <1>4 DEF RefsSound, SchemeSound, Tcp
  <2>3. FrameHolds(s) = Buffers(r) \cup {"pipeR"} /\ ThreadHolds(q) = {"pipeW"} /\ SharedHolds(s, q) = {"dnsreq"}
    BY <1>4 DEF FrameHolds, ThreadHolds, SharedHolds, Buffers, Tcp
  <2> HIDE DEF q
  <2> QED BY <1>4, <2>1, <2>2, <2>3 DEF CallSound
<1>6. c \notin InFlight
  BY <1>2 DEF InFlight
<1>7. dnsInflight' = Cardinality(InFlight') /\ dnsInflight' <= DnsThreadCap
  <2>1. q.thread = "lookup"
    OBVIOUS
  <2> HIDE DEF q
  <2>2. InFlight' = InFlight \cup {c} /\ Cardinality(InFlight \cup {c}) = dnsInflight + 1 /\ dnsInflight \in Nat
    BY <1>1, <1>6, <2>1, InFlightChanges
  <2> QED BY <1>1, <2>2
<1> QED BY <1>1, <1>5, <1>7, BothStep

(* The thread's three steps.                                                *)
LEMMA LookupInv ==
  ASSUME HttpInv, NEW c \in HttpCalls, dns_lookup(c)
  PROVE  HttpInv'
<1> PICK n \in Answers : dnsReq' = [dnsReq EXCEPT ![c].thread = "close", ![c].answer = n]
  BY DEF dns_lookup
<1> DEFINE r == http[c]
           q == dnsReq[c]
           q2 == [q EXCEPT !.thread = "close", !.answer = n]
<1>1. CallSound(r, q) /\ q.thread = "lookup" /\ n \in Int /\ UNCHANGED <<http, dnsInflight>>
  BY DEF HttpInv, dns_lookup, Answers
<1>2. q \in DnsType
  BY <1>1 DEF CallSound
<1>3. q2 \in DnsType /\ q2.thread = "close" /\ q2.refs = q.refs
  BY <1>1, <1>2 DEF DnsType
<1>4. dnsReq' = [dnsReq EXCEPT ![c] = q2] /\ http' = [http EXCEPT ![c] = r]
  BY <1>1, <1>2 DEF HttpInv
<1> HIDE DEF q2
<1>5. CallSound(r, q2)
  BY <1>1, <1>3 DEF CallSound, ThreadHolds, SharedHolds, RefsSound
<1>6. c \in InFlight
  BY <1>1 DEF InFlight
<1>7. dnsInflight' = Cardinality(InFlight') /\ dnsInflight' <= DnsThreadCap
  <2>1. InFlight' = InFlight \cup {c} /\ Cardinality(InFlight \cup {c}) = dnsInflight /\ dnsInflight <= DnsThreadCap
    BY <1>3, <1>4, <1>6, InFlightChanges
  <2> QED BY <1>1, <2>1
<1> QED BY <1>4, <1>5, <1>7, BothStep

(* The resolver thread closes its end of the pipe and leaves the count.     *)
LEMMA DnsCloseInv ==
  ASSUME HttpInv, NEW c \in HttpCalls, dns_close(c)
  PROVE  HttpInv'
<1> DEFINE r == http[c]
           q == dnsReq[c]
           q2 == [q EXCEPT !.thread = "decref"]
           s == Drops(r, {"pipeW"})
<1>1. CallSound(r, q) /\ q.thread = "close" /\ dnsInflight' = dnsInflight - 1 /\ http' = [http EXCEPT ![c] = s]
  BY DEF HttpInv, dns_close
<1>2. q \in DnsType /\ r \in CallType /\ r.wrong = {} /\ r.live = FrameHolds(r) \cup Elsewhere(r, q)
      /\ "pipeW" \notin FrameHolds(r)
  BY <1>1, Holding
<1>3. q2 \in DnsType /\ q2.thread = "decref" /\ q2.refs = q.refs
  BY <1>1, <1>2 DEF DnsType
<1>4. dnsReq' = [dnsReq EXCEPT ![c] = q2]
  BY <1>1, <1>2 DEF HttpInv, dns_close
<1>5. Elsewhere(r, q) = {"pipeW", "dnsreq"}
  BY <1>1 DEF Elsewhere, ThreadHolds, SharedHolds
<1>6. s \in CallType /\ s.pc = r.pc /\ s.scheme = r.scheme /\ s.live = FrameHolds(r) \cup {"dnsreq"} /\ s.wrong = {}
  <2>1. {"pipeW"} \in SUBSET HttpThings
    BY PlacesAndThings
  <2> QED BY <1>2, <1>5, <2>1, DropsFields
<1> HIDE DEF q2, s
<1>7. CallSound(s, q2)
  <2>1. RefsSound(s, q2) /\ SchemeSound(s)
    BY <1>1, <1>3, <1>6 DEF CallSound, RefsSound, SchemeSound, Tcp, Tls
  <2>2. FrameHolds(s) = FrameHolds(r)
    <3>1. s.live \cap {"response"} = r.live \cap {"response"}
      BY <1>2, <1>5, <1>6
    <3> QED BY <1>6, <3>1 DEF FrameHolds, Buffers, Tls, Tcp
  <2>3. ThreadHolds(q2) = {} /\ SharedHolds(s, q2) = {"dnsreq"}
    BY <1>3 DEF ThreadHolds, SharedHolds
  <2> QED BY <1>3, <1>6, <2>1, <2>2, <2>3 DEF CallSound
<1>8. c \in InFlight
  BY <1>1 DEF InFlight
<1>9. dnsInflight' = Cardinality(InFlight') /\ dnsInflight' <= DnsThreadCap
  <2>1. InFlight' = InFlight \ {c} /\ Cardinality(InFlight \ {c}) = dnsInflight - 1
        /\ dnsInflight \in Nat /\ dnsInflight <= DnsThreadCap
    BY <1>3, <1>4, <1>8, InFlightChanges
  <2> QED BY <1>1, <2>1
<1> QED BY <1>1, <1>4, <1>7, <1>9, BothStep

(* The thread drops its reference; the last one frees the request.          *)
LEMMA DnsDecrefInv ==
  ASSUME HttpInv, NEW c \in HttpCalls, dns_decref(c)
  PROVE  HttpInv'
<1> DEFINE r == http[c]
           q == dnsReq[c]
           q2 == [q EXCEPT !.refs = @ - 1, !.thread = "none"]
           s == Drops(r, IfLast(c))
<1>1. CallSound(r, q) /\ q.thread = "decref" /\ dnsInflight' = dnsInflight /\ http' = [http EXCEPT ![c] = s]
  BY DEF HttpInv, dns_decref
<1>2. q \in DnsType /\ r \in CallType /\ r.wrong = {} /\ r.live = FrameHolds(r) \cup Elsewhere(r, q)
      /\ "dnsreq" \notin FrameHolds(r)
  BY <1>1, Holding
<1>3. q2 \in DnsType /\ q2.thread = "none" /\ q2.refs = q.refs - 1
  <2>1. ASSUME NEW n \in Int, NEW t \in {"none", "lookup", "close", "decref"}
        PROVE  [q EXCEPT !.refs = n, !.thread = t] \in DnsType
    BY <1>2 DEF DnsType
  <2>2. q.refs - 1 \in Int /\ q2 = [q EXCEPT !.refs = q.refs - 1, !.thread = "none"]
    BY <1>2 DEF DnsType
  <2>3. q2 \in DnsType
    BY <2>1, <2>2
  <2> QED BY <1>2, <2>3 DEF DnsType
<1>4. dnsReq' = [dnsReq EXCEPT ![c] = q2]
  <2>1. dnsReq' = [[dnsReq EXCEPT ![c].refs = @ - 1] EXCEPT ![c].thread = "none"] /\ DOMAIN dnsReq = HttpCalls
    BY DEF HttpInv, dns_decref, Decreffed
  <2> QED BY <1>2, <2>1 DEF DnsType
<1>5. Elsewhere(r, q) = {"dnsreq"}
  BY <1>1 DEF Elsewhere, ThreadHolds, SharedHolds
<1>6. IfLast(c) = IF r.pc = "dnspark" THEN {} ELSE {"dnsreq"}
  BY <1>1 DEF CallSound, RefsSound, IfLast
<1>7. /\ s \in CallType /\ s.pc = r.pc /\ s.scheme = r.scheme /\ s.wrong = {}
      /\ s.live = FrameHolds(r) \cup (IF r.pc = "dnspark" THEN {"dnsreq"} ELSE {})
  <2>1. IfLast(c) \in SUBSET HttpThings /\ IfLast(c) \subseteq r.live
    BY <1>2, <1>5, <1>6, PlacesAndThings
  <2> QED BY <1>2, <1>5, <1>6, <2>1, DropsFields
<1> HIDE DEF q2, s
<1>8. CallSound(s, q2)
  <2>1. RefsSound(s, q2) /\ SchemeSound(s)
    BY <1>1, <1>3, <1>7 DEF CallSound, RefsSound, SchemeSound, Tcp, Tls
  <2>2. FrameHolds(s) = FrameHolds(r)
    <3>1. s.live \cap {"response"} = r.live \cap {"response"}
      BY <1>2, <1>5, <1>7
    <3> QED BY <1>7, <3>1 DEF FrameHolds, Buffers, Tls, Tcp
  <2>3. ThreadHolds(q2) = {} /\ SharedHolds(s, q2) = IF r.pc = "dnspark" THEN {"dnsreq"} ELSE {}
    BY <1>3, <1>7 DEF ThreadHolds, SharedHolds
  <2> QED BY <1>3, <1>7, <2>1, <2>2, <2>3 DEF CallSound
<1>9. c \notin InFlight
  BY <1>1 DEF InFlight
<1>10. dnsInflight' = Cardinality(InFlight') /\ dnsInflight' <= DnsThreadCap
  <2>1. InFlight' = InFlight \ {c} /\ Cardinality(InFlight \ {c}) = dnsInflight
        /\ dnsInflight \in Nat /\ dnsInflight <= DnsThreadCap
    BY <1>3, <1>4, <1>9, InFlightChanges
  <2> QED BY <1>1, <2>1
<1> QED BY <1>1, <1>4, <1>8, <1>10, BothStep

(* The frame leaves the look-up's park, with its end of the pipe closed and *)
(* its reference dropped: x is the call at that moment, still at the park.  *)
LEMMA LeavesPark ==
  ASSUME HttpInv, NEW c \in HttpCalls, http[c].pc = "dnspark",
         NEW x, x = Drops(http[c], {"pipeR"} \cup IfLast(c)),
         dnsReq' = Decreffed(c), dnsInflight' = dnsInflight,
         NEW s, http' = [http EXCEPT ![c] = s], s \in CallType, s.pc \notin {"idle", "resolve", "dnspark"},
         s.scheme = x.scheme, s.wrong = x.wrong, SchemeSound(s),
         FrameHolds(s) \subseteq Buffers(http[c]), s.live = x.live \ (Buffers(http[c]) \ FrameHolds(s))
  PROVE  HttpInv'
<1> DEFINE r == http[c]
           q == dnsReq[c]
           q2 == [q EXCEPT !.refs = @ - 1]
           alone == q.thread = "none"
<1>1. CallSound(r, q)
  BY DEF HttpInv
<1>2. /\ q \in DnsType /\ r \in CallType /\ r.wrong = {} /\ r.live = FrameHolds(r) \cup Elsewhere(r, q)
  BY <1>1, Holding
<1>3. q2 \in DnsType /\ q2.thread = q.thread /\ q2.refs = q.refs - 1
  BY <1>2 DEF DnsType
<1>4. dnsReq' = [dnsReq EXCEPT ![c] = q2]
  BY <1>1, <1>2 DEF HttpInv, Decreffed, DnsType
<1>5. FrameHolds(r) = Buffers(r) \cup {"pipeR"} /\ Elsewhere(r, q) = ThreadHolds(q) \cup {"dnsreq"}
  BY DEF FrameHolds, Elsewhere, SharedHolds
<1>6. IfLast(c) = IF alone THEN {"dnsreq"} ELSE {}
  BY <1>1 DEF CallSound, RefsSound, IfLast
<1>7. ThreadHolds(q) \subseteq {"pipeW"} /\ (alone => ThreadHolds(q) = {}) /\ Buffers(r) \subseteq {"request", "url"}
  BY DEF ThreadHolds, Buffers
<1>8. x.wrong = {} /\ x.live = Buffers(r) \cup ThreadHolds(q) \cup (IF alone THEN {} ELSE {"dnsreq"})
  <2>1. {"pipeR"} \cup IfLast(c) \in SUBSET HttpThings /\ {"pipeR"} \cup IfLast(c) \subseteq r.live
    BY <1>2, <1>5, <1>6, PlacesAndThings
  <2>2. x.live = r.live \ ({"pipeR"} \cup IfLast(c)) /\ x.wrong = {}
    BY <1>2, <2>1, DropsFields
  <2> HIDE DEF alone
  <2> QED BY <1>2, <1>5, <1>6, <1>7, <2>2
<1>9. s.live = FrameHolds(s) \cup ThreadHolds(q2) \cup SharedHolds(s, q2)
  <2>1. ThreadHolds(q2) = ThreadHolds(q) /\ SharedHolds(s, q2) = IF alone THEN {} ELSE {"dnsreq"}
    BY <1>3 DEF ThreadHolds, SharedHolds
  <2> HIDE DEF q2, alone
  <2> QED BY <1>7, <1>8, <2>1
<1> HIDE DEF q2
<1>10. CallSound(s, q2)
  <2>1. RefsSound(s, q2)
    BY <1>1, <1>3 DEF CallSound, RefsSound
  <2> QED BY <1>3, <1>8, <1>9, <2>1 DEF CallSound
<1>11. dnsInflight' = Cardinality(InFlight') /\ dnsInflight' <= DnsThreadCap
  <2>1. InFlight' = InFlight /\ dnsInflight = Cardinality(InFlight) /\ dnsInflight <= DnsThreadCap
    BY <1>3, <1>4 DEF InFlight, HttpInv
  <2> QED BY <2>1
<1> QED BY <1>4, <1>10, <1>11, BothStep

(* The answer arrived, or the task was dropped in the look-up's park.       *)
LEMMA ResolveDoneInv ==
  ASSUME HttpInv, NEW c \in HttpCalls, resolve_done(c)
  PROVE  HttpInv'
<1> DEFINE r == http[c]
           x == Drops(r, {"pipeR"} \cup IfLast(c))
           n == dnsReq[c].answer
<1>1. CallSound(r, dnsReq[c]) /\ r.pc = "dnspark" /\ http' = [http EXCEPT ![c] = Resolved(x, n)]
      /\ dnsReq' = Decreffed(c) /\ dnsInflight' = dnsInflight
  BY DEF HttpInv, resolve_done, Step
<1>2. r \in CallType /\ dnsReq[c] \in DnsType /\ r.scheme # "https_refused"
  BY <1>1 DEF CallSound, SchemeSound
<1>3. n \in Int /\ {"pipeR"} \cup IfLast(c) \in SUBSET HttpThings
  BY <1>2, PlacesAndThings DEF DnsType, IfLast
<1>4. x \in CallType /\ x.scheme = r.scheme /\ x.pc = "dnspark"
  BY <1>1, <1>2, <1>3, DropsFields
<1>5. Buffers(x) = Buffers(r) /\ Buffers(x) \in SUBSET HttpThings
  BY <1>4, PlacesAndThings DEF Buffers, Tcp
<1> HIDE DEF x, n
<1>6. CASE n < 0
  <2> DEFINE s == Returns(x, Buffers(x))
  <2>1. s \in CallType /\ s.pc = "ended" /\ s.scheme = x.scheme /\ s.live = x.live \ Buffers(r)
        /\ s.wrong = x.wrong \cup (Buffers(x) \ x.live)
    BY <1>4, <1>5, ReturnsFields
  <2>2. http' = [http EXCEPT ![c] = s]
    BY <1>1, <1>6 DEF Resolved
  <2>3. Buffers(x) \ x.live = {}
    <3>1. Buffers(r) \subseteq FrameHolds(r) /\ FrameHolds(r) \subseteq r.live
      BY <1>1, Holding DEF FrameHolds
    <3>2. x.live = r.live \ ({"pipeR"} \cup IfLast(c))
      BY <1>2, <1>3, DropsFields DEF x
    <3>3. Buffers(r) \cap ({"pipeR"} \cup IfLast(c)) = {}
      BY DEF Buffers, IfLast
    <3> QED BY <1>5, <3>1, <3>2, <3>3
  <2> HIDE DEF s
  <2>4. FrameHolds(s) = {} /\ SchemeSound(s) /\ s.wrong = x.wrong
    BY <1>4, <1>2, <2>1, <2>3 DEF FrameHolds, SchemeSound, Tcp
  <2>5. s.live = x.live \ (Buffers(r) \ FrameHolds(s))
    BY <2>1, <2>4
  <2> QED BY <1>1, <2>1, <2>2, <2>4, <2>5, LeavesPark DEF x
<1>7. CASE ~(n < 0)
  <2> DEFINE s == [x EXCEPT !.pc = "connect", !.left = n]
  <2>1. s \in CallType /\ s.pc = "connect" /\ s.scheme = x.scheme /\ s.live = x.live /\ s.wrong = x.wrong
    BY <1>3, <1>4, PlacesAndThings DEF CallType
  <2>2. http' = [http EXCEPT ![c] = s]
    BY <1>1, <1>7 DEF Resolved
  <2> HIDE DEF s
  <2>3. FrameHolds(s) = Buffers(r) /\ SchemeSound(s)
    BY <1>2, <1>4, <2>1 DEF FrameHolds, SchemeSound, Buffers, Tcp
  <2>4. s.live = x.live \ (Buffers(r) \ FrameHolds(s))
    BY <2>1, <2>3
  <2> QED BY <1>1, <2>1, <2>2, <2>3, <2>4, LeavesPark DEF x
<1> QED BY <1>6, <1>7

(* The caller of a look-up is dropped: the thread keeps the request.        *)
LEMMA AbandonInv ==
  ASSUME HttpInv, NEW c \in HttpCalls, dns_abandon(c)
  PROVE  HttpInv'
<1> DEFINE r == http[c]
           x == Drops(r, {"pipeR"} \cup IfLast(c))
           yes == TRUE
           s == [x EXCEPT !.pc = "abandoned", !.budget = yes]
<1>1. CallSound(r, dnsReq[c]) /\ r.pc = "dnspark" /\ http' = [http EXCEPT ![c] = s]
      /\ dnsReq' = Decreffed(c) /\ dnsInflight' = dnsInflight
  BY DEF HttpInv, dns_abandon, Step
<1>2. r \in CallType /\ r.scheme # "https_refused" /\ yes \in BOOLEAN
  BY <1>1 DEF CallSound, SchemeSound
<1>3. {"pipeR"} \cup IfLast(c) \in SUBSET HttpThings
  BY PlacesAndThings DEF IfLast
<1>4. x \in CallType /\ x.scheme = r.scheme
  BY <1>2, <1>3, DropsFields
<1> HIDE DEF x, yes
<1>5. s \in CallType /\ s.pc = "abandoned" /\ s.scheme = x.scheme /\ s.live = x.live /\ s.wrong = x.wrong
  BY <1>2, <1>4, PlacesAndThings DEF CallType
<1> HIDE DEF s
<1>6. FrameHolds(s) = Buffers(r) /\ SchemeSound(s)
  BY <1>2, <1>4, <1>5 DEF FrameHolds, SchemeSound, Buffers, Tcp
<1>7. s.live = x.live \ (Buffers(r) \ FrameHolds(s))
  BY <1>5, <1>6
<1> QED BY <1>1, <1>5, <1>6, <1>7, LeavesPark DEF x

-----------------------------------------------------------------------------
(* Connecting and exchanging.                                               *)

(* What is known of a call that is past its look-up.                        *)
LEMMA Past ==
  ASSUME HttpInv, NEW c \in HttpCalls, http[c].pc \notin {"idle", "dnspark"}
  PROVE  LET r == http[c]
             E == Elsewhere(r, dnsReq[c])
         IN  /\ CallSound(r, dnsReq[c]) /\ r \in CallType /\ r.wrong = {}
             /\ r.live = FrameHolds(r) \cup E /\ E \subseteq {"pipeW", "dnsreq"}
             /\ FrameHolds(r) \subseteq HttpThings \ {"pipeW", "dnsreq"} /\ r.live \in SUBSET HttpThings
             /\ r.pc # "ended" => r.scheme # "https_refused"
             /\ SchemeSound(r)
<1>1. CallSound(http[c], dnsReq[c])
  BY DEF HttpInv
<1>2. http[c].pc # "ended" => http[c].scheme # "https_refused"
  BY <1>1 DEF CallSound, SchemeSound
<1>3. FrameHolds(http[c]) \subseteq http[c].live
  BY <1>1, Holding
<1>4. SchemeSound(http[c])
  BY <1>1 DEF CallSound
<1> QED BY <1>1, <1>2, <1>3, <1>4, Holding

(* A return that releases what the frame holds.                             *)
LEMMA ReturnInv ==
  ASSUME HttpInv, NEW c \in HttpCalls, http[c].pc \notin {"idle", "dnspark", "ended"}
  PROVE  CallSound(Returns(http[c], FrameHolds(http[c])), dnsReq[c])
<1> DEFINE r == http[c]
<1>1. FrameHolds(r) \subseteq r.live /\ r.live \ FrameHolds(r) = Elsewhere(r, dnsReq[c])
  BY Past
<1> QED BY <1>1, Past, Leaves

(* A socket is made, before it is known what becomes of it.                 *)
LEMMA SocketFields ==
  ASSUME NEW r \in CallType
  PROVE  LET s == Socket(r)
         IN  /\ s \in CallType /\ s.pc = r.pc /\ s.scheme = r.scheme /\ s.wrong = r.wrong
             /\ s.live = r.live \cup {"fd"}
<1>1. r.left - 1 \in Int /\ r.live \cup {"fd"} \in SUBSET HttpThings
  BY PlacesAndThings DEF CallType
<1>2. Socket(r) = [r EXCEPT !.left = r.left - 1, !.live = r.live \cup {"fd"}]
  BY DEF Socket, CallType
<1> QED BY <1>1, <1>2 DEF CallType

(* The connect loop takes the next address, or gives up.                    *)
LEMMA TriesNextInv ==
  ASSUME HttpInv, NEW c \in HttpCalls, NEW inProgress, TriesNext(c, inProgress),
         http[c].pc = "connect" => CallSound(inProgress, dnsReq[c])
  PROVE  HttpInv'
<1> DEFINE r == http[c]
           q == dnsReq[c]
           y == Socket(r)
           zero == 0
           s == [r EXCEPT !.left = @ - 1]
           t == [y EXCEPT !.pc = "connected", !.left = zero]
<1>1. r.pc = "connect" /\ DnsUnchanged
  BY DEF TriesNext, Step
<1>2. CallSound(r, q) /\ r \in CallType /\ r.wrong = {} /\ r.scheme # "https_refused"
  BY <1>1, Past
<1>3. FrameHolds(r) = Buffers(r) /\ r.live = Buffers(r) \cup Elsewhere(r, q)
  <2>1. FrameHolds(r) = Buffers(r)
    BY <1>1 DEF FrameHolds
  <2> QED BY <1>1, <2>1, Past
<1>4. CASE http' = [http EXCEPT ![c] = Returns(r, Buffers(r))]
  <2>1. CallSound(Returns(r, Buffers(r)), q)
    BY <1>1, <1>3, ReturnInv
  <2> QED BY <1>1, <1>4, <2>1, CallStep
<1>5. CASE http' = [http EXCEPT ![c] = s]
  <2>1. s \in CallType /\ s.pc = "connect" /\ s.scheme = r.scheme /\ s.live = r.live /\ s.wrong = {}
    BY <1>1, <1>2 DEF CallType
  <2> HIDE DEF s
  <2>2. FrameHolds(s) = Buffers(r) /\ SchemeSound(s)
    BY <1>2, <2>1 DEF FrameHolds, SchemeSound, Buffers, Tcp
  <2>3. CallSound(s, q)
    BY <1>1, <1>2, <1>3, <2>1, <2>2, Moves
  <2> QED BY <1>1, <1>5, <2>3, CallStep
<1>6. CASE http' = [http EXCEPT ![c] = t]
  <2>1. y \in CallType /\ y.scheme = r.scheme /\ y.live = r.live \cup {"fd"} /\ y.wrong = {} /\ zero \in Int
    BY <1>2, SocketFields
  <2> HIDE DEF y, zero
  <2>2. t \in CallType /\ t.pc = "connected" /\ t.scheme = r.scheme /\ t.live = r.live \cup {"fd"} /\ t.wrong = {}
    BY <2>1, PlacesAndThings DEF CallType
  <2> HIDE DEF t
  <2>3. FrameHolds(t) = Buffers(r) \cup {"fd"} /\ SchemeSound(t)
    BY <1>2, <2>2 DEF FrameHolds, SchemeSound, Buffers, Tcp
  <2>4. t.live = FrameHolds(t) \cup Elsewhere(r, q)
    BY <1>3, <2>2, <2>3
  <2>5. CallSound(t, q)
    BY <1>1, <1>2, <2>2, <2>3, <2>4, Moves
  <2> QED BY <1>1, <1>6, <2>5, CallStep
<1>7. CASE http' = [http EXCEPT ![c] = inProgress]
  BY <1>1, <1>7, CallStep
<1> QED BY <1>4, <1>5, <1>6, <1>7 DEF TriesNext, Step

(* A connect in progress: the frame parks, or gives up with its budget.     *)
LEMMA ConnectParks ==
  ASSUME HttpInv, NEW c \in HttpCalls, http[c].pc = "connect"
  PROVE  LET s == Socket(http[c])
         IN  /\ CallSound([s EXCEPT !.pc = "connpark"], dnsReq[c])
             /\ CallSound(Returns(s, Buffers(s) \cup {"fd"}), dnsReq[c])
<1> DEFINE r == http[c]
           q == dnsReq[c]
           y == Socket(r)
           s == [y EXCEPT !.pc = "connpark"]
<1>1. CallSound(r, q) /\ r \in CallType /\ r.wrong = {} /\ r.scheme # "https_refused"
  BY Past
<1>2. FrameHolds(r) = Buffers(r)
  BY DEF FrameHolds
<1>3. r.live = Buffers(r) \cup Elsewhere(r, q) /\ Elsewhere(r, q) \subseteq {"pipeW", "dnsreq"}
  BY <1>2, Past
<1>4. y \in CallType /\ y.scheme = r.scheme /\ y.live = r.live \cup {"fd"} /\ y.wrong = {}
  BY <1>1, SocketFields
<1> HIDE DEF y
<1>5. s \in CallType /\ s.pc = "connpark" /\ s.scheme = r.scheme /\ s.live = r.live \cup {"fd"} /\ s.wrong = {}
  BY <1>4, PlacesAndThings DEF CallType
<1> HIDE DEF s
<1>6. FrameHolds(s) = Buffers(r) \cup {"fd"} /\ SchemeSound(s)
  BY <1>1, <1>5 DEF FrameHolds, SchemeSound, Buffers, Tcp
<1>7. CallSound(s, q)
  <2>1. s.live = FrameHolds(s) \cup Elsewhere(r, q)
    BY <1>3, <1>5, <1>6
  <2> QED BY <1>1, <1>5, <1>6, <2>1, Moves
<1>8. CallSound(Returns(y, Buffers(y) \cup {"fd"}), q)
  <2>1. Buffers(y) = Buffers(r) /\ Buffers(r) \subseteq {"request", "url"}
    BY <1>4 DEF Buffers, Tcp
  <2>2. Buffers(y) \cup {"fd"} \subseteq y.live /\ y.live \ (Buffers(y) \cup {"fd"}) = Elsewhere(r, q)
    BY <1>3, <1>4, <2>1
  <2> QED BY <1>1, <1>4, <2>2, Leaves
<1> QED BY <1>7, <1>8 DEF s, y

(* The connect loop of an HTTP call.                                        *)
LEMMA HttpConnectInv ==
  ASSUME HttpInv, NEW c \in HttpCalls, http_connect(c)
  PROVE  HttpInv'
<1> DEFINE s == Socket(http[c])
<1>1. http[c].pc = "connect" =>
        CallSound(Park(s, "connpark", Returns(s, Buffers(s) \cup {"fd"})), dnsReq[c])
  BY ConnectParks DEF Park
<1> QED BY <1>1, TriesNextInv DEF http_connect

(* The connect loop of tcp_connect.                                         *)
LEMMA TcpConnectInv ==
  ASSUME HttpInv, NEW c \in HttpCalls, tcp_connect(c)
  PROVE  HttpInv'
<1>1. http[c].pc = "connect" => CallSound([Socket(http[c]) EXCEPT !.pc = "connpark"], dnsReq[c])
  BY ConnectParks
<1> QED BY <1>1, TriesNextInv DEF tcp_connect

(* Both ways out of http_park.                                              *)
LEMMA ParkEndsInv ==
  ASSUME HttpInv, NEW c \in HttpCalls, NEW ready, NEW expired, http_park(c, ready, expired), DnsUnchanged,
         CallSound(ready, dnsReq[c]), CallSound(expired, dnsReq[c])
  PROVE  HttpInv'
  BY CallStep DEF http_park, Step

(* A parked connect is resumed.                                             *)
LEMMA ConnectParkedInv ==
  ASSUME HttpInv, NEW c \in HttpCalls, http_connect_parked(c)
  PROVE  HttpInv'
<1> DEFINE r == http[c]
           q == dnsReq[c]
           zero == 0
           d == Drops(r, {"fd"})
           s == [d EXCEPT !.pc = "connect"]
           t == [r EXCEPT !.pc = "connected", !.left = zero]
<1>1. r.pc = "connpark" /\ DnsUnchanged
  BY DEF http_connect_parked
<1>2. CallSound(r, q) /\ r \in CallType /\ r.wrong = {} /\ r.scheme # "https_refused"
  BY <1>1, Past
<1>3. FrameHolds(r) = Buffers(r) \cup {"fd"}
  BY <1>1 DEF FrameHolds
<1>4. r.live = Buffers(r) \cup {"fd"} \cup Elsewhere(r, q) /\ Elsewhere(r, q) \subseteq {"pipeW", "dnsreq"}
      /\ Buffers(r) \subseteq {"request", "url"}
  BY <1>1, <1>3, Past DEF Buffers
<1>5. CallSound(s, q)
  <2>1. d \in CallType /\ d.scheme = r.scheme /\ d.live = r.live \ {"fd"} /\ d.wrong = {}
    BY <1>2, <1>4, PlacesAndThings, DropsFields
  <2> HIDE DEF d
  <2>2. s \in CallType /\ s.pc = "connect" /\ s.scheme = r.scheme /\ s.live = r.live \ {"fd"} /\ s.wrong = {}
    BY <2>1, PlacesAndThings DEF CallType
  <2> HIDE DEF s
  <2>3. FrameHolds(s) = Buffers(r) /\ SchemeSound(s)
    BY <1>2, <2>2 DEF FrameHolds, SchemeSound, Buffers, Tcp
  <2>4. s.live = FrameHolds(s) \cup Elsewhere(r, q)
    BY <1>4, <2>2, <2>3
  <2> QED BY <1>1, <1>2, <2>2, <2>3, <2>4, Moves
<1>6. CallSound(t, q)
  <2>1. zero \in Int
    OBVIOUS
  <2> HIDE DEF zero
  <2>2. t \in CallType /\ t.pc = "connected" /\ t.scheme = r.scheme /\ t.live = r.live /\ t.wrong = {}
    BY <1>2, <2>1, PlacesAndThings DEF CallType
  <2> HIDE DEF t
  <2>3. FrameHolds(t) = Buffers(r) \cup {"fd"} /\ SchemeSound(t)
    BY <1>2, <2>2 DEF FrameHolds, SchemeSound, Buffers, Tcp
  <2>4. t.live = FrameHolds(t) \cup Elsewhere(r, q)
    BY <1>4, <2>2, <2>3
  <2> QED BY <1>1, <1>2, <2>2, <2>3, <2>4, Moves
<1>7. CallSound(Returns(r, {"fd"} \cup Buffers(r)), q)
  <2>1. {"fd"} \cup Buffers(r) = FrameHolds(r)
    BY <1>3
  <2> QED BY <1>1, <2>1, ReturnInv
<1> HIDE DEF s, t
<1>8. PICK soerr \in BOOLEAN : http_park(c, IF soerr THEN s ELSE t, Returns(r, {"fd"} \cup Buffers(r)))
  BY DEF http_connect_parked, s, t
<1>9. CallSound(IF soerr THEN s ELSE t, q)
  BY <1>5, <1>6
<1> QED BY <1>1, <1>7, <1>8, <1>9, ParkEndsInv

(* A connected socket is installed in the handle table, or refused.         *)
LEMMA TcpInstallInv ==
  ASSUME HttpInv, NEW c \in HttpCalls, tcp_install(c)
  PROVE  HttpInv'
<1> DEFINE r == http[c]
           q == dnsReq[c]
           s == [r EXCEPT !.pc = "ended", !.live = @ \ {"fd"}]
<1>1. r.pc = "connected" /\ r.scheme = "tcp" /\ DnsUnchanged
  BY DEF tcp_install, Step, Tcp
<1>2. CallSound(r, q) /\ r \in CallType /\ r.wrong = {}
  BY <1>1, Past
<1>3. FrameHolds(r) = {"fd"}
  BY <1>1 DEF FrameHolds, Buffers, Tcp, Tls
<1>4. r.live = {"fd"} \cup Elsewhere(r, q) /\ Elsewhere(r, q) \subseteq {"pipeW", "dnsreq"}
  BY <1>1, <1>3, Past
<1>5. CallSound(s, q)
  <2>1. r.live \ {"fd"} \in SUBSET HttpThings
    BY <1>1, Past
  <2>2. s \in CallType /\ s.pc = "ended" /\ s.scheme = r.scheme /\ s.live = r.live \ {"fd"} /\ s.wrong = {}
    BY <1>2, <2>1, PlacesAndThings DEF CallType
  <2> HIDE DEF s
  <2>3. FrameHolds(s) = {} /\ SchemeSound(s)
    BY <1>1, <2>2 DEF FrameHolds, SchemeSound, Tcp
  <2>4. s.live = FrameHolds(s) \cup Elsewhere(r, q)
    BY <1>4, <2>2, <2>3
  <2> QED BY <1>1, <1>2, <2>2, <2>3, <2>4, Moves
<1>6. CallSound(Returns(r, {"fd"}), q)
  BY <1>1, <1>3, ReturnInv
<1> QED BY <1>1, <1>5, <1>6, CallStep DEF tcp_install, Step

(* The handshake, at its first step or after a park.                        *)
LEMMA HandshakeInv ==
  ASSUME HttpInv, NEW c \in HttpCalls, tls_handshake(c)
  PROVE  HttpInv'
<1> DEFINE r == http[c]
           q == dnsReq[c]
           E == Elsewhere(r, q)
           x == [r EXCEPT !.live = @ \cup {"tls"}]
           all == Buffers(r) \cup {"fd", "tls"}
<1>1. r.pc \in {"connected", "handshake"} /\ r.scheme = "https" /\ DnsUnchanged
  BY DEF tls_handshake, Tls
<1>2. CallSound(r, q) /\ r \in CallType /\ r.wrong = {} /\ r.live \in SUBSET HttpThings
  BY <1>1, Past
<1>3. Buffers(r) = {"request", "url"}
  BY <1>1 DEF Buffers, Tcp
<1>4. FrameHolds(r) = Buffers(r) \cup {"fd"} \cup (IF r.pc = "handshake" THEN {"tls"} ELSE {})
  BY <1>1 DEF FrameHolds, Tls
<1>5. r.live = FrameHolds(r) \cup E /\ E \subseteq {"pipeW", "dnsreq"}
  BY <1>1, Past
<1>6. x \in CallType /\ x.scheme = r.scheme /\ x.live = all \cup E /\ x.wrong = {}
  <2>1. r.live \cup {"tls"} \in SUBSET HttpThings
    BY <1>2, PlacesAndThings
  <2>2. x \in CallType /\ x.scheme = r.scheme /\ x.live = r.live \cup {"tls"} /\ x.wrong = {}
    BY <1>2, <2>1 DEF CallType
  <2> HIDE DEF E, x
  <2>3. r.live \cup {"tls"} = all \cup E
    BY <1>4, <1>5
  <2> QED BY <2>2, <2>3
<1> HIDE DEF x, E
<1>7. ASSUME NEW p \in {"send", "handpark"} PROVE CallSound([x EXCEPT !.pc = p], q)
  <2> DEFINE s == [x EXCEPT !.pc = p]
  <2>1. p \in HttpPlaces
    BY PlacesAndThings
  <2>2. s \in CallType /\ s.pc = p /\ s.scheme = r.scheme /\ s.live = all \cup E /\ s.wrong = {}
    BY <1>6, <2>1 DEF CallType
  <2> HIDE DEF s
  <2>3. FrameHolds(s) = all /\ SchemeSound(s)
    BY <1>1, <1>3, <2>2 DEF FrameHolds, SchemeSound, Buffers, Tcp, Tls
  <2>4. s.live = FrameHolds(s) \cup E
    BY <2>2, <2>3
  <2>5. CallSound(s, q)
    BY <1>1, <1>2, <2>2, <2>3, <2>4, Moves DEF E
  <2> QED BY <2>5 DEF s
<1>8. CallSound(Returns(x, all), q)
  <2>1. all \subseteq x.live /\ x.live \ all = E
    BY <1>3, <1>5, <1>6
  <2> QED BY <1>1, <1>2, <1>6, <2>1, Leaves DEF E
<1>9. r.pc = "connected" => CallSound(Returns(r, Buffers(r) \cup {"fd"}), q)
  BY <1>4, ReturnInv
<1>10. \E t : http' = [http EXCEPT ![c] = t] /\ CallSound(t, q)
  <2>1. CASE r.pc = "connected" /\ http' = [http EXCEPT ![c] = Returns(r, Buffers(r) \cup {"fd"})]
    BY <1>9, <2>1
  <2>2. CASE http' = [http EXCEPT ![c] = [x EXCEPT !.pc = "send"]]
    BY <1>7, <2>2
  <2>3. CASE http' = [http EXCEPT ![c] = Park(x, "handpark", Returns(x, all))]
    BY <1>7, <1>8, <2>3 DEF Park
  <2>4. CASE http' = [http EXCEPT ![c] = Returns(x, all)]
    BY <1>8, <2>4
  <2> QED BY <2>1, <2>2, <2>3, <2>4 DEF tls_handshake, Step, x
<1> QED BY <1>1, <1>10, CallStep

(* A parked TLS handshake is resumed, or its budget is used up.             *)
LEMMA TlsParkInv ==
  ASSUME HttpInv, NEW c \in HttpCalls, tls_park(c)
  PROVE  HttpInv'
<1> DEFINE r == http[c]
           s == [r EXCEPT !.pc = "handshake"]
<1>1. r.pc = "handpark" /\ DnsUnchanged
  BY DEF tls_park
<1>2. SchemeSound(r) /\ r \in CallType
  BY <1>1, Past
<1>3. r.scheme = "https"
  BY <1>1, <1>2 DEF SchemeSound, Tls
<1>4. FrameHolds(r) = Buffers(r) \cup {"fd", "tls"}
  BY <1>1, <1>3 DEF FrameHolds, Tls
<1>5. CallSound(s, dnsReq[c])
  <2>1. s.pc = "handshake" /\ s.scheme = r.scheme
    BY <1>2 DEF CallType
  <2>2. FrameHolds(s) = FrameHolds(r) /\ SchemeSound(s)
    BY <1>3, <1>4, <2>1 DEF FrameHolds, SchemeSound, Buffers, Tcp, Tls
  <2> QED BY <1>1, <2>2, PlacesAndThings, PlaceMoves
<1>6. CallSound(Returns(r, Buffers(r) \cup {"fd", "tls"}), dnsReq[c])
  BY <1>1, <1>4, ReturnInv
<1> QED BY <1>1, <1>5, <1>6, ParkEndsInv DEF tls_park

(* Sending: what the frame holds is SendHeld at every place of this phase.  *)
LEMMA SendHolds ==
  ASSUME NEW r, SchemeSound(r),
         \/ r.pc \in {"send", "sendpark"}
         \/ r.pc = "connected" /\ r.scheme = "http"
  PROVE  /\ FrameHolds(r) = SendHeld(r) /\ r.scheme \notin {"tcp"}
  BY DEF FrameHolds, SendHeld, Tls, Tcp, SchemeSound

(* `sent` is the call once its text is sent: the plain path has freed it.   *)
LEMMA SendsInv ==
  ASSUME HttpInv, NEW c \in HttpCalls, NEW sent, Sends(c, sent),
         \/ http[c].pc \in {"send", "sendpark"}
         \/ http[c].pc = "connected" /\ http[c].scheme = "http",
         \/ Tls(http[c]) /\ sent = http[c]
         \/ ~Tls(http[c]) /\ sent = Drops(http[c], {"request"})
  PROVE  HttpInv'
<1> DEFINE r == http[c]
           q == dnsReq[c]
           s == [sent EXCEPT !.pc = "recv"]
           t == [r EXCEPT !.pc = "sendpark"]
<1>1. r.pc \notin {"idle", "resolve", "dnspark", "ended"} /\ DnsUnchanged
  BY DEF Sends
<1>2. CallSound(r, q) /\ r \in CallType /\ r.wrong = {} /\ SchemeSound(r) /\ r.scheme # "https_refused"
  BY <1>1, Past
<1>3. FrameHolds(r) = SendHeld(r) /\ r.scheme # "tcp"
  BY <1>2, SendHolds
<1>4. r.live = SendHeld(r) \cup Elsewhere(r, q) /\ Elsewhere(r, q) \subseteq {"pipeW", "dnsreq"}
  BY <1>1, <1>3, Past
<1>5. SendHeld(r) = {"request", "url", "fd"} \cup (IF Tls(r) THEN {"tls"} ELSE {})
  BY <1>3 DEF SendHeld, Buffers, Tcp
<1>6. CallSound(s, q)
  <2>1. sent \in CallType /\ sent.scheme = r.scheme /\ sent.wrong = {}
        /\ sent.live = IF Tls(r) THEN r.live ELSE r.live \ {"request"}
    <3>1. {"request"} \in SUBSET HttpThings /\ {"request"} \subseteq r.live
      BY <1>4, <1>5, PlacesAndThings
    <3>2. CASE Tls(r) /\ sent = r
      BY <1>2, <3>2
    <3>3. CASE ~Tls(r) /\ sent = Drops(r, {"request"})
      <4> DEFINE d == Drops(r, {"request"})
      <4>1. /\ d \in CallType /\ d.scheme = r.scheme /\ d.live = r.live \ {"request"}
            /\ d.wrong = r.wrong \cup ({"request"} \ r.live)
        BY <1>2, <3>1, DropsFields
      <4> HIDE DEF d
      <4>2. sent = d
        BY <3>3 DEF d
      <4>3. d.wrong = {}
        BY <1>2, <3>1, <4>1
      <4> QED BY <3>3, <4>1, <4>2, <4>3
    <3> QED BY <3>2, <3>3
  <2>2. s \in CallType /\ s.pc = "recv" /\ s.scheme = r.scheme /\ s.live = sent.live /\ s.wrong = {}
    BY <2>1, PlacesAndThings DEF CallType
  <2> HIDE DEF s
  <2>3. Tls(s) = Tls(r)
    BY <2>2 DEF Tls
  <2>4. FrameHolds(s) = {"url", "fd"} \cup (IF Tls(r) THEN {"request", "tls"} ELSE {})
    <3>1. "response" \notin s.live
      BY <1>4, <1>5, <2>1, <2>2
    <3>2. FrameHolds(s) = {"url"} \cup (IF Tls(s) THEN {"request"} ELSE {}) \cup (s.live \cap {"response"})
                            \cup {"fd"} \cup (IF Tls(s) THEN {"tls"} ELSE {})
      BY <2>2 DEF FrameHolds
    <3>3. s.live \cap {"response"} = {}
      BY <3>1
    <3> QED BY <2>3, <3>2, <3>3
  <2>5. s.live = FrameHolds(s) \cup Elsewhere(r, q)
    BY <1>4, <1>5, <2>1, <2>2, <2>4
  <2>6. SchemeSound(s)
    BY <1>2, <1>3, <2>2 DEF SchemeSound, Tcp
  <2> QED BY <1>1, <1>2, <2>2, <2>5, <2>6, Moves
<1>7. CallSound(t, q)
  <2>1. t.pc = "sendpark" /\ t.scheme = r.scheme
    BY <1>2 DEF CallType
  <2>2. SchemeSound(t)
    BY <1>2, <1>3, <2>1 DEF SchemeSound, Tcp
  <2>3. FrameHolds(t) = SendHeld(r)
    BY <2>1, <2>2, SendHolds DEF SendHeld, Buffers, Tcp, Tls
  <2> QED BY <1>1, <1>3, <2>2, <2>3, PlacesAndThings, PlaceMoves
<1>8. CallSound(Returns(r, SendHeld(r)), q)
  BY <1>1, <1>3, ReturnInv
<1> HIDE DEF s, t
<1>9. CallSound(Park(r, "sendpark", Returns(r, SendHeld(r))), q)
  BY <1>7, <1>8 DEF Park, t
<1> QED BY <1>1, <1>6, <1>8, <1>9, CallStep DEF Sends, Step, s

(* The request is written, in clear or through TLS.                         *)
LEMMA HttpSendInv ==
  ASSUME HttpInv, NEW c \in HttpCalls, http_send(c) \/ tls_write_all(c)
  PROVE  HttpInv'
<1>1. CASE http_send(c)
  BY <1>1, SendsInv DEF http_send, Tls
<1>2. CASE tls_write_all(c)
  BY <1>2, SendsInv DEF tls_write_all
<1> QED BY <1>1, <1>2

(* A parked send is resumed.                                                *)
LEMMA SendParkedInv ==
  ASSUME HttpInv, NEW c \in HttpCalls, http_send_parked(c)
  PROVE  HttpInv'
<1> DEFINE r == http[c]
           s == [r EXCEPT !.pc = "send"]
<1>1. r.pc = "sendpark" /\ DnsUnchanged
  BY DEF http_send_parked
<1>2. r \in CallType /\ SchemeSound(r) /\ r.scheme # "https_refused"
  BY <1>1, Past
<1>3. FrameHolds(r) = SendHeld(r) /\ r.scheme # "tcp"
  BY <1>1, <1>2, SendHolds
<1>4. CallSound(s, dnsReq[c])
  <2>1. s.pc = "send" /\ s.scheme = r.scheme
    BY <1>2 DEF CallType
  <2>2. SchemeSound(s)
    BY <1>2, <1>3, <2>1 DEF SchemeSound, Tcp
  <2>3. FrameHolds(s) = SendHeld(r)
    BY <2>1, <2>2, SendHolds DEF SendHeld, Buffers, Tcp, Tls
  <2> QED BY <1>1, <1>3, <2>2, <2>3, PlacesAndThings, PlaceMoves
<1>5. CallSound(Returns(r, SendHeld(r)), dnsReq[c])
  BY <1>1, <1>3, ReturnInv
<1> QED BY <1>1, <1>4, <1>5, ParkEndsInv DEF http_send_parked

(* Receiving: what the frame holds is RecvHeld.                             *)
LEMMA RecvHolds ==
  ASSUME NEW r, r.pc \in {"recv", "recvpark"}
  PROVE  FrameHolds(r) = RecvHeld(r)
<1>1. FrameHolds(r) = {"url"} \cup (IF Tls(r) THEN {"request"} ELSE {}) \cup (r.live \cap {"response"})
                        \cup {"fd"} \cup (IF Tls(r) THEN {"tls"} ELSE {})
  BY DEF FrameHolds
<1> QED BY <1>1 DEF RecvHeld

(* The receive loop takes a piece, ends or parks.                           *)
LEMMA ReceivesInv ==
  ASSUME HttpInv, NEW c \in HttpCalls, Receives(c)
  PROVE  HttpInv'
<1> DEFINE r == http[c]
           q == dnsReq[c]
           s == [r EXCEPT !.got = @ + 1, !.live = @ \cup {"response"}]
           t == [r EXCEPT !.pc = "recvpark"]
<1>1. r.pc = "recv" /\ DnsUnchanged
  BY DEF Receives, Step
<1>2. CallSound(r, q) /\ r \in CallType /\ r.wrong = {} /\ SchemeSound(r) /\ r.scheme # "https_refused"
  BY <1>1, Past
<1>3. FrameHolds(r) = RecvHeld(r) /\ r.scheme # "tcp"
  BY <1>1, <1>2, RecvHolds DEF SchemeSound, Tcp
<1>4. r.live = RecvHeld(r) \cup Elsewhere(r, q) /\ r.live \in SUBSET HttpThings
  BY <1>1, <1>3, Past
<1>5. CallSound(s, q)
  <2>1. r.got + 1 \in Nat /\ r.live \cup {"response"} \in SUBSET HttpThings
    BY <1>2, <1>4, PlacesAndThings DEF CallType
  <2>2. s \in CallType /\ s.pc = "recv" /\ s.scheme = r.scheme /\ s.live = r.live \cup {"response"} /\ s.wrong = {}
    BY <1>1, <1>2, <2>1 DEF CallType
  <2> HIDE DEF s
  <2>3. FrameHolds(s) = RecvHeld(s) /\ SchemeSound(s)
    BY <1>2, <1>3, <2>2, RecvHolds DEF SchemeSound, Tcp
  <2>4. RecvHeld(s) = RecvHeld(r) \cup {"response"}
    <3>1. Tls(s) = Tls(r) /\ s.live \cap {"response"} = {"response"}
      BY <2>2 DEF Tls
    <3> QED BY <3>1 DEF RecvHeld
  <2>5. s.live = FrameHolds(s) \cup Elsewhere(r, q)
    BY <1>4, <2>2, <2>3, <2>4
  <2> QED BY <1>1, <1>2, <2>2, <2>3, <2>5, Moves
<1>6. CallSound(t, q)
  <2>1. t.pc = "recvpark" /\ t.scheme = r.scheme /\ t.live = r.live
    BY <1>2 DEF CallType
  <2>2. SchemeSound(t)
    BY <1>2, <1>3, <2>1 DEF SchemeSound, Tcp
  <2>3. FrameHolds(t) = RecvHeld(r)
    <3> HIDE DEF t
    <3>1. FrameHolds(t) = RecvHeld(t)
      BY <2>1, RecvHolds
    <3> QED BY <2>1, <3>1 DEF RecvHeld, Tls
  <2> QED BY <1>1, <1>3, <2>2, <2>3, PlacesAndThings, PlaceMoves
<1>7. CallSound(Returns(r, RecvHeld(r)), q)
  BY <1>1, <1>3, ReturnInv
<1> HIDE DEF s, t
<1>8. CallSound(Park(r, "recvpark", Returns(r, RecvHeld(r))), q)
  BY <1>6, <1>7 DEF Park, t
<1> QED BY <1>1, <1>5, <1>7, <1>8, CallStep DEF Receives, Step, s

(* A parked receive is resumed.                                             *)
LEMMA RecvParkedInv ==
  ASSUME HttpInv, NEW c \in HttpCalls, http_recv_parked(c)
  PROVE  HttpInv'
<1> DEFINE r == http[c]
           s == [r EXCEPT !.pc = "recv"]
<1>1. r.pc = "recvpark" /\ DnsUnchanged
  BY DEF http_recv_parked
<1>2. r \in CallType /\ SchemeSound(r) /\ r.scheme # "https_refused"
  BY <1>1, Past
<1>3. FrameHolds(r) = RecvHeld(r) /\ r.scheme # "tcp"
  BY <1>1, <1>2, RecvHolds DEF SchemeSound, Tcp
<1>4. CallSound(s, dnsReq[c])
  <2>1. s.pc = "recv" /\ s.scheme = r.scheme /\ s.live = r.live
    BY <1>2 DEF CallType
  <2>2. SchemeSound(s)
    BY <1>2, <1>3, <2>1 DEF SchemeSound, Tcp
  <2>3. FrameHolds(s) = RecvHeld(r)
    <3> HIDE DEF s
    <3>1. FrameHolds(s) = RecvHeld(s)
      BY <2>1, RecvHolds
    <3> QED BY <2>1, <3>1 DEF RecvHeld, Tls
  <2> QED BY <1>1, <1>3, <2>2, <2>3, PlacesAndThings, PlaceMoves
<1>5. CallSound(Returns(r, RecvHeld(r)), dnsReq[c])
  BY <1>1, <1>3, ReturnInv
<1> QED BY <1>1, <1>4, <1>5, ParkEndsInv DEF http_recv_parked

(* The cancel hook releases exactly what a parked frame holds.              *)
LEMMA HookReleases ==
  ASSUME HttpInv, NEW c \in HttpCalls, http[c].pc \in Parks
  PROVE  {"fd"} \cup http_release_in_flight(http[c]) = FrameHolds(http[c])
<1> DEFINE r == http[c]
<1>1. SchemeSound(r) /\ r.live = FrameHolds(r) \cup Elsewhere(r, dnsReq[c])
      /\ Elsewhere(r, dnsReq[c]) \subseteq {"pipeW", "dnsreq"}
  BY Past DEF Parks
<1>2. CASE r.pc = "recvpark"
  <2>1. r.scheme # "tcp"
    BY <1>1, <1>2 DEF SchemeSound, Tcp
  <2>2. FrameHolds(r) = RecvHeld(r)
    BY <1>2, RecvHolds
  <2>3. "tls" \in r.live <=> Tls(r)
    <3>1. "tls" \in RecvHeld(r) <=> Tls(r)
      BY DEF RecvHeld
    <3>2. "tls" \notin Elsewhere(r, dnsReq[c])
      BY <1>1
    <3> QED BY <1>1, <2>2, <3>1, <3>2
  <2>4. http_release_in_flight(r) = {"url"} \cup (IF Tls(r) THEN {"request", "url"} ELSE {})
                                      \cup (r.live \cap {"response", "tls"})
    BY <1>2, <2>1 DEF http_release_in_flight, Tcp, Buffers
  <2> QED BY <2>2, <2>3, <2>4 DEF RecvHeld
<1>3. CASE r.pc \in {"connpark", "sendpark", "handpark"}
  <2>1. FrameHolds(r) = Buffers(r) \cup {"fd"} \cup (IF Tls(r) /\ r.pc # "connpark" THEN {"tls"} ELSE {})
    BY <1>3 DEF FrameHolds
  <2>2. r.live \cap {"response", "tls"} = IF Tls(r) /\ r.pc # "connpark" THEN {"tls"} ELSE {}
    BY <1>1, <2>1 DEF Buffers
  <2>3. http_release_in_flight(r) = Buffers(r) \cup (r.live \cap {"response", "tls"})
    BY <1>1, <1>3 DEF http_release_in_flight, Buffers, Tcp, Tls, SchemeSound
  <2> QED BY <2>1, <2>2, <2>3
<1> QED BY <1>2, <1>3 DEF Parks

(* A parked call is dropped by a cancel or a deadline.                      *)
LEMMA DroppedInv ==
  ASSUME HttpInv, NEW c \in HttpCalls, http_dropped(c)
  PROVE  HttpInv'
<1> DEFINE r == http[c]
           q == dnsReq[c]
           x == Returns(r, FrameHolds(r))
           s == [x EXCEPT !.pc = "dropped"]
<1>1. r.pc \in Parks /\ DnsUnchanged
  BY DEF http_dropped
<1>2. r.pc \notin {"idle", "resolve", "dnspark", "ended"}
  BY <1>1 DEF Parks
<1>3. CallSound(r, q) /\ r \in CallType /\ r.wrong = {} /\ r.scheme # "https_refused"
      /\ r.live = FrameHolds(r) \cup Elsewhere(r, q) /\ FrameHolds(r) \in SUBSET HttpThings
      /\ Elsewhere(r, q) \cap FrameHolds(r) = {}
  BY <1>2, Past
<1>4. http' = [http EXCEPT ![c] = s]
  BY <1>1, HookReleases DEF http_dropped
<1>5. x \in CallType /\ x.scheme = r.scheme /\ x.live = r.live \ FrameHolds(r) /\ x.wrong = {}
  BY <1>3, ReturnsFields
<1> HIDE DEF x
<1>6. s \in CallType /\ s.pc = "dropped" /\ s.scheme = r.scheme /\ s.live = Elsewhere(r, q) /\ s.wrong = {}
  <2>1. x.live = Elsewhere(r, q)
    BY <1>3, <1>5
  <2> QED BY <1>5, <2>1, PlacesAndThings DEF CallType
<1> HIDE DEF s
<1>7. FrameHolds(s) = {} /\ SchemeSound(s)
  BY <1>3, <1>6 DEF FrameHolds, SchemeSound, Tcp
<1>8. CallSound(s, q)
  BY <1>2, <1>3, <1>6, <1>7, Moves
<1> QED BY <1>1, <1>4, <1>8, CallStep

(* Time passing changes nothing that is held.                               *)
LEMMA BudgetInv ==
  ASSUME HttpInv, NEW c \in HttpCalls, BudgetSpent(c)
  PROVE  HttpInv'
<1> DEFINE r == http[c]
           no == FALSE
           s == [r EXCEPT !.budget = no]
<1>1. CallSound(r, dnsReq[c]) /\ r \in CallType /\ no \in BOOLEAN
  BY DEF HttpInv, CallSound
<1>2. http' = [http EXCEPT ![c] = s] /\ DnsUnchanged
  BY DEF BudgetSpent, HttpInv
<1> HIDE DEF no
<1>3. s \in CallType /\ s.pc = r.pc /\ s.scheme = r.scheme /\ s.live = r.live /\ s.wrong = r.wrong
  BY <1>1 DEF CallType
<1> HIDE DEF s
<1>4. FrameHolds(s) = FrameHolds(r)
  BY <1>3 DEF FrameHolds, Buffers, Tls, Tcp
<1>5. CallSound(s, dnsReq[c])
  BY <1>1, <1>3, <1>4 DEF CallSound, SharedHolds, RefsSound, SchemeSound, Tls, Tcp
<1> QED BY <1>2, <1>5, CallStep

-----------------------------------------------------------------------------
(* Every step keeps the invariant.                                          *)
LEMMA HttpNextInv == HttpInv /\ [HttpNext]_httpVars => HttpInv'
<1> SUFFICES ASSUME HttpInv, [HttpNext]_httpVars PROVE HttpInv'
  OBVIOUS
<1>1. CASE UNCHANGED httpVars
  BY <1>1 DEF httpVars, HttpInv, InFlight
<1>2. ASSUME NEW c \in HttpCalls, HttpTaskStep(c) PROVE HttpInv'
  <2>1. CASE dns_try_numeric(c)
    BY <2>1, ResolvedInv DEF dns_try_numeric
  <2>2. CASE resolve_here(c)
    <3>1. PICK n \in Answers : Step(c, "resolve", Resolved(http[c], n))
      BY <2>2 DEF resolve_here
    <3>2. n \in Int /\ DnsUnchanged
      BY <2>2 DEF resolve_here, Answers
    <3> QED BY <3>1, <3>2, ResolvedInv
  <2>3. CASE http_recv(c) \/ tls_read_append(c)
    BY <2>3, ReceivesInv DEF http_recv, tls_read_append
  <2> QED BY <1>2, <2>1, <2>2, <2>3, BuildInv, OnThreadInv, ResolveDoneInv, HttpConnectInv, TcpConnectInv,
          TcpInstallInv, HandshakeInv, HttpSendInv DEF HttpTaskStep
<1>3. ASSUME NEW c \in HttpCalls, HttpParkEnds(c) PROVE HttpInv'
  BY <1>3, ConnectParkedInv, TlsParkInv, SendParkedInv, RecvParkedInv DEF HttpParkEnds
<1>4. ASSUME NEW c \in HttpCalls, DnsThread(c) PROVE HttpInv'
  BY <1>4, LookupInv, DnsCloseInv, DnsDecrefInv DEF DnsThread
<1> QED BY <1>1, <1>2, <1>3, <1>4, AbandonInv, DroppedInv, BudgetInv DEF HttpNext

(* What a call holds, at every place of its code and whatever its resolver  *)
(* thread does, is exactly what the code's exits release.                   *)
THEOREM HttpInvariant == HttpSpec => []HttpInv
  BY HttpInitInv, HttpNextInv, PTL DEF HttpSpec

(* Nothing is released twice, and a call that is over holds nothing, unless *)
(* it was cancelled during its look-up (see HttpCancelLeaksNothing).        *)
THEOREM HttpReleases == HttpSpec => []HttpReleasedOnce
<1>1. HttpInv => HttpReleasedOnce
  <2> SUFFICES ASSUME HttpInv, NEW c \in HttpCalls
               PROVE  /\ http[c].wrong = {}
                      /\ HttpOver(c) /\ http[c].pc # "abandoned" => http[c].live = {}
    BY DEF HttpReleasedOnce
  <2>1. CallSound(http[c], dnsReq[c])
    BY DEF HttpInv
  <2> QED BY <2>1 DEF CallSound, HttpOver, FrameHolds, ThreadHolds, SharedHolds
<1> QED BY <1>1, HttpInvariant, PTL

(* The DnsRequest lives exactly as long as the frame or the thread refers   *)
(* to it, and the count of threads in flight is exact and below its cap.    *)
THEOREM DnsSafety == HttpSpec => []DnsSound
<1>1. HttpInv => DnsSound
  <2> SUFFICES ASSUME HttpInv PROVE DnsSound
    OBVIOUS
  <2>1. ASSUME NEW c \in HttpCalls
        PROVE  ("dnsreq" \in http[c].live) <=> (http[c].pc = "dnspark" \/ dnsReq[c].thread # "none")
    <3>1. CallSound(http[c], dnsReq[c])
      BY DEF HttpInv
    <3> QED BY <3>1, Holding DEF Elsewhere, ThreadHolds, SharedHolds
  <2> QED BY <2>1 DEF DnsSound, HttpInv, InFlight
<1> QED BY <1>1, HttpInvariant, PTL

-----------------------------------------------------------------------------
(* Proofs about TcpServer, for a connection table, a descriptor limit and a *)
(* streak of any size.                                                      *)
(*                                                                          *)
(* None of the three properties is inductive alone.  What they need is the  *)
(* discipline of the one thread: the accepting task is in the middle of     *)
(* tcp_accept only while it has the CPU (AccSound), and a task is in the    *)
(* ready queue at most once and only when it was woken (ReadySound).        *)

HIDE HttpAssumption
USE TcpAssumption

AccPlaces  == {"call", "accept", "install", "shed", "parked", "woken", "ended"}
ConnPlaces == {"none", "ready", "run", "parked", "close"}
ConnOps    == {"none", "send", "send_idle", "read_exact", "wait"}

AccType  == [pc : AccPlaces, streak : Nat, shed : Nat, held : BOOLEAN]
ConnType == [used : BOOLEAN, at : ConnPlaces, op : ConnOps, left : Int, due : BOOLEAN, expired : BOOLEAN,
             timer : BOOLEAN, idle : BOOLEAN, unarmed : BOOLEAN, verdict : {"none", "timeout"}]
FdsType  == [open : Int, reserve : BOOLEAN, others : Int]

TcpType ==
  /\ tcpCpu \in TcpTable \cup {Acceptor, Pump}
  /\ tcpReady \in Seq(TcpTable \cup {Acceptor})
  /\ tcpAcc \in AccType
  /\ tcpConn \in [TcpTable -> ConnType]
  /\ tcpFds \in FdsType
  /\ tcpBacklog \in Int /\ tcpRun \in Nat

(* The accepting task: what its place says of its locals, of the reserve    *)
(* and of the connections accepted since the last poll.                     *)
AccSound ==
  /\ tcpCpu # Acceptor => tcpAcc.pc \in {"parked", "woken", "ended"}
  /\ tcpAcc.pc \in {"parked", "woken", "ended"} => tcpCpu # Acceptor
  /\ tcpAcc.held <=> tcpAcc.pc = "install"
  /\ tcpAcc.pc = "shed" => ~tcpFds.reserve
  /\ tcpAcc.pc \in {"accept", "install", "shed"} => tcpAcc.streak < AcceptStreak
  /\ tcpAcc.pc \in {"parked", "woken"} => tcpAcc.streak = 0
  /\ tcpAcc.pc # "parked" => tcpRun <= tcpAcc.streak
  /\ tcpAcc.streak <= AcceptStreak /\ tcpRun <= AcceptStreak

(* The ready queue: nobody twice, and only who was woken. *)
ReadySound ==
  /\ \A i, j \in 1..Len(tcpReady) : tcpReady[i] = tcpReady[j] => i = j
  /\ \A i \in 1..Len(tcpReady) :
       /\ tcpReady[i] = Acceptor => tcpAcc.pc = "woken"
       /\ tcpReady[i] \in TcpTable => tcpConn[tcpReady[i]].at = "ready"

(* One handler: a handle is used exactly while its handler exists, an       *)
(* expired park and a timeout stand for a whole idle period or a timer that *)
(* could not be armed, and a handler in a bounded park has a timer.         *)
HandlerSound(r) ==
  /\ r.used <=> r.at # "none"
  /\ r.due => r.idle
  /\ r.expired => r.idle \/ r.unarmed
  /\ r.verdict = "timeout" => (r.idle \/ r.unarmed) /\ r.at = "close"
  /\ r.timer => r.at \in {"parked", "ready"}
  /\ r.at = "parked" /\ r.op \in {"send_idle", "wait"} => r.timer

UsedHandles  == {h \in TcpTable : tcpConn[h].used}
TimerHandles == {h \in TcpTable : tcpConn[h].timer}
(* The descriptors of the handlers: a connection each, and perhaps a timer. *)
Owned == Cardinality(UsedHandles) + Cardinality(TimerHandles)
One(b) == IF b THEN 1 ELSE 0
Listening == One(tcpAcc.pc # "ended")
(* Every open descriptor has an owner. *)
FdsSound ==
  /\ tcpFds.open = Listening + tcpFds.others + Owned + One(tcpFds.reserve) + One(tcpAcc.held)
  /\ tcpFds.open <= FdLimit

TcpInv == TcpType /\ AccSound /\ ReadySound /\ (\A h \in TcpTable : HandlerSound(tcpConn[h])) /\ FdsSound

-----------------------------------------------------------------------------
(* The users of the thread are different. *)
LEMMA Users == Acceptor \notin TcpTable /\ Pump \notin TcpTable /\ Acceptor # Pump
  BY DEF Acceptor, Pump

(* accept_park leaves the accepting task parked with its locals reset.      *)
LEMMA ParkAcc ==
  ASSUME TcpType, accept_park
  PROVE  /\ tcpAcc' \in AccType /\ tcpAcc'.pc = "parked" /\ tcpAcc'.streak = 0 /\ tcpAcc'.held = FALSE
         /\ tcpCpu' = Pump /\ UNCHANGED <<tcpReady, tcpConn, tcpRun>>
<1> DEFINE zero == 0
           no == FALSE
<1>1. zero \in Nat /\ no \in BOOLEAN /\ "parked" \in AccPlaces /\ tcpAcc \in AccType
  BY DEF TcpType, AccPlaces
<1>2. tcpAcc' = [tcpAcc EXCEPT !.pc = "parked", !.streak = zero, !.shed = zero, !.held = no]
  BY DEF accept_park
<1> HIDE DEF zero, no
<1>3. tcpAcc' \in AccType /\ tcpAcc'.pc = "parked" /\ tcpAcc'.streak = zero /\ tcpAcc'.held = no
  BY <1>1, <1>2 DEF AccType
<1> QED BY <1>3 DEF accept_park, zero, no

(* A step that leaves the handlers and the queue alone, taken while the     *)
(* accepting task has the CPU: it is enough to look at what it changes.     *)
LEMMA AccStep ==
  ASSUME TcpInv, UNCHANGED <<tcpReady, tcpConn>>, tcpAcc.pc # "woken",
         tcpAcc' \in AccType, tcpFds' \in FdsType, tcpBacklog' \in Int, tcpRun' \in Nat,
         tcpCpu' \in TcpTable \cup {Acceptor, Pump}, AccSound', tcpAcc'.pc # "ended",
         /\ tcpFds'.open = 1 + tcpFds'.others + Owned + One(tcpFds'.reserve) + One(tcpAcc'.held)
         /\ tcpFds'.open <= FdLimit
  PROVE  TcpInv'
<1>1. TcpType'
  BY DEF TcpInv, TcpType
<1>2. ReadySound'
  BY DEF TcpInv, ReadySound
<1>3. (\A h \in TcpTable : HandlerSound(tcpConn[h]))'
  BY DEF TcpInv
<1>4. Owned' = Owned /\ Listening' = 1
  BY DEF UsedHandles, TimerHandles, Owned, Listening, One
<1>5. FdsSound'
  BY <1>4 DEF FdsSound
<1> QED BY <1>1, <1>2, <1>3, <1>5 DEF TcpInv

(* The handles in use, and those with a timer, can be counted. *)
LEMMA UsedCount ==
  /\ IsFiniteSet(UsedHandles) /\ Cardinality(UsedHandles) \in Nat
  /\ IsFiniteSet(TimerHandles) /\ Cardinality(TimerHandles) \in Nat
  /\ Owned \in Nat
<1>1. IsFiniteSet(UsedHandles) /\ Cardinality(UsedHandles) \in Nat
  BY FS_Subset, FS_CardinalityType DEF UsedHandles
<1>2. IsFiniteSet(TimerHandles) /\ Cardinality(TimerHandles) \in Nat
  BY FS_Subset, FS_CardinalityType DEF TimerHandles
<1> QED BY <1>1, <1>2 DEF Owned

(* What the invariant says of the descriptors, and of the accepting task.   *)
LEMMA Facts ==
  ASSUME TcpInv
  PROVE  /\ TcpType /\ AccSound /\ tcpAcc \in AccType /\ tcpFds \in FdsType
         /\ tcpFds.open \in Int /\ tcpFds.others \in Int /\ tcpFds.reserve \in BOOLEAN
         /\ tcpAcc.pc \in AccPlaces /\ tcpAcc.streak \in Nat /\ tcpAcc.shed \in Nat /\ tcpAcc.held \in BOOLEAN
         /\ tcpRun \in Nat /\ tcpBacklog \in Int
         /\ tcpCpu \in TcpTable \cup {Acceptor, Pump}
         /\ tcpFds.open = Listening + tcpFds.others + Owned + One(tcpFds.reserve) + One(tcpAcc.held)
         /\ tcpAcc.pc # "ended" =>
              tcpFds.open = 1 + tcpFds.others + Owned + One(tcpFds.reserve) + One(tcpAcc.held)
         /\ Listening \in {0, 1} /\ tcpFds.open <= FdLimit
<1>1. TcpType /\ AccSound /\ FdsSound
  BY DEF TcpInv
<1>2. tcpAcc \in AccType /\ tcpFds \in FdsType
  BY <1>1 DEF TcpType
<1>3. /\ tcpFds.open \in Int /\ tcpFds.others \in Int /\ tcpFds.reserve \in BOOLEAN
      /\ tcpAcc.pc \in AccPlaces /\ tcpAcc.streak \in Nat /\ tcpAcc.shed \in Nat /\ tcpAcc.held \in BOOLEAN
  BY <1>2 DEF AccType, FdsType
<1>4. tcpFds.open = Listening + tcpFds.others + Owned + One(tcpFds.reserve) + One(tcpAcc.held)
  BY <1>1 DEF FdsSound
<1>5. Listening \in {0, 1} /\ (tcpAcc.pc # "ended" => Listening = 1)
  BY DEF Listening, One
<1> QED BY <1>1, <1>2, <1>3, <1>4, <1>5 DEF TcpType, FdsSound

-----------------------------------------------------------------------------
(* A step that parks the accepting task, with the descriptors it leaves.    *)
LEMMA ParkStep ==
  ASSUME TcpInv, accept_park, tcpAcc.pc # "woken", tcpFds' \in FdsType, tcpBacklog' \in Int,
         tcpFds'.open = 1 + tcpFds'.others + Owned + One(tcpFds'.reserve),
         tcpFds'.open <= FdLimit
  PROVE  TcpInv'
<1>1. TcpType /\ tcpRun \in Nat /\ tcpRun <= AcceptStreak
  BY Facts DEF AccSound
<1>2. /\ tcpAcc' \in AccType /\ tcpAcc'.pc = "parked" /\ tcpAcc'.streak = 0 /\ tcpAcc'.held = FALSE
      /\ tcpCpu' = Pump /\ UNCHANGED <<tcpReady, tcpConn, tcpRun>>
  BY <1>1, ParkAcc
<1>3. AccSound'
  BY <1>1, <1>2, Users DEF AccSound
<1>4. One(tcpAcc'.held) = 0
  BY <1>2 DEF One
<1>5. tcpFds'.open = 1 + tcpFds'.others + Owned + One(tcpFds'.reserve) + One(tcpAcc'.held)
  <2>1. One(tcpFds'.reserve) \in Int /\ tcpFds'.others \in Int
    BY DEF One, FdsType
  <2> QED BY <1>4, <2>1, UsedCount
<1> QED BY <1>1, <1>2, <1>3, <1>5, AccStep

(* A call of tcp_accept: it accepts, or parks after a streak.               *)
LEMMA CallInv ==
  ASSUME TcpInv, accept_call
  PROVE  TcpInv'
<1>1. tcpCpu = Acceptor /\ tcpAcc.pc = "call" /\ UNCHANGED <<tcpFds, tcpBacklog>>
  BY DEF accept_call
<1>2. One(tcpAcc.held) = 0 /\ tcpAcc.held = FALSE
  BY <1>1, Facts DEF AccSound, One
<1>3. tcpFds.open = 1 + tcpFds.others + Owned + One(tcpFds.reserve)
  <2>1. One(tcpFds.reserve) \in Int
    BY DEF One
  <2> QED BY <1>1, <1>2, <2>1, Facts, UsedCount
<1>4. CASE tcpAcc.streak >= AcceptStreak
  <2>1. accept_park
    BY <1>4 DEF accept_call
  <2> QED BY <1>1, <1>3, <2>1, Facts, ParkStep
<1>5. CASE ~(tcpAcc.streak >= AcceptStreak)
  <2>1. tcpAcc' = [tcpAcc EXCEPT !.pc = "accept"] /\ AccUnchanged
    BY <1>5 DEF accept_call
  <2>2. tcpAcc' \in AccType /\ tcpAcc'.pc = "accept" /\ tcpAcc'.streak = tcpAcc.streak /\ tcpAcc'.held = tcpAcc.held
    BY <2>1, Facts DEF AccType, AccPlaces
  <2>3. tcpAcc.streak < AcceptStreak
    BY <1>5, Facts
  <2>4. AccSound'
    BY <1>1, <1>2, <2>1, <2>2, <2>3, Facts DEF AccSound, AccUnchanged
  <2> QED BY <1>1, <2>1, <2>2, <2>4, Facts, AccStep DEF AccUnchanged
<1> QED BY <1>4, <1>5

(* The backlog is empty: the accept parks.                                  *)
LEMMA EmptyInv ==
  ASSUME TcpInv, accept_empty
  PROVE  TcpInv'
<1>1. tcpAcc.pc = "accept" /\ accept_park /\ UNCHANGED <<tcpFds, tcpBacklog>>
  BY DEF accept_empty, Accepting
<1>2. One(tcpAcc.held) = 0 /\ One(tcpFds.reserve) \in Int
  BY <1>1, Facts DEF AccSound, One
<1>3. tcpFds.open = 1 + tcpFds.others + Owned + One(tcpFds.reserve)
  BY <1>1, <1>2, Facts, UsedCount
<1> QED BY <1>1, <1>3, Facts, ParkStep

(* A retryable errno.                                                       *)
LEMMA RetryInv ==
  ASSUME TcpInv, accept_retry
  PROVE  TcpInv'
<1>1. tcpAcc.pc = "accept" /\ UNCHANGED <<tcpAcc, tcpFds, tcpCpu, tcpReady, tcpConn, tcpRun>>
  BY DEF accept_retry, Accepting, AccUnchanged
<1>2. tcpBacklog' \in Int
  BY Facts DEF accept_retry
<1>3. AccSound'
  BY <1>1, Facts DEF AccSound
<1> QED BY <1>1, <1>2, <1>3, Facts, AccStep

(* The server gives up: the listener's descriptor goes with it.             *)
LEMMA FailsInv ==
  ASSUME TcpInv, accept_fails
  PROVE  TcpInv'
<1> DEFINE less == tcpFds.open - 1
<1>1. /\ tcpCpu = Acceptor /\ tcpAcc.pc = "accept" /\ tcpBacklog' = 0 /\ tcpCpu' = Pump
      /\ tcpFds' = [tcpFds EXCEPT !.open = less]
      /\ tcpAcc' = [tcpAcc EXCEPT !.pc = "ended"]
      /\ UNCHANGED <<tcpReady, tcpConn, tcpRun>>
  BY DEF accept_fails, Accepting
<1>2. less \in Int /\ "ended" \in AccPlaces
  BY Facts DEF AccPlaces
<1> HIDE DEF less
<1>3. tcpFds' \in FdsType /\ tcpFds'.open = less /\ tcpFds'.others = tcpFds.others /\ tcpFds'.reserve = tcpFds.reserve
  BY <1>1, <1>2, Facts DEF FdsType
<1>4. tcpAcc' \in AccType /\ tcpAcc'.pc = "ended" /\ tcpAcc'.streak = tcpAcc.streak /\ tcpAcc'.held = tcpAcc.held
  BY <1>1, <1>2, Facts DEF AccType
<1>5. AccSound'
  BY <1>1, <1>3, <1>4, Facts, Users DEF AccSound
<1>6. TcpType'
  BY <1>1, <1>3, <1>4, Facts DEF TcpType
<1>7. ReadySound' /\ (\A h \in TcpTable : HandlerSound(tcpConn[h]))'
  BY <1>1 DEF TcpInv, ReadySound
<1>8. FdsSound'
  <2>1. Owned' = Owned /\ Listening = 1 /\ Listening' = 0 /\ One(tcpFds.reserve) \in Int /\ One(tcpAcc.held) \in Int
    BY <1>1, <1>4 DEF UsedHandles, TimerHandles, Owned, Listening, One
  <2>2. One(tcpFds'.reserve) = One(tcpFds.reserve) /\ One(tcpAcc'.held) = One(tcpAcc.held)
    BY <1>3, <1>4
  <2> QED BY <1>3, <2>1, <2>2, Facts, UsedCount DEF FdsSound, less
<1> QED BY <1>5, <1>6, <1>7, <1>8 DEF TcpInv

(* A connection is taken.                                                   *)
LEMMA TakesInv ==
  ASSUME TcpInv, accept_takes
  PROVE  TcpInv'
<1> DEFINE yes == TRUE
           more == tcpFds.open + 1
<1>1. /\ tcpCpu = Acceptor /\ tcpAcc.pc = "accept" /\ tcpFds.open < FdLimit
      /\ tcpBacklog' = tcpBacklog - 1
      /\ tcpFds' = [tcpFds EXCEPT !.open = more]
      /\ tcpAcc' = [tcpAcc EXCEPT !.pc = "install", !.held = yes]
      /\ UNCHANGED <<tcpCpu, tcpReady, tcpConn, tcpRun>>
  BY DEF accept_takes, Accepting, AccUnchanged
<1>2. more \in Int /\ yes \in BOOLEAN /\ "install" \in AccPlaces /\ tcpBacklog' \in Int
  BY <1>1, Facts DEF AccPlaces
<1> HIDE DEF yes, more
<1>3. tcpFds' \in FdsType /\ tcpFds'.open = more /\ tcpFds'.others = tcpFds.others /\ tcpFds'.reserve = tcpFds.reserve
  BY <1>1, <1>2, Facts DEF FdsType
<1>4. tcpAcc' \in AccType /\ tcpAcc'.pc = "install" /\ tcpAcc'.streak = tcpAcc.streak /\ tcpAcc'.held = yes
  BY <1>1, <1>2, Facts DEF AccType
<1> USE DEF yes, more
<1>5. AccSound'
  BY <1>1, <1>4, Facts DEF AccSound
<1>6. One(tcpAcc.held) = 0 /\ One(tcpAcc'.held) = 1 /\ One(tcpFds.reserve) \in Int
  BY <1>1, <1>4, Facts DEF AccSound, One
<1>7. /\ tcpFds'.open = 1 + tcpFds'.others + Owned + One(tcpFds'.reserve) + One(tcpAcc'.held)
      /\ tcpFds'.open <= FdLimit
  <2>1. tcpFds.open < FdLimit
    BY <1>1
  <2>2. tcpFds.open = 1 + tcpFds.others + Owned + One(tcpFds.reserve)
    BY <1>1, <1>6, Facts, UsedCount
  <2> QED BY <2>1, <2>2, <1>3, <1>6, Facts, UsedCount
<1> QED BY <1>1, <1>2, <1>3, <1>4, <1>5, <1>7, Facts, AccStep

(* The handle table is full: the connection is closed.                      *)
LEMMA TableFullInv ==
  ASSUME TcpInv, accept_table_full
  PROVE  TcpInv'
<1> DEFINE less == tcpFds.open - 1
<1>1. tcpAcc.pc = "install" /\ tcpFds' = [tcpFds EXCEPT !.open = less] /\ accept_park /\ UNCHANGED tcpBacklog
  BY DEF accept_table_full
<1>2. less \in Int
  BY Facts
<1> HIDE DEF less
<1>3. tcpFds' \in FdsType /\ tcpFds'.open = less /\ tcpFds'.others = tcpFds.others /\ tcpFds'.reserve = tcpFds.reserve
  BY <1>1, <1>2, Facts DEF FdsType
<1> USE DEF less
<1>4. One(tcpAcc.held) = 1 /\ One(tcpFds.reserve) \in Int
  BY <1>1, Facts DEF AccSound, One
<1>5. /\ tcpFds'.open = 1 + tcpFds'.others + Owned + One(tcpFds'.reserve)
      /\ tcpFds'.open <= FdLimit
  BY <1>1, <1>3, <1>4, Facts, UsedCount
<1> QED BY <1>1, <1>3, <1>5, Facts, ParkStep

(* The reserve is given up for the shedding only when it is armed.          *)
LEMMA ExhaustedInv ==
  ASSUME TcpInv, accept_exhausted
  PROVE  TcpInv'
<1>1. tcpCpu = Acceptor /\ tcpAcc.pc = "accept" /\ UNCHANGED tcpBacklog
  BY DEF accept_exhausted, Accepting
<1>2. One(tcpAcc.held) = 0 /\ tcpAcc.held = FALSE /\ One(tcpFds.reserve) \in Int
  BY <1>1, Facts DEF AccSound, One
<1>3. CASE ~tcpFds.reserve
  <2>1. accept_park /\ UNCHANGED tcpFds
    BY <1>3 DEF accept_exhausted
  <2>2. tcpFds.open = 1 + tcpFds.others + Owned + One(tcpFds.reserve)
    BY <1>1, <1>2, Facts, UsedCount
  <2> QED BY <1>1, <2>1, <2>2, Facts, ParkStep
<1>4. CASE tcpFds.reserve
  <2> DEFINE less == tcpFds.open - 1
             no == FALSE
  <2>1. /\ tcpFds' = [tcpFds EXCEPT !.open = less, !.reserve = no]
        /\ tcpAcc' = [tcpAcc EXCEPT !.pc = "shed"]
        /\ UNCHANGED <<tcpCpu, tcpReady, tcpConn, tcpRun>>
    BY <1>4 DEF accept_exhausted, AccUnchanged
  <2>2. less \in Int /\ no \in BOOLEAN /\ "shed" \in AccPlaces
    BY Facts DEF AccPlaces
  <2> HIDE DEF less, no
  <2>3. tcpFds' \in FdsType /\ tcpFds'.open = less /\ tcpFds'.others = tcpFds.others /\ tcpFds'.reserve = no
    BY <2>1, <2>2, Facts DEF FdsType
  <2>4. tcpAcc' \in AccType /\ tcpAcc'.pc = "shed" /\ tcpAcc'.streak = tcpAcc.streak /\ tcpAcc'.held = tcpAcc.held
    BY <2>1, <2>2, Facts DEF AccType
  <2> USE DEF less, no
  <2>5. AccSound'
    BY <1>1, <1>2, <2>1, <2>3, <2>4, Facts DEF AccSound
  <2>6. One(tcpFds.reserve) = 1 /\ One(tcpFds'.reserve) = 0
    BY <1>4, <2>3 DEF One
  <2>7. /\ tcpFds'.open = 1 + tcpFds'.others + Owned + One(tcpFds'.reserve) + One(tcpAcc'.held)
        /\ tcpFds'.open <= FdLimit
    BY <1>1, <1>2, <2>3, <2>4, <2>6, Facts, UsedCount
  <2> QED BY <1>1, <2>1, <2>3, <2>4, <2>5, <2>7, Facts, AccStep
<1> QED BY <1>3, <1>4, Facts

(* One iteration of shedding the backlog.                                   *)
LEMMA ShedOneInv ==
  ASSUME TcpInv, shed_one
  PROVE  TcpInv'
<1> DEFINE more == tcpAcc.shed + 1
<1>1. /\ tcpAcc.pc = "shed" /\ tcpAcc' = [tcpAcc EXCEPT !.shed = more]
      /\ UNCHANGED <<tcpFds, tcpCpu, tcpReady, tcpConn, tcpRun>>
  BY DEF shed_one, AccUnchanged
<1>2. more \in Nat /\ tcpBacklog' \in Int
  BY Facts DEF shed_one
<1> HIDE DEF more
<1>3. tcpAcc' \in AccType /\ tcpAcc'.pc = tcpAcc.pc /\ tcpAcc'.streak = tcpAcc.streak /\ tcpAcc'.held = tcpAcc.held
  BY <1>1, <1>2, Facts DEF AccType
<1>4. AccSound'
  BY <1>1, <1>3, Facts DEF AccSound
<1> QED BY <1>1, <1>2, <1>3, <1>4, Facts, AccStep

(* The reserve is armed again only while it is not armed.                   *)
LEMMA ShedEndInv ==
  ASSUME TcpInv, shed_end
  PROVE  TcpInv'
<1>1. tcpAcc.pc = "shed" /\ accept_park /\ UNCHANGED tcpBacklog
  BY DEF shed_end
<1>2. One(tcpAcc.held) = 0 /\ One(tcpFds.reserve) = 0
  BY <1>1, Facts DEF AccSound, One
<1>3. CASE tcpFds.open < FdLimit
  <2> DEFINE more == tcpFds.open + 1
             yes == TRUE
  <2>1. tcpFds' = [tcpFds EXCEPT !.open = more, !.reserve = yes]
    BY <1>3 DEF shed_end
  <2>2. more \in Int /\ yes \in BOOLEAN
    BY Facts
  <2> HIDE DEF more, yes
  <2>3. tcpFds' \in FdsType /\ tcpFds'.open = more /\ tcpFds'.others = tcpFds.others /\ tcpFds'.reserve = yes
    BY <2>1, <2>2, Facts DEF FdsType
  <2> USE DEF more, yes
  <2>4. One(tcpFds'.reserve) = 1
    BY <2>3 DEF One
  <2>5. /\ tcpFds'.open = 1 + tcpFds'.others + Owned + One(tcpFds'.reserve)
        /\ tcpFds'.open <= FdLimit
    BY <1>1, <1>2, <1>3, <2>3, <2>4, Facts, UsedCount
  <2> QED BY <1>1, <2>3, <2>5, Facts, ParkStep
<1>4. CASE ~(tcpFds.open < FdLimit)
  <2>1. UNCHANGED tcpFds
    BY <1>4 DEF shed_end
  <2>2. tcpFds.open = 1 + tcpFds.others + Owned + One(tcpFds.reserve)
    BY <1>1, <1>2, Facts, UsedCount
  <2> QED BY <1>1, <2>1, <2>2, Facts, ParkStep
<1> QED BY <1>3, <1>4

(* The least unused handle exists: handles are natural numbers. *)
LEMMA LeastUnused ==
  ASSUME Unused # {}
  PROVE  (CHOOSE x \in Unused : \A y \in Unused : x <= y) \in Unused
<1>1. Unused \subseteq Nat
  BY DEF Unused
<1> DEFINE R == OpToRel(<, Nat)
<1>2. IsWellFoundedOn(R, Nat)
  BY NatLessThanWellFounded
<1>3. \A p \in Nat \X Nat : p[1] < p[2] => p \in R
  BY Zenon DEF OpToRel
<1> HIDE DEF R
<1>4. PICK x \in Unused : \A y \in Unused : <<y, x>> \notin R
  BY <1>1, <1>2, WFMin
<1>5. \A y \in Unused : ~(y < x)
  BY <1>1, <1>3, <1>4
<1>6. \A y \in Unused : x <= y
  BY <1>1, <1>5
<1> QED BY <1>6

(* A connection gets a handle: the descriptor of the frame becomes that of  *)
(* a handle that was not in use, and its handler joins the queue.           *)
LEMMA InstallsInv ==
  ASSUME TcpInv, accept_installs
  PROVE  TcpInv'
<1> DEFINE h == CHOOSE x \in Unused : \A y \in Unused : x <= y
           zero == 0
           yes == TRUE
           no == FALSE
           more == tcpAcc.streak + 1
<1>1. /\ tcpAcc.pc = "install" /\ Unused # {}
      /\ tcpAcc' = [tcpAcc EXCEPT !.pc = "call", !.streak = more, !.held = no]
      /\ tcpReady' = Append(tcpReady, h) /\ tcpRun' = tcpRun + 1
      /\ UNCHANGED <<tcpCpu, tcpFds, tcpBacklog>>
  BY DEF accept_installs
<1>2. PICK op \in {"send", "send_idle", "read_exact", "wait"} :
        tcpConn' = [tcpConn EXCEPT ![h] = [NoHandler EXCEPT !.used = TRUE, !.at = "ready", !.op = op,
                      !.left = IF op \in {"send", "send_idle"} THEN SendUnits ELSE 0]]
  BY DEF accept_installs
<1> DEFINE r == [NoHandler EXCEPT !.used = TRUE, !.at = "ready", !.op = op,
                   !.left = IF op \in {"send", "send_idle"} THEN SendUnits ELSE 0]
<1>3. h \in TcpTable /\ ~tcpConn[h].used
  BY <1>1, LeastUnused DEF Unused
<1>4. r \in ConnType /\ r.used /\ r.at = "ready" /\ ~r.due /\ ~r.expired /\ ~r.timer /\ r.verdict = "none"
  <2> DEFINE units == IF op \in {"send", "send_idle"} THEN SendUnits ELSE 0
  <2>1. units \in Int
    OBVIOUS
  <2>2. NoHandler \in ConnType /\ ~NoHandler.due /\ ~NoHandler.expired /\ ~NoHandler.timer
        /\ NoHandler.verdict = "none"
    BY DEF NoHandler, ConnType, ConnPlaces, ConnOps
  <2>3. r = [NoHandler EXCEPT !.used = yes, !.at = "ready", !.op = op, !.left = units]
    OBVIOUS
  <2>4. yes \in BOOLEAN /\ "ready" \in ConnPlaces /\ op \in ConnOps
    BY DEF ConnPlaces, ConnOps
  <2> HIDE DEF r, units, yes
  <2>5. r \in ConnType /\ r.used = yes /\ r.at = "ready" /\ r.due = NoHandler.due
        /\ r.expired = NoHandler.expired /\ r.timer = NoHandler.timer /\ r.verdict = NoHandler.verdict
    BY <2>1, <2>2, <2>3, <2>4 DEF ConnType
  <2> QED BY <2>2, <2>5 DEF yes
<1> HIDE DEF h, r
<1>5. tcpConn \in [TcpTable -> ConnType] /\ tcpConn' = [tcpConn EXCEPT ![h] = r]
  BY <1>2, Facts DEF TcpType, r
<1>6. /\ tcpConn' \in [TcpTable -> ConnType] /\ tcpConn'[h] = r
      /\ \A g \in TcpTable : g # h => tcpConn'[g] = tcpConn[g]
  BY <1>3, <1>4, <1>5
<1>7. more \in Nat /\ no \in BOOLEAN /\ "call" \in AccPlaces
  BY Facts DEF AccPlaces
<1> HIDE DEF more, no
<1>8. tcpAcc' \in AccType /\ tcpAcc'.pc = "call" /\ tcpAcc'.streak = more /\ tcpAcc'.held = no
  BY <1>1, <1>7, Facts DEF AccType
<1> USE DEF more, no
<1>9. tcpReady \in Seq(TcpTable \cup {Acceptor}) /\ tcpConn[h].at = "none" /\ ReadySound
  <2>1. HandlerSound(tcpConn[h]) /\ ReadySound
    BY <1>3 DEF TcpInv
  <2> QED BY <1>3, <2>1, Facts DEF HandlerSound, TcpType
<1>10. TcpType'
  <2>1. tcpReady' \in Seq(TcpTable \cup {Acceptor})
    BY <1>1, <1>3, <1>9, AppendProperties
  <2>2. tcpRun' \in Nat /\ UNCHANGED <<tcpCpu, tcpFds, tcpBacklog>>
    BY <1>1, Facts, SMTT(20)
  <2> QED BY <1>6, <1>8, <2>1, <2>2, Facts DEF TcpType
<1>11. AccSound'
  BY <1>1, <1>8, Facts, SMTT(20) DEF AccSound
<1>12. ReadySound'
  <2>1. /\ Len(tcpReady') = Len(tcpReady) + 1 /\ Len(tcpReady) \in Nat
        /\ \A i \in 1..Len(tcpReady) : tcpReady'[i] = tcpReady[i] /\ tcpReady[i] \in TcpTable \cup {Acceptor}
        /\ tcpReady'[Len(tcpReady) + 1] = h
    BY <1>1, <1>3, <1>9, AppendProperties, ElementOfSeq
  <2>2. \A i \in 1..Len(tcpReady) : tcpReady[i] # h /\ tcpReady[i] # Acceptor
    BY <1>1, <1>3, <1>9 DEF ReadySound
  <2>3. \A i \in 1..Len(tcpReady') : i \in 1..Len(tcpReady) \/ i = Len(tcpReady) + 1
    BY <2>1
  <2>4. \A i, j \in 1..Len(tcpReady') : tcpReady'[i] = tcpReady'[j] => i = j
    BY <1>9, <2>1, <2>2, <2>3, SMTT(20) DEF ReadySound
  <2>5. h # Acceptor
    BY <1>3, Users
  <2>6. \A i \in 1..Len(tcpReady) : tcpReady[i] \in TcpTable => tcpConn[tcpReady[i]].at = "ready"
    BY <1>9 DEF ReadySound
  <2>7. ASSUME NEW i \in 1..Len(tcpReady')
        PROVE  /\ tcpReady'[i] # Acceptor
               /\ tcpReady'[i] \in TcpTable => tcpConn'[tcpReady'[i]].at = "ready"
    <3>1. CASE i \in 1..Len(tcpReady)
      BY <1>6, <2>1, <2>2, <2>6, <3>1
    <3>2. CASE i = Len(tcpReady) + 1
      BY <1>4, <1>6, <2>1, <2>5, <3>2
    <3> QED BY <2>3, <3>1, <3>2
  <2> QED BY <2>4, <2>7 DEF ReadySound
<1>13. (\A g \in TcpTable : HandlerSound(tcpConn[g]))'
  <2>1. \A g \in TcpTable : HandlerSound(tcpConn[g])
    BY DEF TcpInv
  <2>2. HandlerSound(r)
    BY <1>4 DEF HandlerSound
  <2> QED BY <1>6, <2>1, <2>2
<1>14. FdsSound'
  <2>1. UsedHandles' = UsedHandles \cup {h} /\ h \notin UsedHandles
    BY <1>3, <1>4, <1>6 DEF UsedHandles
  <2>2. Owned' = Owned + 1
    <3>1. Cardinality(UsedHandles') = Cardinality(UsedHandles) + 1
      BY <2>1, UsedCount, FS_AddElement
    <3>2. ~tcpConn[h].timer
      BY <1>3, <1>9 DEF TcpInv, HandlerSound
    <3>3. TimerHandles' = TimerHandles
      BY <1>3, <1>4, <1>6, <3>2 DEF TimerHandles
    <3> QED BY <3>1, <3>3, UsedCount DEF Owned
  <2>3. One(tcpAcc.held) = 1 /\ One(tcpAcc'.held) = 0 /\ One(tcpFds.reserve) \in Int
    BY <1>1, <1>8, Facts DEF AccSound, One
  <2>4. tcpFds' = tcpFds /\ Listening' = 1 /\ Listening = 1
    BY <1>1, <1>8 DEF Listening, One
  <2> QED BY <2>2, <2>3, <2>4, Facts, UsedCount DEF FdsSound
<1> QED BY <1>10, <1>11, <1>12, <1>13, <1>14 DEF TcpInv

-----------------------------------------------------------------------------
(* A handler's step: it writes its own record, keeps its handle in use, and *)
(* is not in the ready queue.                                               *)
LEMMA HandlerWrites ==
  ASSUME TcpInv, NEW h \in TcpTable, NEW r \in ConnType, tcpConn' = [tcpConn EXCEPT ![h] = r],
         UNCHANGED <<tcpReady, tcpAcc, tcpBacklog, tcpRun>>,
         tcpFds' \in FdsType, tcpFds'.reserve = tcpFds.reserve, FdsSound',
         tcpCpu' = Pump \/ tcpCpu' = tcpCpu, tcpCpu # Acceptor \/ tcpCpu' = tcpCpu,
         HandlerSound(r), r.used = tcpConn[h].used,
         tcpConn[h].at # "ready" \/ r.at = "ready"
  PROVE  TcpInv'
<1>1. tcpConn \in [TcpTable -> ConnType] /\ ReadySound
  BY DEF TcpInv, TcpType
<1>2. /\ tcpConn' \in [TcpTable -> ConnType] /\ tcpConn'[h] = r
      /\ \A g \in TcpTable : g # h => tcpConn'[g] = tcpConn[g]
  BY <1>1
<1>3. TcpType'
  BY <1>2, Facts DEF TcpType
<1>4. AccSound'
  BY Facts, Users DEF AccSound
<1>5. ReadySound'
  <2>1. \A g \in TcpTable : tcpConn[g].at = "ready" => tcpConn'[g].at = "ready"
    BY <1>2
  <2> QED BY <1>1, <2>1 DEF ReadySound
<1>6. (\A g \in TcpTable : HandlerSound(tcpConn[g]))'
  <2>1. \A g \in TcpTable : HandlerSound(tcpConn[g])
    BY DEF TcpInv
  <2> QED BY <1>2, <2>1
<1> QED BY <1>3, <1>4, <1>5, <1>6 DEF TcpInv

(* ... and neither arms nor retires a timer.                                *)
LEMMA HandlerStep ==
  ASSUME TcpInv, NEW h \in TcpTable, NEW r \in ConnType, tcpConn' = [tcpConn EXCEPT ![h] = r],
         UNCHANGED <<tcpReady, tcpAcc, tcpFds, tcpBacklog, tcpRun>>,
         tcpCpu' = Pump \/ tcpCpu' = tcpCpu, tcpCpu # Acceptor \/ tcpCpu' = tcpCpu,
         HandlerSound(r), r.used = tcpConn[h].used, r.timer <=> tcpConn[h].timer,
         tcpConn[h].at # "ready" \/ r.at = "ready"
  PROVE  TcpInv'
<1>1. tcpConn \in [TcpTable -> ConnType]
  BY DEF TcpInv, TcpType
<1>2. tcpConn'[h] = r /\ \A g \in TcpTable : g # h => tcpConn'[g] = tcpConn[g]
  BY <1>1
<1>3. UsedHandles' = UsedHandles /\ TimerHandles' = TimerHandles
  BY <1>2 DEF UsedHandles, TimerHandles
<1>4. Owned' = Owned /\ Listening' = Listening
  BY <1>3 DEF Owned, Listening
<1>5. FdsSound'
  BY <1>4, Facts DEF FdsSound
<1> QED BY <1>5, Facts, HandlerWrites

(* The record of a running handler. *)
LEMMA Running ==
  ASSUME TcpInv, NEW h \in TcpTable, NEW op, Runs(h, op)
  PROVE  /\ tcpConn[h] \in ConnType /\ HandlerSound(tcpConn[h]) /\ tcpConn[h].at = "run" /\ tcpConn[h].used
         /\ tcpConn[h].verdict # "timeout" /\ tcpCpu = h /\ tcpCpu # Acceptor
         /\ ~tcpConn[h].timer /\ tcpConn[h].op \in op
  BY Users DEF TcpInv, TcpType, Runs, HandlerSound

(* It goes on to its close, or parks, with its record changed in what does  *)
(* not matter to the invariant.                                             *)
LEMMA CloseOrPark ==
  ASSUME TcpInv, NEW h \in TcpTable, NEW op, Runs(h, op), NEW r \in ConnType, HandlerSound(r),
         r.used, ~r.timer,
         \/ ToClose(h, r)
         \/ ParkHandler(h, r) /\ r.verdict # "timeout" /\ r.op \notin {"send_idle", "wait"}
  PROVE  TcpInv'
<1> DEFINE c == [r EXCEPT !.at = "close"]
           p == [r EXCEPT !.at = "parked"]
<1>1. /\ c \in ConnType /\ c.at = "close" /\ c.used = r.used /\ c.due = r.due
      /\ c.expired = r.expired /\ c.idle = r.idle /\ c.verdict = r.verdict
      /\ c.timer = r.timer /\ c.unarmed = r.unarmed /\ c.op = r.op
  BY DEF ConnType, ConnPlaces
<1>2. /\ p \in ConnType /\ p.at = "parked" /\ p.used = r.used /\ p.due = r.due
      /\ p.expired = r.expired /\ p.idle = r.idle /\ p.verdict = r.verdict
      /\ p.timer = r.timer /\ p.unarmed = r.unarmed /\ p.op = r.op
  BY DEF ConnType, ConnPlaces
<1>3. \/ tcpConn' = [tcpConn EXCEPT ![h] = c] /\ tcpCpu' = tcpCpu
      \/ tcpConn' = [tcpConn EXCEPT ![h] = p] /\ tcpCpu' = Pump /\ r.verdict # "timeout" /\ r.op \notin {"send_idle", "wait"}
  BY DEF ToClose, ParkHandler, Handler
<1>4. UNCHANGED <<tcpReady, tcpAcc, tcpFds, tcpBacklog, tcpRun>>
  BY DEF ToClose, ParkHandler, Handler
<1> HIDE DEF c, p
<1>5. HandlerSound(c) /\ (r.verdict # "timeout" /\ r.op \notin {"send_idle", "wait"} => HandlerSound(p))
  BY <1>1, <1>2 DEF HandlerSound
<1> QED BY <1>1, <1>2, <1>3, <1>4, <1>5, Running, HandlerStep

(* A bounded park: with a timer of its own, or refused at once.             *)
LEMMA BoundedPark ==
  ASSUME TcpInv, NEW h \in TcpTable, NEW op, Runs(h, op), NEW r \in ConnType, HandlerSound(r),
         r.used, r.at = "run", r.verdict # "timeout", ParkBounded(h, r)
  PROVE  TcpInv'
<1> DEFINE yes == TRUE
           more == tcpFds.open + 1
           p == [r EXCEPT !.at = "parked", !.timer = yes]
           e == [r EXCEPT !.expired = yes, !.unarmed = yes]
<1>1. /\ tcpConn[h].at = "run" /\ tcpConn[h].used /\ ~tcpConn[h].timer /\ tcpCpu # Acceptor
      /\ tcpConn[h] \in ConnType /\ tcpConn \in [TcpTable -> ConnType]
  BY Running DEF TcpInv, TcpType
<1>2. yes \in BOOLEAN /\ more \in Int /\ "parked" \in ConnPlaces /\ r.used = tcpConn[h].used /\ ~r.timer
  BY <1>1, Facts DEF ConnPlaces, ConnType, HandlerSound
<1>3. CASE tcpFds.open < FdLimit
  <2>1. /\ tcpConn' = [tcpConn EXCEPT ![h] = p] /\ tcpFds' = [tcpFds EXCEPT !.open = more] /\ tcpCpu' = Pump
        /\ UNCHANGED <<tcpReady, tcpAcc, tcpBacklog, tcpRun>>
    BY <1>3 DEF ParkBounded
  <2> HIDE DEF yes, more
  <2>2. /\ p \in ConnType /\ p.at = "parked" /\ p.used = r.used /\ p.due = r.due /\ p.timer = yes
        /\ p.expired = r.expired /\ p.idle = r.idle /\ p.unarmed = r.unarmed /\ p.verdict = r.verdict
    BY <1>2 DEF ConnType
  <2>3. tcpFds' \in FdsType /\ tcpFds'.open = more /\ tcpFds'.others = tcpFds.others /\ tcpFds'.reserve = tcpFds.reserve
    BY <1>2, <2>1, Facts DEF FdsType
  <2> HIDE DEF p
  <2>4. HandlerSound(p)
    BY <2>2 DEF HandlerSound, yes
  <2>5. tcpConn'[h] = p /\ \A g \in TcpTable : g # h => tcpConn'[g] = tcpConn[g]
    BY <1>1, <2>1
  <2>6. UsedHandles' = UsedHandles
    BY <1>2, <2>2, <2>5 DEF UsedHandles
  <2>7. TimerHandles' = TimerHandles \cup {h} /\ h \notin TimerHandles
    BY <1>1, <2>2, <2>5 DEF TimerHandles, yes
  <2>8. Cardinality(TimerHandles') = Cardinality(TimerHandles) + 1
    BY <2>7, UsedCount, FS_AddElement
  <2>9. Owned' = Owned + 1
    BY <2>6, <2>8, UsedCount DEF Owned
  <2>10. FdsSound'
    <3>1. /\ Listening' = Listening /\ tcpAcc' = tcpAcc /\ One(tcpFds'.reserve) = One(tcpFds.reserve)
          /\ One(tcpFds.reserve) \in Int /\ One(tcpAcc.held) \in Int
      BY <2>1, <2>3 DEF Listening, One
    <3> QED BY <1>3, <2>3, <2>9, <3>1, Facts, UsedCount DEF FdsSound, more
  <2> QED BY <1>1, <1>2, <2>1, <2>2, <2>3, <2>4, <2>10, HandlerWrites
<1>4. CASE ~(tcpFds.open < FdLimit)
  <2>1. tcpConn' = [tcpConn EXCEPT ![h] = e] /\ UNCHANGED <<tcpCpu, tcpReady, tcpAcc, tcpFds, tcpBacklog, tcpRun>>
    BY <1>4 DEF ParkBounded, Handler
  <2> HIDE DEF yes, more
  <2>2. /\ e \in ConnType /\ e.at = r.at /\ e.used = r.used /\ e.due = r.due /\ e.timer = r.timer
        /\ e.expired = yes /\ e.idle = r.idle /\ e.unarmed = yes /\ e.verdict = r.verdict
    BY <1>2 DEF ConnType
  <2> HIDE DEF e
  <2>3. HandlerSound(e)
    BY <2>2 DEF HandlerSound, yes
  <2> QED BY <1>1, <1>2, <2>1, <2>2, <2>3, HandlerStep
<1> QED BY <1>3, <1>4

(* A handler sends.                                                         *)
LEMMA TcpSendInv ==
  ASSUME TcpInv, NEW h \in TcpTable, tcp_send_all(h)
  PROVE  TcpInv'
<1> DEFINE r == tcpConn[h]
           s == [Rearmed(r) EXCEPT !.left = @ - 1, !.idle = FALSE, !.unarmed = FALSE]
           t == [r EXCEPT !.verdict = "timeout"]
           ops == {"send", "send_idle"}
<1>1. Runs(h, ops)
  BY DEF tcp_send_all
<1>2. /\ r \in ConnType /\ HandlerSound(r) /\ r.at = "run" /\ r.used
      /\ r.verdict # "timeout" /\ tcpCpu = h /\ tcpCpu # Acceptor /\ ~r.timer /\ r.op \in ops
  BY <1>1, Running
<1>3. CASE ToClose(h, r)
  BY <1>1, <1>2, <1>3, CloseOrPark
<1>4. CASE r.op = "send" /\ ParkHandler(h, r)
  BY <1>1, <1>2, <1>4, CloseOrPark
<1>7. CASE ParkBounded(h, r)
  BY <1>1, <1>2, <1>7, BoundedPark
<1>5. CASE Handler(h, s) /\ UNCHANGED tcpCpu
  <2> DEFINE no == FALSE
             less == r.left - 1
  <2>1. s = [r EXCEPT !.expired = no, !.due = no, !.left = less, !.idle = no, !.unarmed = no]
    BY <1>2 DEF Rearmed, ConnType
  <2>2. no \in BOOLEAN /\ less \in Int
    BY <1>2 DEF ConnType
  <2> HIDE DEF no, less, s
  <2>3. /\ s \in ConnType /\ s.used = r.used /\ s.at = r.at /\ s.due = no /\ s.expired = no /\ s.idle = no
        /\ s.verdict = r.verdict /\ s.timer = r.timer
    BY <1>2, <2>1, <2>2 DEF ConnType
  <2>4. HandlerSound(s)
    BY <1>2, <2>3 DEF HandlerSound, no
  <2> QED BY <1>2, <1>5, <2>3, <2>4, HandlerStep DEF Handler
<1>6. CASE (r.expired \/ r.due) /\ ToClose(h, t)
  <2>1. /\ t \in ConnType /\ t.used = r.used /\ t.at = r.at /\ t.due = r.due /\ t.expired = r.expired
        /\ t.idle = r.idle /\ t.unarmed = r.unarmed /\ t.timer = r.timer /\ t.verdict = "timeout"
    BY <1>2 DEF ConnType
  <2> DEFINE c == [t EXCEPT !.at = "close"]
  <2>2. /\ c \in ConnType /\ c.used = r.used /\ c.at = "close" /\ c.due = r.due /\ c.expired = r.expired
        /\ c.idle = r.idle /\ c.unarmed = r.unarmed /\ c.timer = r.timer /\ c.verdict = "timeout"
    <3> HIDE DEF t
    <3> QED BY <2>1 DEF ConnType, ConnPlaces
  <2>3. tcpConn' = [tcpConn EXCEPT ![h] = c] /\ UNCHANGED <<tcpCpu, tcpReady, tcpAcc, tcpFds, tcpBacklog, tcpRun>>
    BY <1>6 DEF ToClose, Handler
  <2> HIDE DEF t, c
  <2>4. HandlerSound(c)
    BY <1>2, <1>6, <2>2 DEF HandlerSound
  <2> QED BY <1>2, <2>2, <2>3, <2>4, HandlerStep
<1> QED
  <2>1. \/ ToClose(h, r) \/ (r.op = "send" /\ ParkHandler(h, r)) \/ ParkBounded(h, r)
        \/ Handler(h, s) /\ UNCHANGED tcpCpu
        \/ (r.expired \/ r.due) /\ ToClose(h, t)
    BY DEF tcp_send_all
  <2> QED BY <1>3, <1>4, <1>5, <1>6, <1>7, <2>1

(* A handler reads a fixed count.                                           *)
LEMMA ReadExactInv ==
  ASSUME TcpInv, NEW h \in TcpTable, tcp_read_exact(h)
  PROVE  TcpInv'
<1> DEFINE ops == {"read_exact"}
<1>1. Runs(h, ops) /\ (ToClose(h, tcpConn[h]) \/ ParkHandler(h, tcpConn[h]))
  BY DEF tcp_read_exact
<1> QED BY <1>1, Running, CloseOrPark

(* A handler waits for readiness.                                           *)
LEMMA WaitInv ==
  ASSUME TcpInv, NEW h \in TcpTable, tcp_wait(h)
  PROVE  TcpInv'
<1> DEFINE ops == {"wait"}
           one == 1
           r == tcpConn[h]
           s == [r EXCEPT !.left = one]
<1>1. Runs(h, ops) /\ (ToClose(h, r) \/ ParkBounded(h, s))
  BY DEF tcp_wait
<1>2. r \in ConnType /\ HandlerSound(r) /\ r.used /\ r.at = "run" /\ r.verdict # "timeout" /\ ~r.timer
  BY <1>1, Running
<1>3. one \in Int
  OBVIOUS
<1> HIDE DEF one
<1>4. /\ s \in ConnType /\ s.used = r.used /\ s.at = r.at /\ s.due = r.due /\ s.expired = r.expired
      /\ s.idle = r.idle /\ s.verdict = r.verdict /\ s.unarmed = r.unarmed /\ s.timer = r.timer /\ s.op = r.op
  BY <1>2, <1>3 DEF ConnType
<1> HIDE DEF s
<1>5. HandlerSound(s)
  BY <1>2, <1>4 DEF HandlerSound
<1>6. CASE ToClose(h, r)
  BY <1>1, <1>2, <1>6, CloseOrPark
<1>7. CASE ParkBounded(h, s)
  BY <1>1, <1>2, <1>4, <1>5, <1>7, BoundedPark
<1> QED BY <1>1, <1>6, <1>7

(* A handle is given back with its descriptor. *)
LEMMA CloseInv ==
  ASSUME TcpInv, NEW h \in TcpTable, tcp_close(h)
  PROVE  TcpInv'
<1> DEFINE less == tcpFds.open - 1
<1>1. /\ tcpCpu = h /\ tcpConn[h].at = "close"
      /\ tcpConn' = [tcpConn EXCEPT ![h] = NoHandler]
      /\ tcpFds' = [tcpFds EXCEPT !.open = less]
      /\ tcpCpu' = Pump /\ UNCHANGED <<tcpReady, tcpAcc, tcpBacklog, tcpRun>>
  BY DEF tcp_close
<1>2. NoHandler \in ConnType /\ HandlerSound(NoHandler) /\ ~NoHandler.used /\ ~NoHandler.timer
  BY DEF NoHandler, ConnType, ConnPlaces, ConnOps, HandlerSound
<1>3. tcpConn \in [TcpTable -> ConnType] /\ ReadySound /\ tcpConn[h].used /\ ~tcpConn[h].timer /\ tcpCpu # Acceptor
  BY <1>1, Users DEF TcpInv, TcpType, HandlerSound
<1>4. /\ tcpConn' \in [TcpTable -> ConnType] /\ tcpConn'[h] = NoHandler
      /\ \A g \in TcpTable : g # h => tcpConn'[g] = tcpConn[g]
  BY <1>1, <1>2, <1>3
<1>5. less \in Int
  BY Facts
<1> HIDE DEF less
<1>6. tcpFds' \in FdsType /\ tcpFds'.open = less /\ tcpFds'.others = tcpFds.others /\ tcpFds'.reserve = tcpFds.reserve
  BY <1>1, <1>5, Facts DEF FdsType
<1>7. TcpType'
  BY <1>1, <1>4, <1>6, Facts DEF TcpType
<1>8. AccSound'
  BY <1>1, <1>3, <1>6, Facts, Users DEF AccSound
<1>9. ReadySound'
  <2>1. \A g \in TcpTable : tcpConn[g].at = "ready" => tcpConn'[g].at = "ready"
    BY <1>1, <1>4
  <2> QED BY <1>1, <1>3, <2>1 DEF ReadySound
<1>10. (\A g \in TcpTable : HandlerSound(tcpConn[g]))'
  <2>1. \A g \in TcpTable : HandlerSound(tcpConn[g])
    BY DEF TcpInv
  <2> QED BY <1>2, <1>4, <2>1
<1>11. FdsSound'
  <2>1. UsedHandles' = UsedHandles \ {h} /\ h \in UsedHandles
    BY <1>2, <1>3, <1>4 DEF UsedHandles
  <2>2. Owned' = Owned - 1
    <3>1. Cardinality(UsedHandles') = Cardinality(UsedHandles) - 1
      BY <2>1, UsedCount, FS_RemoveElement
    <3>2. TimerHandles' = TimerHandles
      BY <1>2, <1>3, <1>4 DEF TimerHandles
    <3> QED BY <3>1, <3>2, UsedCount DEF Owned
  <2>3. /\ tcpAcc' = tcpAcc /\ One(tcpFds.reserve) \in Int /\ One(tcpAcc.held) \in Int
        /\ Listening' = Listening
    BY <1>1 DEF One, Listening
  <2> QED BY <1>6, <2>2, <2>3, Facts, UsedCount DEF FdsSound, less
<1> QED BY <1>7, <1>8, <1>9, <1>10, <1>11 DEF TcpInv

(* Time passes for one handler. *)
LEMMA IdleInv ==
  ASSUME TcpInv, NEW h \in TcpTable, IdlePasses(h)
  PROVE  TcpInv'
<1> DEFINE yes == TRUE
           r == tcpConn[h]
           s == [r EXCEPT !.idle = yes, !.due = yes]
<1>1. r \in ConnType /\ HandlerSound(r) /\ tcpConn \in [TcpTable -> ConnType]
  BY DEF TcpInv, TcpType
<1>2. tcpConn' = [tcpConn EXCEPT ![h] = s]
  BY <1>1 DEF IdlePasses
<1>3. UNCHANGED <<tcpCpu, tcpReady, tcpAcc, tcpFds, tcpBacklog, tcpRun>>
  BY DEF IdlePasses
<1>4. yes \in BOOLEAN
  OBVIOUS
<1> HIDE DEF yes
<1>5. /\ s \in ConnType /\ s.used = r.used /\ s.at = r.at /\ s.due = yes /\ s.expired = r.expired
      /\ s.idle = yes /\ s.verdict = r.verdict /\ s.timer = r.timer /\ s.unarmed = r.unarmed /\ s.op = r.op
  BY <1>1, <1>4 DEF ConnType
<1> HIDE DEF s
<1>6. HandlerSound(s)
  BY <1>1, <1>5 DEF HandlerSound, yes
<1> QED BY <1>2, <1>3, <1>5, <1>6, HandlerStep

-----------------------------------------------------------------------------
(* The first of the queue gets the CPU: it is in the queue nowhere else.    *)
LEMMA RunsInv ==
  ASSUME TcpInv, pump_runs
  PROVE  TcpInv'
<1> DEFINE h == Head(tcpReady)
           U == TcpTable \cup {Acceptor}
<1>1. /\ tcpCpu = Pump /\ tcpReady # <<>> /\ tcpCpu' = h /\ tcpReady' = Tail(tcpReady)
      /\ UNCHANGED <<tcpBacklog, tcpRun>>
  BY DEF pump_runs
<1>2. tcpReady \in Seq(U) /\ ReadySound /\ tcpConn \in [TcpTable -> ConnType]
  BY DEF TcpInv, TcpType
<1>3. /\ h = tcpReady[1] /\ h \in U /\ Tail(tcpReady) \in Seq(U) /\ Len(tcpReady) \in Nat /\ Len(tcpReady) > 0
      /\ Len(Tail(tcpReady)) = Len(tcpReady) - 1
      /\ \A i \in 1..Len(Tail(tcpReady)) : Tail(tcpReady)[i] = tcpReady[i + 1]
  BY <1>1, <1>2, HeadTailProperties, LenProperties, EmptySeq
<1>4. 1 \in 1..Len(tcpReady) /\ \A i \in 1..Len(Tail(tcpReady)) : i + 1 \in 1..Len(tcpReady) /\ i + 1 # 1
  BY <1>3
<1>5. \A i, j \in 1..Len(Tail(tcpReady)) : Tail(tcpReady)[i] = Tail(tcpReady)[j] => i = j
  BY <1>2, <1>3, <1>4 DEF ReadySound
<1>6. \A i \in 1..Len(Tail(tcpReady)) : Tail(tcpReady)[i] # h
  BY <1>2, <1>3, <1>4 DEF ReadySound
<1>7. \A i \in 1..Len(Tail(tcpReady)) :
        /\ Tail(tcpReady)[i] = Acceptor => tcpAcc.pc = "woken"
        /\ Tail(tcpReady)[i] \in TcpTable => tcpConn[Tail(tcpReady)[i]].at = "ready"
  BY <1>2, <1>3, <1>4 DEF ReadySound
<1>8. tcpCpu # Acceptor
  BY <1>1, Users
<1>9. CASE h = Acceptor
  <2>1. tcpAcc' = [tcpAcc EXCEPT !.pc = "accept"] /\ UNCHANGED <<tcpConn, tcpFds>>
    BY <1>9 DEF pump_runs
  <2>2. tcpAcc' \in AccType /\ tcpAcc'.pc = "accept" /\ tcpAcc'.streak = tcpAcc.streak /\ tcpAcc'.held = tcpAcc.held
    BY <2>1, Facts DEF AccType, AccPlaces
  <2>3. tcpAcc.pc = "woken"
    BY <1>2, <1>3, <1>4, <1>9 DEF ReadySound
  <2>4. tcpAcc.held = FALSE /\ tcpRun <= tcpAcc.streak
    BY <2>3, Facts DEF AccSound
  <2>5. TcpType'
    BY <1>1, <1>3, <1>9, <2>1, <2>2, Facts DEF TcpType
  <2>6. AccSound'
    BY <1>1, <1>8, <1>9, <2>2, <2>3, <2>4, Facts DEF AccSound
  <2>7. ReadySound'
    BY <1>1, <1>5, <1>6, <1>7, <1>9, <2>1 DEF ReadySound
  <2>8. (\A g \in TcpTable : HandlerSound(tcpConn[g]))'
    BY <2>1 DEF TcpInv
  <2>9. FdsSound'
    <3>1. Owned' = Owned /\ tcpFds' = tcpFds /\ Listening' = Listening
      BY <2>1, <2>2, <2>3 DEF UsedHandles, TimerHandles, Owned, Listening
    <3> QED BY <2>2, <3>1, Facts DEF FdsSound
  <2> QED BY <2>5, <2>6, <2>7, <2>8, <2>9 DEF TcpInv
<1>10. CASE h # Acceptor
  <2> DEFINE r == tcpConn[h]
             no == FALSE
             s == [r EXCEPT !.at = "run", !.timer = no]
             open == tcpFds.open - 1
  <2>1. h \in TcpTable /\ r \in ConnType /\ r.at = "ready" /\ HandlerSound(r)
    BY <1>2, <1>3, <1>4, <1>10 DEF ReadySound, TcpInv
  <2>2. tcpConn' = [tcpConn EXCEPT ![h] = s] /\ UNCHANGED tcpAcc
    BY <1>2, <1>10, <2>1 DEF pump_runs
  <2>12. tcpFds' = IF r.timer THEN [tcpFds EXCEPT !.open = open] ELSE tcpFds
    BY <1>10 DEF pump_runs
  <2>13. no \in BOOLEAN /\ open \in Int
    BY Facts
  <2> HIDE DEF no, open
  <2>3. /\ s \in ConnType /\ s.at = "run" /\ s.used = r.used /\ s.due = r.due /\ s.expired = r.expired
        /\ s.idle = r.idle /\ s.verdict = r.verdict /\ s.timer = no /\ s.unarmed = r.unarmed
    BY <2>1, <2>13 DEF ConnType, ConnPlaces
  <2>14. /\ tcpFds' \in FdsType /\ tcpFds'.others = tcpFds.others /\ tcpFds'.reserve = tcpFds.reserve
         /\ tcpFds'.open = IF r.timer THEN open ELSE tcpFds.open
    BY <2>12, <2>13, Facts DEF FdsType
  <2> HIDE DEF h, r, s
  <2>4. HandlerSound(s)
    BY <2>1, <2>3 DEF HandlerSound, no
  <2>5. /\ tcpConn' \in [TcpTable -> ConnType] /\ tcpConn'[h] = s
        /\ \A g \in TcpTable : g # h => tcpConn'[g] = tcpConn[g]
    BY <1>2, <2>1, <2>2, <2>3
  <2>6. TcpType'
    BY <1>1, <1>3, <2>1, <2>2, <2>5, <2>14, Facts DEF TcpType
  <2>7. AccSound'
    BY <1>1, <1>8, <1>10, <2>2, <2>14, Facts DEF AccSound
  <2>8. ReadySound'
    BY <1>1, <1>5, <1>6, <1>7, <2>2, <2>5 DEF ReadySound
  <2>9. (\A g \in TcpTable : HandlerSound(tcpConn[g]))'
    <3>1. \A g \in TcpTable : HandlerSound(tcpConn[g])
      BY DEF TcpInv
    <3> QED BY <2>4, <2>5, <3>1
  <2>10. FdsSound'
    <3>1. UsedHandles' = UsedHandles /\ tcpAcc' = tcpAcc
      BY <2>1, <2>2, <2>3, <2>5 DEF UsedHandles, r
    <3>2. /\ Listening' = Listening /\ One(tcpFds'.reserve) = One(tcpFds.reserve)
          /\ One(tcpFds.reserve) \in Int /\ One(tcpAcc.held) \in Int
      BY <2>14, <3>1 DEF Listening, One
    <3>3. TimerHandles' = TimerHandles \ {h} /\ (h \in TimerHandles <=> r.timer)
      BY <2>1, <2>3, <2>5 DEF TimerHandles, r, no
    <3>4. Cardinality(TimerHandles') = IF r.timer THEN Cardinality(TimerHandles) - 1 ELSE Cardinality(TimerHandles)
      BY <3>3, UsedCount, FS_RemoveElement
    <3>5. Owned' = IF r.timer THEN Owned - 1 ELSE Owned
      BY <3>1, <3>4, UsedCount DEF Owned
    <3> QED BY <2>14, <3>1, <3>2, <3>5, Facts, UsedCount DEF FdsSound, open
  <2> QED BY <2>6, <2>7, <2>8, <2>9, <2>10 DEF TcpInv
<1> QED BY <1>9, <1>10

(* One poll: who is woken was parked, so nobody is queued twice; a park     *)
(* that expired stands for an idle period that passed.                      *)
LEMMA PollsInv ==
  ASSUME TcpInv, pump_polls
  PROVE  TcpInv'
<1>1. tcpCpu = Pump /\ tcpReady = <<>> /\ tcpRun' = 0 /\ UNCHANGED <<tcpCpu, tcpBacklog>>
  BY DEF pump_polls
<1>2. PICK peers \in SUBSET ParkedHandlers :
        LET fired == {h \in ParkedHandlers : Bounded(h) /\ tcpConn[h].due}
            woken == peers \cup fired
                     \cup IF tcpAcc.pc = "parked" /\ tcpBacklog > 0 THEN {Acceptor} ELSE {}
        IN /\ woken # {}
           /\ tcpReady' \in SetToSeqs(woken)
           /\ tcpConn' = [h \in TcpTable |-> IF h \in woken
                            THEN [tcpConn[h] EXCEPT !.at = "ready", !.expired = h \in fired \ peers,
                                                    !.timer = IF h \in fired THEN FALSE ELSE @]
                            ELSE tcpConn[h]]
           /\ tcpFds' = [tcpFds EXCEPT !.open = @ - Cardinality(fired)]
           /\ tcpAcc' = IF Acceptor \in woken THEN [tcpAcc EXCEPT !.pc = "woken"] ELSE tcpAcc
  BY DEF pump_polls
<1> DEFINE fired == {h \in ParkedHandlers : Bounded(h) /\ tcpConn[h].due}
           acc   == IF tcpAcc.pc = "parked" /\ tcpBacklog > 0 THEN {Acceptor} ELSE {}
           woken == peers \cup fired \cup acc
           less  == tcpFds.open - Cardinality(fired)
<1>3. /\ tcpReady' \in SetToSeqs(woken)
      /\ tcpConn' = [h \in TcpTable |-> IF h \in woken
                       THEN [tcpConn[h] EXCEPT !.at = "ready", !.expired = h \in fired \ peers,
                                               !.timer = IF h \in fired THEN FALSE ELSE @]
                       ELSE tcpConn[h]]
      /\ tcpFds' = [tcpFds EXCEPT !.open = less]
      /\ tcpAcc' = IF Acceptor \in woken THEN [tcpAcc EXCEPT !.pc = "woken"] ELSE tcpAcc
  BY <1>2
<1>4. /\ woken \subseteq TcpTable \cup {Acceptor}
      /\ \A h \in woken \cap TcpTable : tcpConn[h].at = "parked"
      /\ \A h \in fired : tcpConn[h].due /\ Bounded(h) /\ tcpConn[h].at = "parked"
      /\ fired \subseteq woken /\ fired \subseteq TcpTable
      /\ Acceptor \in woken => tcpAcc.pc = "parked"
  BY Users DEF ParkedHandlers
<1>5. tcpConn \in [TcpTable -> ConnType] /\ \A h \in TcpTable : HandlerSound(tcpConn[h])
  BY DEF TcpInv, TcpType
<1>6. IsFiniteSet(woken)
  <2>1. IsFiniteSet(TcpTable \cup {Acceptor})
    BY FS_AddElement
  <2> QED BY <1>4, <2>1, FS_Subset
<1> HIDE DEF woken, fired, less
<1>16. /\ fired \subseteq TimerHandles /\ IsFiniteSet(fired)
       /\ Cardinality(TimerHandles \ fired) = Cardinality(TimerHandles) - Cardinality(fired)
       /\ Cardinality(fired) \in Nat
  <2>1. fired \subseteq TimerHandles
    BY <1>4, <1>5 DEF HandlerSound, Bounded, TimerHandles
  <2>2. IsFiniteSet(fired) /\ TimerHandles \cap fired = fired
    BY <2>1, UsedCount, FS_Subset
  <2>3. Cardinality(TimerHandles \ fired) = Cardinality(TimerHandles) - Cardinality(TimerHandles \cap fired)
    BY UsedCount, FS_Difference
  <2> QED BY <2>1, <2>2, <2>3, FS_CardinalityType
<1>17. less \in Int
  BY <1>16, Facts DEF less
<1>18. /\ tcpFds' \in FdsType /\ tcpFds'.open = less /\ tcpFds'.others = tcpFds.others
       /\ tcpFds'.reserve = tcpFds.reserve
  BY <1>3, <1>17, Facts DEF FdsType
<1>7. /\ tcpReady' \in Seq(woken)
      /\ \A i, j \in 1..Len(tcpReady') : tcpReady'[i] = tcpReady'[j] => i = j
      /\ \A i \in 1..Len(tcpReady') : tcpReady'[i] \in woken
  <2>1. Cardinality(woken) \in Nat
    BY <1>6, FS_CardinalityType
  <2>2. /\ tcpReady' \in [1..Cardinality(woken) -> woken]
        /\ \A i, j \in 1..Cardinality(woken) : i # j => tcpReady'[i] # tcpReady'[j]
    BY <1>3, Zenon DEF SetToSeqs
  <2>3. tcpReady' \in Seq(woken) /\ Len(tcpReady') = Cardinality(woken)
    BY <2>1, <2>2, IsASeq, LenProperties
  <2> QED BY <2>1, <2>2, <2>3
<1>8. ASSUME NEW h \in TcpTable
      PROVE  /\ tcpConn'[h] \in ConnType /\ HandlerSound(tcpConn'[h]) /\ tcpConn'[h].used = tcpConn[h].used
             /\ h \in woken => tcpConn'[h].at = "ready"
             /\ tcpConn'[h].timer <=> tcpConn[h].timer /\ h \notin fired
  <2>1. CASE h \notin woken
    BY <1>3, <1>4, <1>5, <2>1
  <2>2. CASE h \in woken
    <3> DEFINE r == tcpConn[h]
               e == h \in fired \ peers
               k == IF h \in fired THEN FALSE ELSE r.timer
               s == [r EXCEPT !.at = "ready", !.expired = e, !.timer = k]
    <3>1. r \in ConnType /\ HandlerSound(r) /\ r.at = "parked" /\ (h \in fired => r.due)
      BY <1>4, <1>5, <2>2
    <3>6. r.timer \in BOOLEAN
      BY <3>1 DEF ConnType
    <3>2. e \in BOOLEAN /\ k \in BOOLEAN /\ (e => r.due)
      <4>1. CASE h \in fired
        BY <3>1, <4>1
      <4>2. CASE h \notin fired
        BY <3>6, <4>2
      <4> QED BY <4>1, <4>2
    <3>3. tcpConn'[h] = s
      BY <1>3, <2>2
    <3> HIDE DEF r, e, k
    <3>4. /\ s \in ConnType /\ s.at = "ready" /\ s.used = r.used /\ s.due = r.due /\ s.expired = e
          /\ s.idle = r.idle /\ s.verdict = r.verdict /\ s.timer = k /\ s.unarmed = r.unarmed
      BY <3>1, <3>2 DEF ConnType, ConnPlaces
    <3> HIDE DEF s
    <3>5. HandlerSound(s)
      BY <3>1, <3>2, <3>4 DEF HandlerSound
    <3> QED BY <2>2, <3>3, <3>4, <3>5 DEF r, k
  <2> QED BY <2>1, <2>2
<1>9. tcpConn' \in [TcpTable -> ConnType]
  <2>1. tcpConn' = [h \in TcpTable |-> tcpConn'[h]]
    BY <1>3
  <2> QED BY <1>8, <2>1
<1>10. /\ tcpAcc' \in AccType /\ tcpAcc'.streak = tcpAcc.streak /\ tcpAcc'.held = tcpAcc.held
       /\ Acceptor \in woken => tcpAcc'.pc = "woken"
       /\ tcpAcc'.pc = tcpAcc.pc \/ (tcpAcc.pc = "parked" /\ tcpAcc'.pc = "woken")
  BY <1>3, <1>4, Facts DEF AccType, AccPlaces
<1>11. TcpType'
  <2>1. tcpReady' \in Seq(TcpTable \cup {Acceptor})
    BY <1>4, <1>7, SeqMonotonic
  <2>2. tcpRun' \in Nat
    BY <1>1
  <2> QED BY <1>1, <1>9, <1>10, <1>18, <2>1, <2>2, Facts DEF TcpType
<1>12. AccSound'
  <2>1. tcpCpu # Acceptor
    BY <1>1, Users
  <2>2. tcpAcc.pc \in {"parked", "woken", "ended"} /\ ~tcpAcc.held
    BY <2>1, Facts DEF AccSound
  <2>3. tcpAcc'.pc \in {"parked", "woken", "ended"} /\ ~tcpAcc'.held
    BY <1>10, <2>2
  <2>4. tcpAcc'.pc \in {"parked", "woken"} => tcpAcc'.streak = 0
    BY <1>10, Facts DEF AccSound
  <2>5. tcpAcc'.streak \in Nat /\ tcpAcc'.streak <= AcceptStreak
    BY <1>10, Facts DEF AccSound
  <2> QED BY <1>1, <2>1, <2>3, <2>4, <2>5, TcpAssumption DEF AccSound
<1>13. ReadySound'
  BY <1>7, <1>8, <1>10 DEF ReadySound
<1>14. FdsSound'
  <2>1. UsedHandles' = UsedHandles
    BY <1>8 DEF UsedHandles
  <2>2. TimerHandles' = TimerHandles \ fired
    BY <1>8 DEF TimerHandles
  <2>3. Owned' = Owned - Cardinality(fired)
    BY <1>16, <2>1, <2>2, UsedCount DEF Owned
  <2>4. /\ One(tcpAcc'.held) = One(tcpAcc.held) /\ One(tcpFds'.reserve) = One(tcpFds.reserve)
        /\ Listening' = Listening /\ One(tcpFds.reserve) \in Int /\ One(tcpAcc.held) \in Int
    BY <1>10, <1>18 DEF One, Listening
  <2> QED BY <1>16, <1>18, <2>3, <2>4, Facts, UsedCount DEF FdsSound, less
<1>15. (\A h \in TcpTable : HandlerSound(tcpConn[h]))'
  BY <1>8
<1> QED BY <1>11, <1>12, <1>13, <1>14, <1>15 DEF TcpInv

-----------------------------------------------------------------------------
(* The outside. *)
LEMMA OutsideInv ==
  ASSUME TcpInv, ClientConnects \/ OthersOpen \/ OthersClose
  PROVE  TcpInv'
<1>1. UNCHANGED <<tcpCpu, tcpReady, tcpAcc, tcpConn, tcpRun>>
  BY DEF ClientConnects, OthersOpen, OthersClose
<1>2. tcpBacklog' \in Int
  BY Facts DEF ClientConnects, OthersOpen, OthersClose
<1>3. /\ tcpFds' \in FdsType /\ tcpFds'.reserve = tcpFds.reserve /\ tcpFds'.open <= FdLimit
      /\ tcpFds'.open - tcpFds'.others = tcpFds.open - tcpFds.others
  <2> DEFINE f(n, m) == [tcpFds EXCEPT !.others = n, !.open = m]
  <2>1. ASSUME NEW n \in Int, NEW m \in Int
        PROVE  f(n, m) \in FdsType /\ f(n, m).reserve = tcpFds.reserve /\ f(n, m).open = m /\ f(n, m).others = n
    BY Facts DEF FdsType
  <2>2. \/ tcpFds' = tcpFds
        \/ tcpFds' = f(tcpFds.others + 1, tcpFds.open + 1) /\ tcpFds.open < FdLimit
        \/ tcpFds' = f(tcpFds.others - 1, tcpFds.open - 1)
    BY DEF ClientConnects, OthersOpen, OthersClose
  <2> HIDE DEF f
  <2> DEFINE n1 == tcpFds.others + 1
             m1 == tcpFds.open + 1
             n0 == tcpFds.others - 1
             m0 == tcpFds.open - 1
  <2>3. n1 \in Int /\ m1 \in Int /\ n0 \in Int /\ m0 \in Int
    BY Facts
  <2>4. CASE tcpFds' = f(n1, m1) /\ tcpFds.open < FdLimit
    <3>1. f(n1, m1) \in FdsType /\ f(n1, m1).reserve = tcpFds.reserve /\ f(n1, m1).open = m1 /\ f(n1, m1).others = n1
      BY <2>1, <2>3
    <3> QED BY <2>4, <3>1, Facts
  <2>5. CASE tcpFds' = f(n0, m0)
    <3>1. f(n0, m0) \in FdsType /\ f(n0, m0).reserve = tcpFds.reserve /\ f(n0, m0).open = m0 /\ f(n0, m0).others = n0
      BY <2>1, <2>3
    <3> QED BY <2>5, <3>1, Facts
  <2> QED BY <2>2, <2>4, <2>5, Facts
<1>4. AccSound'
  BY <1>1, <1>3, Facts DEF AccSound
<1>5. ReadySound' /\ (\A h \in TcpTable : HandlerSound(tcpConn[h]))'
  BY <1>1 DEF TcpInv, ReadySound
<1>6. TcpType'
  BY <1>1, <1>2, <1>3, Facts DEF TcpType
<1>7. FdsSound'
  <2>1. Owned' = Owned /\ Listening' = Listening /\ tcpAcc' = tcpAcc
    BY <1>1 DEF UsedHandles, TimerHandles, Owned, Listening
  <2>2. One(tcpFds.reserve) \in Int /\ One(tcpAcc.held) \in Int /\ tcpFds'.open \in Int /\ tcpFds'.others \in Int
    BY <1>3 DEF One, FdsType
  <2> QED BY <1>3, <2>1, <2>2, Facts, UsedCount DEF FdsSound
<1> QED BY <1>4, <1>5, <1>6, <1>7 DEF TcpInv

-----------------------------------------------------------------------------
(* The invariant holds when tcp_listen has returned. *)
LEMMA TcpInitInv == TcpInit => TcpInv
<1> SUFFICES ASSUME TcpInit PROVE TcpInv
  OBVIOUS
<1>1. NoHandler \in ConnType /\ HandlerSound(NoHandler) /\ ~NoHandler.used /\ ~NoHandler.timer
  BY DEF NoHandler, ConnType, ConnPlaces, ConnOps, HandlerSound
<1>2. tcpConn \in [TcpTable -> ConnType] /\ \A h \in TcpTable : tcpConn[h] = NoHandler
  BY <1>1 DEF TcpInit
<1>3. /\ tcpAcc \in AccType /\ tcpAcc.pc = "call" /\ tcpAcc.streak = 0 /\ tcpAcc.held = FALSE
  BY DEF TcpInit, AccType, AccPlaces
<1>4. /\ tcpFds \in FdsType /\ tcpFds.others = 0
      /\ \/ tcpFds.open = 2 /\ tcpFds.reserve = TRUE
         \/ tcpFds.open = 1 /\ tcpFds.reserve = FALSE
  <2>1. CASE tcpFds = [open |-> 2, reserve |-> TRUE, others |-> 0]
    BY <2>1 DEF FdsType
  <2>2. CASE tcpFds = [open |-> 1, reserve |-> FALSE, others |-> 0]
    BY <2>2 DEF FdsType
  <2> QED BY <2>1, <2>2 DEF TcpInit
<1>5. TcpType
  <2>1. tcpReady \in Seq(TcpTable \cup {Acceptor})
    BY DEF TcpInit
  <2> QED BY <1>2, <1>3, <1>4, <2>1 DEF TcpInit, TcpType
<1>6. AccSound
  BY <1>3, TcpAssumption DEF TcpInit, AccSound
<1>7. ReadySound
  BY DEF TcpInit, ReadySound
<1>8. FdsSound
  <2>1. UsedHandles = {} /\ TimerHandles = {}
    BY <1>1, <1>2 DEF UsedHandles, TimerHandles
  <2>2. Owned = 0 /\ Listening = 1
    BY <1>3, <2>1, FS_EmptySet DEF Owned, Listening, One
  <2>3. One(tcpAcc.held) = 0 /\ tcpFds.open = 1 + One(tcpFds.reserve) /\ tcpFds.open <= 2
    BY <1>3, <1>4 DEF One
  <2>4. One(tcpFds.reserve) \in Int
    BY DEF One
  <2> QED BY <1>4, <2>2, <2>3, <2>4, TcpAssumption DEF FdsSound
<1> QED BY <1>1, <1>2, <1>5, <1>6, <1>7, <1>8 DEF TcpInv

(* Every step preserves it. *)
LEMMA TcpNextInv == TcpInv /\ [TcpNext]_tcpVars => TcpInv'
<1> SUFFICES ASSUME TcpInv, [TcpNext]_tcpVars PROVE TcpInv'
  OBVIOUS
<1>1. CASE UNCHANGED tcpVars
  <2>1. UNCHANGED <<tcpCpu, tcpReady, tcpAcc, tcpConn, tcpFds, tcpBacklog, tcpRun>>
    BY <1>1 DEF tcpVars
  <2>2. TcpType' /\ AccSound' /\ ReadySound' /\ (\A h \in TcpTable : HandlerSound(tcpConn[h]))'
    BY <2>1 DEF TcpInv, TcpType, AccSound, ReadySound
  <2>3. FdsSound'
    BY <2>1 DEF TcpInv, FdsSound, UsedHandles, TimerHandles, Owned, Listening
  <2> QED BY <2>2, <2>3 DEF TcpInv
<1>2. CASE ThreadStep
  BY <1>2, CallInv, EmptyInv, TakesInv, ExhaustedInv, TableFullInv, InstallsInv, ShedOneInv, ShedEndInv,
     RunsInv, PollsInv, TcpSendInv, ReadExactInv, WaitInv, CloseInv DEF ThreadStep, AcceptDecides
<1>3. CASE accept_retry \/ accept_fails \/ ClientConnects \/ OthersOpen \/ OthersClose
  BY <1>3, RetryInv, FailsInv, OutsideInv
<1>4. CASE \E h \in TcpTable : IdlePasses(h)
  BY <1>4, IdleInv
<1> QED BY <1>1, <1>2, <1>3, <1>4 DEF TcpNext

(* Theorem: TcpInv is an invariant of the server.                           *)
THEOREM TcpInvariant == TcpSpec => []TcpInv
  BY TcpInitInv, TcpNextInv, PTL DEF TcpSpec

(* Theorem: whatever the limit, the clients and the rest of the process do, *)
(* every descriptor that tcp_accept, the shedding of the backlog and        *)
(* tcp_close leave open has an owner, and the accept loop never parks with a*)
(* connection nobody else knows of.                                         *)
THEOREM TcpDescriptors == TcpSpec => []TcpAccounted
<1>1. TcpInv => TcpAccounted
  <2> SUFFICES ASSUME TcpInv PROVE TcpAccounted
    OBVIOUS
  <2>1. FdsSound /\ AccSound
    BY DEF TcpInv
  <2>2. Listening = IF tcpAcc.pc = "ended" THEN 0 ELSE 1
    BY DEF Listening, One
  <2>3. tcpFds.open = Listening + tcpFds.others + Cardinality(UsedHandles) + Cardinality(TimerHandles)
                        + One(tcpFds.reserve) + One(tcpAcc.held)
    <3>1. One(tcpFds.reserve) \in Int /\ One(tcpAcc.held) \in Int
      BY DEF One
    <3> QED BY <3>1, Facts, UsedCount DEF Owned
  <2> QED BY <2>1, <2>2, <2>3 DEF FdsSound, AccSound, TcpAccounted, UsedHandles, TimerHandles, One
<1> QED BY <1>1, TcpInvariant, PTL

(* Theorem: tcp_send_all answers a timeout only when a whole idle period    *)
(* passed without progress, or the descriptors had run out when it wanted   *)
(* its timer: an expired park is not carried over a send that made progress,*)
(* in any order of polls, timers and steps.                                 *)
THEOREM TcpTimeouts == TcpSpec => []TcpTimeoutTruthful
<1>1. TcpInv => TcpTimeoutTruthful
  BY DEF TcpInv, HandlerSound, TcpTimeoutTruthful
<1> QED BY <1>1, TcpInvariant, PTL

(* Theorem: between two polls tcp_accept hands out at most ACCEPT_FAIR_STREAK*)
(* connections, for every streak, backlog and table.                        *)
THEOREM TcpFairAccept == TcpSpec => []TcpAcceptYields
<1>1. TcpInv => TcpAcceptYields
  BY DEF TcpInv, AccSound, TcpAcceptYields
<1> QED BY <1>1, TcpInvariant, PTL
=============================================================================
