----------------------------- MODULE QueueProofs -----------------------------
(***************************************************************************)
(* Proofs about the applets that take things in one after another, have to *)
(* deal with each of them once and may lose none.                          *)
(*                                                                         *)
(* svlogd keeps every line it has read, but for those it held when it      *)
(* ended, in the order of reading and in files that are no longer than     *)
(* allowed.  lpr and lpd lose no job.  crond starts what is due at every   *)
(* minute it is up for.  xargs runs every item once, within the limits of  *)
(* its options.  vi takes keys, and its cursor stays in the buffer.        *)
(* add-shell and remove-shell keep the shells that nobody names.           *)
(***************************************************************************)
EXTENDS Svlogd, Spool, Cron, Xargs, Vi, ShellList, SequenceTheorems, FiniteSetTheorems,
        WellFoundedInduction, TLAPS

-----------------------------------------------------------------------------
(* Numbers, functions defined by recursion, sequences. *)

(* A set of numbers has a least.                                           *)
LEMMA LeastNat ==
  ASSUME NEW T, T \subseteq Nat, T # {}
  PROVE  \E x \in T : \A y \in T : x <= y
<1> DEFINE R == {ss \in Nat \X Nat : ss[1] < ss[2]}
<1>1. OpToRel(<, Nat) = R
  BY Zenon DEF OpToRel
<1>2. IsWellFoundedOn(R, Nat)
  BY <1>1, NatLessThanWellFounded, Zenon
<1> HIDE DEF R
<1>3. PICK x \in T : \A y \in T : <<y, x>> \notin R
  BY <1>2, WFMin
<1>4. \A y \in T : ~(y < x)
  BY <1>3 DEF R
<1> QED
  BY <1>4

(* Induction up to a number.                                               *)
LEMMA UpTo ==
  ASSUME NEW N \in Nat, NEW P, 0 \in P, \A j \in 1 .. N : j - 1 \in P => j \in P
  PROVE  0 .. N \subseteq P
<1> DEFINE T == (0 .. N) \ P
<1> SUFFICES ASSUME T # {} PROVE FALSE
  OBVIOUS
<1>1. PICK x \in T : \A y \in T : x <= y
  <2>1. T \subseteq Nat
    OBVIOUS
  <2> HIDE DEF T
  <2> QED BY <2>1, LeastNat
<1>2. x \in 1 .. N /\ x - 1 \in 0 .. N /\ ~(x <= x - 1)
  OBVIOUS
<1> QED BY <1>1, <1>2

(* Functions defined by recursion on 0 .. N: a definition of one says      *)
(* nothing until such a function is known to exist.                        *)

(* A function on 0 .. N may be given by its first value and the step from  *)
(* each value to the next.                                                 *)
Steps(f, S, N, a, G) ==
  f \in [0 .. N -> S] /\ f[0] = a /\ \A j \in 1 .. N : f[j] = G[<<f[j - 1], j>>]

LEMMA RecursionExists ==
  ASSUME NEW N \in Nat, NEW S, NEW a \in S, NEW G \in [S \X (1 .. N) -> S]
  PROVE  \E f : Steps(f, S, N, a, G)
<1> DEFINE P == {n \in 0 .. N : \E f : Steps(f, S, n, a, G)}
<1>1. 0 \in P
  <2> DEFINE f == [j \in 0 .. 0 |-> a]
  <2>1. Steps(f, S, 0, a, G)
    BY DEF Steps
  <2> QED BY <2>1
<1>2. ASSUME NEW j \in 1 .. N, j - 1 \in P PROVE j \in P
  <2>1. PICK f : Steps(f, S, j - 1, a, G)
    BY <1>2
  <2> DEFINE g == [k \in 0 .. j |-> IF k = j THEN G[<<f[j - 1], j>>] ELSE f[k]]
  <2>2. f \in [0 .. j - 1 -> S] /\ f[0] = a /\ \A k \in 1 .. j - 1 : f[k] = G[<<f[k - 1], k>>]
    BY <2>1 DEF Steps
  <2>3. f[j - 1] \in S /\ <<f[j - 1], j>> \in S \X (1 .. N)
    BY <2>2
  <2>4. g \in [0 .. j -> S] /\ g[0] = a
    BY <2>2, <2>3
  <2>5. ASSUME NEW k \in 1 .. j PROVE g[k] = G[<<g[k - 1], k>>]
    <3>1. CASE k = j
      <4>1. k \in 0 .. j /\ k - 1 \in 0 .. j /\ k - 1 # j
        BY <3>1
      <4>2. g[k] = G[<<f[j - 1], j>>] /\ g[k - 1] = f[k - 1]
        BY <3>1, <4>1
      <4> QED BY <3>1, <4>2
    <3>2. CASE k # j
      <4>1. k \in 1 .. j - 1 /\ k - 1 \in 0 .. j /\ k - 1 # j /\ k \in 0 .. j
        BY <3>2
      <4>2. g[k] = f[k] /\ g[k - 1] = f[k - 1]
        BY <4>1
      <4> QED BY <2>2, <4>1, <4>2
    <3> QED BY <3>1, <3>2
  <2>6. Steps(g, S, j, a, G)
    <3> HIDE DEF g
    <3> QED BY <2>4, <2>5 DEF Steps
  <2> QED BY <2>6
<1> HIDE DEF P
<1>3. 0 .. N \subseteq P
  BY <1>1, <1>2, UpTo
<1> QED BY <1>3 DEF P

LEMMA GreatestNat ==
  ASSUME NEW T, T \subseteq Nat, T # {}, NEW n \in Nat, \A x \in T : x <= n
  PROVE  Max(T) \in T /\ \A y \in T : y <= Max(T)
<1> DEFINE U == {m \in Nat : \A x \in T : x <= m}
<1>1. PICK m \in U : \A y \in U : m <= y
  BY LeastNat
<1>2. m \in T
  <2> SUFFICES ASSUME m \notin T PROVE FALSE
    OBVIOUS
  <2>1. \A x \in T : x < m
    BY <1>1
  <2>2. \A x, y \in Nat : x < y => y - 1 \in Nat /\ x <= y - 1 /\ y - 1 < y /\ ~(y <= y - 1)
    OBVIOUS
  <2>3. m \in Nat /\ m - 1 \in Nat /\ \A x \in T : x <= m - 1
    BY <2>1, <2>2
  <2> QED
    BY <1>1, <2>2, <2>3
<1>3. \A x \in T : m >= x
  BY <1>1
<1> QED
  BY <1>2, <1>3 DEF Max

(* A sequence that is longer by one.                                       *)
LEMMA AppendFacts ==
  ASSUME NEW S, NEW s \in Seq(S), NEW x \in S
  PROVE  /\ Append(s, x) \in Seq(S) /\ Append(s, x) # <<>> /\ Last(Append(s, x)) = x
         /\ Len(s) \in Nat /\ Len(Append(s, x)) = Len(s) + 1
         /\ DOMAIN s = 1 .. Len(s) /\ DOMAIN Append(s, x) = 1 .. Len(s) + 1
         /\ \A k \in 1 .. Len(s) : Append(s, x)[k] = s[k]
         /\ Append(s, x)[Len(s) + 1] = x
  BY DEF Last

-----------------------------------------------------------------------------
(* svlogd. *)

(* svlogd: what it holds are the last lines it has read, and what the      *)
(* files hold is older; it knows the size of current whenever it may write *)
(* to it; and a segment is empty just when it has no bytes.                *)
Entry == Nat \X (Nat \ {0})
SvlogdTypes ==
  /\ sent \in 0 .. Len(LogLines) /\ buffer \in Seq(1 .. Len(LogLines))
  /\ current \in Seq(Entry) /\ rotated \in Seq(Seq(Entry)) /\ present \in BOOLEAN
  /\ sv \in {"down", "up", "closed", "renamed"} /\ size \in Nat
HoldsLast ==
  /\ Len(buffer) <= sent
  /\ \A i \in DOMAIN buffer : buffer[i] = sent - Len(buffer) + i
  /\ \A n \in Recorded \cup lost : n <= sent - Len(buffer)
SizeKnown ==
  /\ sv = "up" => size = Bytes(current)
  /\ sv = "down" => buffer = <<>>
  /\ sv = "renamed" => current = <<>>
SvlogdIInv == SvlogdTypes /\ HoldsLast /\ SizeKnown /\ LogKept

(* The bytes of a segment, one entry after the other.                      *)
LEMMA BytesSteps ==
  ASSUME NEW s \in Seq(Entry)
  PROVE \E f \in [0 .. Len(s) -> Nat] :
           /\ Bytes(s) = f[Len(s)] /\ f[0] = 0
           /\ \A j \in 1 .. Len(s) : f[j] = f[j - 1] + s[j][2]
<1> DEFINE N == Len(s)
           len(j) == s[j][2]
           G == [z \in Nat \X (1 .. N) |-> z[1] + len(z[2])]
<1>1. N \in Nat /\ \A j \in 1 .. N : len(j) \in Nat
  <2>1. N \in Nat /\ \A j \in 1 .. N : s[j] \in Entry
    OBVIOUS
  <2> QED BY <2>1 DEF Entry
<1> HIDE DEF N, len
<1>2. PICK f : Steps(f, Nat, N, 0, G)
  <2>1. G \in [Nat \X (1 .. N) -> Nat]
    BY <1>1
  <2> HIDE DEF G
  <2> QED BY <1>1, <2>1, RecursionExists
<1>3. f \in [0 .. N -> Nat] /\ f[0] = 0 /\ \A j \in 1 .. N : f[j] = f[j - 1] + len(j)
  <2>1. f \in [0 .. N -> Nat] /\ f[0] = 0 /\ \A j \in 1 .. N : f[j] = G[<<f[j - 1], j>>]
    BY <1>2, Zenon DEF Steps
  <2>2. ASSUME NEW j \in 1 .. N PROVE f[j] = f[j - 1] + len(j)
    <3>1. f[j - 1] \in Nat
      BY <1>1, <2>1
    <3> QED BY <2>1, <3>1
  <2> QED BY <2>1, <2>2
<1> DEFINE Fix(h) == h = [j \in 0 .. N |-> IF j = 0 THEN 0 ELSE h[j - 1] + len(j)]
           t == CHOOSE h : Fix(h)
<1>4. Fix(f)
  BY <1>1, <1>3
<1>5. Fix(t)
  <2> HIDE DEF Fix
  <2> QED BY <1>4
<1>6. Bytes(s) = t[N]
  BY DEF Bytes, N, len
<1>7. \A h : Fix(h) => /\ h[0] = 0 /\ \A j \in 1 .. N : h[j] = h[j - 1] + len(j)
                       /\ h = [j \in 0 .. N |-> h[j]]
  BY <1>1
<1> HIDE DEF Fix, t
<1>8. \A j \in 0 .. N : t[j] \in Nat
  <2> DEFINE P == {j \in 0 .. N : t[j] \in Nat}
  <2>1. 0 \in P /\ \A j \in 1 .. N : j - 1 \in P => j \in P
    BY <1>1, <1>5, <1>7
  <2> HIDE DEF P
  <2>2. 0 .. N \subseteq P
    BY <1>1, <2>1, UpTo
  <2> QED BY <2>2 DEF P
<1>9. t \in [0 .. N -> Nat]
  BY <1>5, <1>7, <1>8
<1> QED BY <1>5, <1>6, <1>7, <1>9 DEF N, len

LEMMA BytesGrow ==
  ASSUME NEW s \in Seq(Entry), NEW x \in Entry
  PROVE  /\ Bytes(s) \in Nat /\ Bytes(<<>>) = 0 /\ (Bytes(s) = 0 => s = <<>>)
         /\ Bytes(Append(s, x)) = Bytes(s) + x[2] /\ x[2] \in Nat \ {0}
<1> DEFINE N == Len(s)
           longer == Append(s, x)
           len(j) == longer[j][2]
<1>1. /\ N \in Nat /\ longer \in Seq(Entry) /\ Len(longer) = N + 1 /\ longer[N + 1] = x
      /\ \A j \in 1 .. N : longer[j] = s[j] /\ s[j] \in Entry
  OBVIOUS
<1>2. PICK f \in [0 .. N -> Nat] :
        /\ Bytes(s) = f[N] /\ f[0] = 0
        /\ \A j \in 1 .. N : f[j] = f[j - 1] + len(j)
  BY <1>1, BytesSteps
<1>3. PICK g \in [0 .. N + 1 -> Nat] :
        /\ Bytes(longer) = g[N + 1] /\ g[0] = 0
        /\ \A j \in 1 .. N + 1 : g[j] = g[j - 1] + len(j)
  <2> HIDE DEF longer
  <2>1. PICK g \in [0 .. Len(longer) -> Nat] :
          /\ Bytes(longer) = g[Len(longer)] /\ g[0] = 0
          /\ \A j \in 1 .. Len(longer) : g[j] = g[j - 1] + longer[j][2]
    BY <1>1, BytesSteps
  <2>2. Len(longer) = N + 1
    BY <1>1
  <2> QED BY <2>1, <2>2
<1>4. \A j \in 1 .. N : len(j) \in Nat \ {0}
  BY <1>1 DEF Entry
<1>5. x[2] \in Nat \ {0} /\ len(N + 1) = x[2]
  BY <1>1 DEF Entry
<1> HIDE DEF N, longer, len
<1>6. f[N] = g[N]
  <2> DEFINE P == {j \in 0 .. N : f[j] = g[j]}
  <2>1. 0 \in P /\ \A j \in 1 .. N : j - 1 \in P => j \in P
    BY <1>1, <1>2, <1>3
  <2> HIDE DEF P
  <2>2. 0 .. N \subseteq P
    BY <1>1, <2>1, UpTo
  <2> QED BY <1>1, <2>2 DEF P
<1>7. g[N + 1] = g[N] + len(N + 1) /\ f[N] \in Nat
  BY <1>1, <1>2, <1>3
<1>8. Bytes(<<>>) = 0
  <2>1. <<>> \in Seq(Entry) /\ Len(<<>>) = 0
    OBVIOUS
  <2> QED BY <2>1, BytesSteps
<1>9. Bytes(s) = 0 => s = <<>>
  <2> SUFFICES ASSUME N # 0 PROVE f[N] # 0
    BY <1>1, <1>2 DEF N
  <2>1. N \in 1 .. N /\ N - 1 \in 0 .. N
    BY <1>1
  <2>2. f[N] = f[N - 1] + len(N) /\ f[N - 1] \in Nat /\ len(N) \in Nat \ {0}
    BY <1>2, <1>4, <2>1
  <2> QED BY <2>2
<1> QED BY <1>2, <1>3, <1>5, <1>6, <1>7, <1>8, <1>9 DEF longer

(* The segments, and with an entry more or after a rotation.               *)
LEMMA SegmentFacts ==
  ASSUME SvlogdTypes
  PROVE  /\ Len(rotated) \in Nat /\ DOMAIN Segments = 1 .. Len(rotated) + 1
         /\ Segments[Len(rotated) + 1] = current
         /\ \A f \in 1 .. Len(rotated) : Segments[f] = rotated[f]
         /\ \A f \in DOMAIN Segments : Segments[f] \in Seq(Entry)
<1> DEFINE S == Seq(Entry)
<1>1. rotated \in Seq(S) /\ current \in S
  BY DEF SvlogdTypes
<1> HIDE DEF S
<1>2. /\ Len(rotated) \in Nat /\ DOMAIN Segments = 1 .. Len(rotated) + 1
      /\ Segments[Len(rotated) + 1] = current
      /\ \A f \in 1 .. Len(rotated) : Segments[f] = rotated[f] /\ rotated[f] \in S
  BY <1>1, AppendFacts DEF Segments
<1>3. \A f \in DOMAIN Segments : f = Len(rotated) + 1 \/ f \in 1 .. Len(rotated)
  BY <1>2
<1>4. \A f \in DOMAIN Segments : Segments[f] \in S
  BY <1>1, <1>2, <1>3
<1> QED BY <1>2, <1>4 DEF S

LEMMA LinesInMeans ==
  ASSUME NEW segments, NEW n
  PROVE  n \in LinesIn(segments) <=>
           \E f \in DOMAIN segments : \E i \in DOMAIN segments[f] : n = segments[f][i][1]
<1> DEFINE E == UNION {ToSet(segments[f]) : f \in DOMAIN segments}
<1>1. \A x : x \in E <=> \E f \in DOMAIN segments : \E i \in DOMAIN segments[f] : x = segments[f][i]
  BY DEF ToSet
<1>2. LinesIn(segments) = {x[1] : x \in E}
  BY DEF LinesIn
<1> HIDE DEF E
<1>3. n \in LinesIn(segments) <=> \E x \in E : n = x[1]
  BY <1>2
<1> QED BY <1>1, <1>3

LEMMA SegmentGrows ==
  ASSUME SvlogdTypes, SvlogdTypes', LinesInOrder, SegmentsBounded, NEW x \in Entry,
         current' = Append(current, x), UNCHANGED rotated,
         \A n \in Recorded : n < x[1],
         Bytes(current) + x[2] <= MaxSize \/ current = <<>>
  PROVE  LinesInOrder' /\ SegmentsBounded' /\ Recorded' = Recorded \cup {x[1]}
<1> DEFINE L == Len(rotated)
           C == Len(current)
<1>1. /\ L \in Nat /\ DOMAIN Segments = 1 .. L + 1 /\ Segments[L + 1] = current
      /\ \A f \in 1 .. L : Segments[f] = rotated[f]
      /\ \A f \in 1 .. L + 1 : Segments[f] \in Seq(Entry)
  BY SegmentFacts
<1>2. /\ DOMAIN Segments' = 1 .. L + 1 /\ Segments'[L + 1] = current'
      /\ \A f \in 1 .. L : Segments'[f] = rotated[f]
  <2> DEFINE S == Seq(Entry)
  <2>1. rotated \in Seq(S) /\ current' \in S
    BY DEF SvlogdTypes
  <2> HIDE DEF S
  <2>2. Segments' = Append(rotated, current')
    BY DEF Segments
  <2> QED BY <2>1, <2>2, AppendFacts
<1>3. /\ C \in Nat /\ DOMAIN current = 1 .. C /\ DOMAIN current' = 1 .. C + 1
      /\ \A i \in 1 .. C : current'[i] = current[i]
      /\ current'[C + 1] = x /\ Len(current') = C + 1
  <2>1. current \in Seq(Entry)
    BY DEF SvlogdTypes
  <2> QED BY <2>1, AppendFacts
<1> HIDE DEF L, C
<1>4. \A f \in 1 .. L : Segments'[f] = Segments[f] /\ f \in DOMAIN Segments /\ f # L + 1
  BY <1>1, <1>2
<1>5. ASSUME NEW f \in DOMAIN Segments', NEW i \in DOMAIN Segments'[f]
      PROVE  \/ f \in DOMAIN Segments /\ i \in DOMAIN Segments[f] /\ Segments'[f][i] = Segments[f][i]
             \/ f = L + 1 /\ i = C + 1 /\ Segments'[f][i] = x
  <2>1. CASE f \in 1 .. L
    BY <1>4, <1>5, <2>1
  <2>2. CASE f = L + 1
    <3>1. i \in 1 .. C + 1
      BY <1>2, <1>3, <1>5, <2>2
    <3>2. CASE i \in 1 .. C
      BY <1>1, <1>2, <1>3, <2>2, <3>2
    <3>3. CASE i = C + 1
      BY <1>2, <1>3, <2>2, <3>3
    <3> QED BY <1>3, <3>1, <3>2, <3>3
  <2> QED BY <1>1, <1>2, <2>1, <2>2
<1>6. ASSUME NEW f \in DOMAIN Segments, NEW i \in DOMAIN Segments[f]
      PROVE  /\ f \in DOMAIN Segments' /\ i \in DOMAIN Segments'[f] /\ Segments'[f][i] = Segments[f][i]
             /\ Segments[f][i][1] \in Recorded /\ f \in 1 .. L + 1
             /\ f = L + 1 => i \in 1 .. C
  <2>1. f \in 1 .. L + 1 /\ Segments[f][i][1] \in Recorded
    BY <1>1, <1>6, LinesInMeans DEF Recorded
  <2>2. CASE f \in 1 .. L
    BY <1>1, <1>2, <1>4, <1>6, <2>1, <2>2
  <2>3. CASE f = L + 1
    <3>1. i \in 1 .. C
      BY <1>1, <1>3, <1>6, <2>3
    <3>2. i \in 1 .. C + 1
      BY <1>3, <3>1
    <3> QED BY <1>1, <1>2, <1>3, <2>1, <2>3, <3>1, <3>2
  <2> QED BY <1>1, <2>1, <2>2, <2>3
<1>7. Recorded' = Recorded \cup {x[1]}
  <2>1. ASSUME NEW n \in Recorded' PROVE n \in Recorded \cup {x[1]}
    <3>1. PICK f \in DOMAIN Segments' : \E i \in DOMAIN Segments'[f] : n = Segments'[f][i][1]
      BY <2>1, LinesInMeans DEF Recorded
    <3>2. PICK i \in DOMAIN Segments'[f] : n = Segments'[f][i][1]
      BY <3>1
    <3>3. CASE f \in DOMAIN Segments /\ i \in DOMAIN Segments[f] /\ Segments'[f][i] = Segments[f][i]
      BY <3>2, <3>3, LinesInMeans DEF Recorded
    <3>4. CASE Segments'[f][i] = x
      BY <3>2, <3>4
    <3> QED BY <1>5, <3>1, <3>2, <3>3, <3>4
  <2>2. ASSUME NEW n \in Recorded PROVE n \in Recorded'
    <3>1. PICK f \in DOMAIN Segments : \E i \in DOMAIN Segments[f] : n = Segments[f][i][1]
      BY <2>2, LinesInMeans DEF Recorded
    <3>2. PICK i \in DOMAIN Segments[f] : n = Segments[f][i][1]
      BY <3>1
    <3> QED BY <1>6, <3>2, LinesInMeans DEF Recorded
  <2>3. x[1] \in Recorded'
    <3>1. L + 1 \in DOMAIN Segments' /\ C + 1 \in DOMAIN Segments'[L + 1] /\ Segments'[L + 1][C + 1] = x
      BY <1>1, <1>2, <1>3
    <3> QED BY <3>1, LinesInMeans DEF Recorded
  <2> QED BY <2>1, <2>2, <2>3
<1>8. LinesInOrder'
  <2> SUFFICES ASSUME NEW f \in DOMAIN Segments', NEW g \in DOMAIN Segments',
                      NEW i \in DOMAIN Segments'[f], NEW j \in DOMAIN Segments'[g],
                      f < g \/ (f = g /\ i < j)
               PROVE  Segments'[f][i][1] < Segments'[g][j][1]
    BY DEF LinesInOrder
  <2>1. CASE f = L + 1 /\ i = C + 1
    <3>1. g \in 1 .. L + 1 /\ (g = L + 1 => j \in 1 .. C + 1)
      BY <1>2, <1>3
    <3> QED BY <1>1, <1>3, <2>1, <3>1
  <2>2. CASE f \in DOMAIN Segments /\ i \in DOMAIN Segments[f] /\ Segments'[f][i] = Segments[f][i]
    <3>1. CASE g \in DOMAIN Segments /\ j \in DOMAIN Segments[g] /\ Segments'[g][j] = Segments[g][j]
      BY <2>2, <3>1 DEF LinesInOrder
    <3>2. CASE Segments'[g][j] = x
      <4>1. Segments[f][i][1] \in Recorded
        BY <1>6, <2>2
      <4> QED BY <2>2, <3>2, <4>1
    <3> QED BY <1>5, <3>1, <3>2
  <2> QED BY <1>5, <2>1, <2>2
<1>9. SegmentsBounded'
  <2> SUFFICES ASSUME NEW f \in DOMAIN Segments'
               PROVE  Bytes(Segments'[f]) <= MaxSize \/ Len(Segments'[f]) <= 1
    BY DEF SegmentsBounded
  <2>1. CASE f \in 1 .. L
    BY <1>4, <2>1 DEF SegmentsBounded
  <2>2. CASE f = L + 1
    <3>1. current \in Seq(Entry) /\ Segments'[f] = current'
      BY <1>2, <2>2 DEF SvlogdTypes
    <3>2. Bytes(current') = Bytes(current) + x[2]
      BY <3>1, BytesGrow
    <3>3. current = <<>> => C = 0
      BY DEF C
    <3> QED BY <1>3, <3>1, <3>2, <3>3
  <2> QED BY <1>1, <1>2, <2>1, <2>2
<1> QED BY <1>7, <1>8, <1>9

LEMMA SegmentRotates ==
  ASSUME SvlogdTypes, LinesInOrder, SegmentsBounded,
         rotated' = Append(rotated, current), current' = <<>>
  PROVE  LinesInOrder' /\ SegmentsBounded' /\ Recorded' = Recorded
<1> DEFINE L == Len(rotated)
<1>1. /\ L \in Nat /\ DOMAIN Segments = 1 .. L + 1
      /\ \A f \in 1 .. L + 1 : Segments[f] \in Seq(Entry)
  BY SegmentFacts
<1>2. /\ DOMAIN Segments' = 1 .. L + 2 /\ Segments'[L + 2] = <<>>
      /\ \A f \in 1 .. L + 1 : Segments'[f] = Segments[f]
  <2> DEFINE S == Seq(Entry)
  <2>1. rotated \in Seq(S) /\ current \in S /\ <<>> \in S
    BY DEF SvlogdTypes
  <2> HIDE DEF S
  <2>2. rotated' \in Seq(S) /\ Len(rotated') = L + 1 /\ rotated' = Segments
    BY <2>1, AppendFacts DEF Segments
  <2>3. Segments' = Append(rotated', <<>>)
    BY DEF Segments
  <2>4. /\ DOMAIN Segments' = 1 .. Len(rotated') + 1 /\ Segments'[Len(rotated') + 1] = <<>>
        /\ \A f \in 1 .. Len(rotated') : Segments'[f] = rotated'[f]
    <3> HIDE DEF L
    <3> QED BY <2>1, <2>2, <2>3, AppendFacts
  <2> QED BY <1>1, <2>2, <2>4
<1> HIDE DEF L
<1>3. DOMAIN <<>> = {}
  OBVIOUS
<1>4. \A f \in DOMAIN Segments' : \A i \in DOMAIN Segments'[f] : f \in DOMAIN Segments
  BY <1>1, <1>2, <1>3
<1>5. \A f \in DOMAIN Segments : f \in DOMAIN Segments' /\ Segments'[f] = Segments[f]
  BY <1>1, <1>2
<1>6. LinesInOrder'
  BY <1>4, <1>5 DEF LinesInOrder
<1>7. Recorded' = Recorded
  <2>1. \A n : n \in Recorded' <=> n \in Recorded
    <3> TAKE n
    <3>1. n \in Recorded <=> \E f \in DOMAIN Segments : \E i \in DOMAIN Segments[f] : n = Segments[f][i][1]
      BY LinesInMeans DEF Recorded
    <3>2. n \in Recorded' <=>
            \E f \in DOMAIN Segments' : \E i \in DOMAIN Segments'[f] : n = Segments'[f][i][1]
      BY LinesInMeans DEF Recorded
    <3> QED BY <1>4, <1>5, <3>1, <3>2
  <2> QED BY <2>1
<1>8. SegmentsBounded'
  <2> SUFFICES ASSUME NEW f \in DOMAIN Segments'
               PROVE  Bytes(Segments'[f]) <= MaxSize \/ Len(Segments'[f]) <= 1
    BY DEF SegmentsBounded
  <2>1. CASE f \in DOMAIN Segments
    BY <1>5, <2>1 DEF SegmentsBounded
  <2>2. CASE f = L + 2
    BY <1>2, <2>2
  <2> QED BY <1>1, <1>2, <2>1, <2>2
<1> QED BY <1>6, <1>7, <1>8

LEMMA SegmentsStay ==
  ASSUME LinesInOrder, SegmentsBounded, UNCHANGED <<rotated, current>>
  PROVE  LinesInOrder' /\ SegmentsBounded' /\ Recorded' = Recorded
<1>1. Segments' = Segments
  BY DEF Segments
<1> QED BY <1>1 DEF LinesInOrder, SegmentsBounded, Recorded

LEMMA SvlogdBegins == SvlogdInit => SvlogdIInv
<1> SUFFICES ASSUME SvlogdInit PROVE SvlogdIInv
  OBVIOUS
<1> USE SvlogdAssumption DEF SvlogdInit
<1>1. SvlogdTypes
  <2>1. /\ <<>> \in Seq(Seq(Entry)) /\ <<>> \in Seq(Entry) /\ <<>> \in Seq(1 .. Len(LogLines))
        /\ 0 \in 0 .. Len(LogLines) /\ 0 \in Nat
    OBVIOUS
  <2> QED BY <2>1 DEF SvlogdTypes
<1>2. DOMAIN Segments = {1} /\ Segments[1] = <<>> /\ DOMAIN <<>> = {}
  BY DEF Segments
<1>3. Recorded = {}
  <2>1. \A n : n \notin Recorded
    BY <1>2, LinesInMeans DEF Recorded
  <2> QED BY <2>1
<1>4. ToSet(buffer) = {} /\ DOMAIN buffer = {} /\ Len(buffer) = 0
  BY DEF ToSet
<1>5. HoldsLast
  BY <1>3, <1>4 DEF HoldsLast
<1>6. LogKept
  <2>1. LinesInOrder
    BY <1>2 DEF LinesInOrder
  <2>2. LinesAccounted
    BY <1>3, <1>4 DEF LinesAccounted
  <2>3. SegmentsBounded
    BY <1>2 DEF SegmentsBounded
  <2> QED BY <2>1, <2>2, <2>3 DEF LogKept
<1> QED BY <1>1, <1>5, <1>6 DEF SvlogdIInv, SizeKnown

(* The line at hand is newer than all that is in the files, and the last   *)
(* ones are left when it is taken.                                         *)
LEMMA AtHand ==
  ASSUME SvlogdIInv, buffer # <<>>
  PROVE  /\ Head(buffer) \in 1 .. Len(LogLines) /\ Head(buffer) = sent - Len(buffer) + 1
         /\ Line1 \in Nat \ {0} /\ \A n \in Recorded \cup lost : n < Head(buffer)
         /\ Len(buffer) \in Nat \ {0} /\ sent \in Nat
         /\ Tail(buffer) \in Seq(1 .. Len(LogLines)) /\ Len(Tail(buffer)) = Len(buffer) - 1
         /\ \A i \in DOMAIN Tail(buffer) : Tail(buffer)[i] = sent - Len(Tail(buffer)) + i
         /\ ToSet(buffer) = {Head(buffer)} \cup ToSet(Tail(buffer))
<1>1. /\ buffer \in Seq(1 .. Len(LogLines)) /\ sent \in 0 .. Len(LogLines) /\ Len(LogLines) \in Nat
      /\ LogLines \in Seq(Nat \ {0})
  BY SvlogdAssumption DEF SvlogdIInv, SvlogdTypes
<1>2. Head(buffer) = buffer[1] /\ Len(buffer) \in Nat \ {0} /\ DOMAIN buffer = 1 .. Len(buffer)
  BY <1>1
<1>3. /\ \A i \in 1 .. Len(buffer) : buffer[i] = sent - Len(buffer) + i
      /\ \A n \in Recorded \cup lost : n <= sent - Len(buffer)
  BY <1>2 DEF SvlogdIInv, HoldsLast
<1>4. Head(buffer) \in 1 .. Len(LogLines) /\ Head(buffer) = sent - Len(buffer) + 1
  BY <1>1, <1>2, <1>3
<1>5. Line1 \in Nat \ {0}
  BY <1>1, <1>4 DEF Line1
<1>6. /\ Tail(buffer) \in Seq(1 .. Len(LogLines)) /\ Len(Tail(buffer)) = Len(buffer) - 1
      /\ DOMAIN Tail(buffer) = 1 .. Len(buffer) - 1
      /\ \A i \in 1 .. Len(buffer) - 1 : Tail(buffer)[i] = buffer[i + 1]
  BY <1>1, <1>2
<1>7. \A n \in Recorded \cup lost : n < Head(buffer)
  <2>1. sent - Len(buffer) \in Int /\ Head(buffer) = (sent - Len(buffer)) + 1
    BY <1>1, <1>2, <1>4
  <2>2. \A n \in Recorded \cup lost : n \in Int
    BY DEF SvlogdIInv, LogKept, LinesAccounted
  <2> QED BY <1>3, <2>1, <2>2
<1>8. \A i \in DOMAIN Tail(buffer) : Tail(buffer)[i] = sent - Len(Tail(buffer)) + i
  <2> TAKE i \in DOMAIN Tail(buffer)
  <2>1. i \in 1 .. Len(buffer) - 1 /\ i + 1 \in 1 .. Len(buffer)
    BY <1>2, <1>6
  <2>2. Tail(buffer)[i] = sent - Len(buffer) + (i + 1)
    BY <1>3, <1>6, <2>1
  <2> QED BY <1>1, <1>2, <1>6, <2>1, <2>2
<1>9. ToSet(buffer) = {Head(buffer)} \cup ToSet(Tail(buffer))
  <2>1. \A i \in 1 .. Len(buffer) : i = 1 \/ i - 1 \in 1 .. Len(buffer) - 1
    BY <1>2
  <2>2. \A i \in 1 .. Len(buffer) : i = 1 \/ buffer[i] = Tail(buffer)[i - 1]
    BY <1>2, <1>6, <2>1
  <2>3. \A i \in 1 .. Len(buffer) - 1 : i + 1 \in 1 .. Len(buffer)
    BY <1>2
  <2>4. 1 \in 1 .. Len(buffer)
    BY <1>2
  <2>5. ToSet(Tail(buffer)) = {Tail(buffer)[i] : i \in 1 .. Len(buffer) - 1}
    BY <1>6 DEF ToSet
  <2>6. ToSet(buffer) = {buffer[i] : i \in 1 .. Len(buffer)}
    BY <1>2 DEF ToSet
  <2>7. ToSet(Tail(buffer)) \subseteq ToSet(buffer)
    BY <1>6, <2>3, <2>5, <2>6
  <2>8. ToSet(buffer) \subseteq {Head(buffer)} \cup ToSet(Tail(buffer))
    BY <1>2, <2>1, <2>2, <2>5, <2>6
  <2>9. Head(buffer) \in ToSet(buffer)
    BY <1>2, <2>4, <2>6
  <2> QED BY <2>7, <2>8, <2>9
<1> QED BY <1>1, <1>2, <1>4, <1>5, <1>6, <1>7, <1>8, <1>9

LEMMA BufferEmptied ==
  /\ <<>> \in Seq(1 .. Len(LogLines)) /\ Len(<<>>) = 0 /\ DOMAIN <<>> = {} /\ ToSet(<<>>) = {}
BY DEF ToSet

(* A process that ends takes the lines it holds with it.                   *)
LEMMA DiesKeeps ==
  ASSUME SvlogdIInv, Dies, SvlogdTypes', LinesInOrder', SegmentsBounded',
         Recorded' \cup ToSet(buffer) = Recorded \cup ToSet(buffer)
  PROVE  SvlogdIInv'
<1>1. sv' = "down" /\ buffer' = <<>> /\ lost' = lost \cup ToSet(buffer) /\ sent' = sent
  BY DEF Dies
<1>2. ToSet(buffer) \subseteq 1 .. sent /\ lost \subseteq 1 .. sent /\ Recorded \subseteq 1 .. sent
      /\ 1 .. sent = Recorded \cup ToSet(buffer) \cup lost
  BY DEF SvlogdIInv, LogKept, LinesAccounted
<1>3. LinesAccounted'
  <2>1. 1 .. sent' = Recorded' \cup lost'
    BY <1>1, <1>2
  <2> QED BY <1>1, <2>1, BufferEmptied DEF LinesAccounted
<1>4. HoldsLast'
  <2>1. sent \in Nat
    BY SvlogdAssumption DEF SvlogdIInv, SvlogdTypes
  <2>2. \A n \in Recorded' \cup lost' : n <= sent
    BY <1>1, <1>2
  <2> QED BY <1>1, <2>1, <2>2, BufferEmptied DEF HoldsLast
<1>5. SizeKnown'
  BY <1>1 DEF SizeKnown
<1> QED BY <1>3, <1>4, <1>5 DEF SvlogdIInv, LogKept

LEMMA TypesNow ==
  ASSUME SvlogdIInv
  PROVE  /\ SvlogdTypes /\ LinesInOrder /\ SegmentsBounded /\ LinesAccounted
         /\ HoldsLast /\ SizeKnown
BY DEF SvlogdIInv, LogKept

LEMMA WriterKeeps ==
  ASSUME SvlogdIInv, NewWriter \/ CloseCurrent \/ OpenFresh PROVE SvlogdIInv'
<1>1. UNCHANGED <<sent, buffer, current, rotated, lost>>
  BY DEF NewWriter, CloseCurrent, OpenFresh
<1>2. Bytes(current) \in Nat /\ Bytes(<<>>) = 0
  <2>1. current \in Seq(Entry) /\ <<1, 1>> \in Entry
    BY TypesNow DEF SvlogdTypes, Entry
  <2> QED BY <2>1, BytesGrow
<1>3. /\ sv' \in {"up", "closed"} /\ (sv' = "up" => size' = Bytes(current)) /\ size' \in Nat
      /\ present' \in BOOLEAN
  <2>1. CASE NewWriter
    BY <1>2, <2>1 DEF NewWriter
  <2>2. CASE CloseCurrent
    BY <2>2, TypesNow DEF CloseCurrent, SvlogdTypes
  <2>3. CASE OpenFresh
    BY <1>2, <2>3, TypesNow DEF OpenFresh, SizeKnown
  <2> QED BY <2>1, <2>2, <2>3
<1>4. LinesInOrder' /\ SegmentsBounded' /\ Recorded' = Recorded
  BY <1>1, TypesNow, SegmentsStay
<1>5. SvlogdTypes'
  BY <1>1, <1>3, TypesNow DEF SvlogdTypes
<1>6. LinesAccounted' /\ HoldsLast'
  BY <1>1, <1>4, TypesNow DEF LinesAccounted, HoldsLast
<1>7. SizeKnown'
  BY <1>1, <1>3 DEF SizeKnown
<1> QED BY <1>4, <1>5, <1>6, <1>7 DEF SvlogdIInv, LogKept

LEMMA ReadPipeKeeps == ASSUME SvlogdIInv, ReadPipe PROVE SvlogdIInv'
<1>1. PICK n \in 1 .. Ahead :
        sent + n <= Len(LogLines) /\ sent' = sent + n /\ buffer' = [i \in 1 .. n |-> sent + i]
  BY DEF ReadPipe
<1>2. sv = "up" /\ buffer = <<>> /\ UNCHANGED <<current, present, rotated, sv, size, lost>>
  BY DEF ReadPipe
<1>3. n \in Nat \ {0} /\ sent \in Nat /\ Len(LogLines) \in Nat
  BY SvlogdAssumption, TypesNow DEF SvlogdTypes
<1>4. /\ buffer' \in Seq(1 .. Len(LogLines)) /\ Len(buffer') = n /\ DOMAIN buffer' = 1 .. n
      /\ \A i \in 1 .. n : buffer'[i] = sent + i
  <2>1. \A i \in 1 .. n : sent + i \in 1 .. Len(LogLines)
    BY <1>1, <1>3
  <2> QED BY <1>1, <1>3, <2>1
<1>5. LinesInOrder' /\ SegmentsBounded' /\ Recorded' = Recorded
  BY <1>2, TypesNow, SegmentsStay
<1>6. SvlogdTypes'
  <2>1. sent' \in 0 .. Len(LogLines)
    BY <1>1, <1>3
  <2> QED BY <1>2, <1>3, <1>4, <2>1, TypesNow DEF SvlogdTypes
<1>7. HoldsLast'
  <2>1. \A k \in Recorded' \cup lost' : k <= sent
    BY <1>2, <1>3, <1>5, TypesNow, BufferEmptied DEF HoldsLast
  <2>2. sent' - Len(buffer') = sent /\ Len(buffer') <= sent'
    BY <1>1, <1>3, <1>4
  <2> QED BY <1>4, <2>1, <2>2 DEF HoldsLast
<1>8. LinesAccounted'
  <2>1. ToSet(buffer') = {sent + i : i \in 1 .. n}
    BY <1>4 DEF ToSet
  <2>2. 1 .. sent + n = (1 .. sent) \cup {sent + i : i \in 1 .. n}
    <3>1. \A k \in 1 .. sent + n : k \in 1 .. sent \/ (k - sent \in 1 .. n /\ k = sent + (k - sent))
      BY <1>3
    <3>2. \A i \in 1 .. n : sent + i \in 1 .. sent + n
      BY <1>3
    <3>3. 1 .. sent \subseteq 1 .. sent + n
      BY <1>3
    <3> QED BY <3>1, <3>2, <3>3
  <2>3. 1 .. sent = Recorded \cup lost
    BY <1>2, TypesNow, BufferEmptied DEF LinesAccounted
  <2>4. 1 .. sent' = Recorded' \cup ToSet(buffer') \cup lost'
    BY <1>1, <1>2, <1>5, <2>1, <2>2, <2>3
  <2> QED BY <2>4 DEF LinesAccounted
<1>9. SizeKnown'
  BY <1>2, TypesNow DEF SizeKnown
<1> QED BY <1>5, <1>6, <1>7, <1>8, <1>9 DEF SvlogdIInv, LogKept

(* A line, or a part of it, goes to current only where it is short enough. *)
LEMMA RoomForLine ==
  ASSUME SvlogdIInv, Ready, ~MustRotate, NEW n \in 1 .. Line1
  PROVE  /\ <<Head(buffer), n>> \in Entry /\ sv = "up" /\ buffer # <<>>
         /\ Append(current, <<Head(buffer), n>>) \in Seq(Entry)
         /\ Bytes(Append(current, <<Head(buffer), n>>)) = Bytes(current) + n
         /\ Bytes(current) = size /\ size \in Nat
         /\ Bytes(current) + n <= MaxSize \/ current = <<>>
<1> DEFINE x == <<Head(buffer), n>>
<1>1. sv = "up" /\ buffer # <<>>
  BY DEF Ready
<1>2. /\ Head(buffer) \in 1 .. Len(LogLines) /\ Line1 \in Nat \ {0} /\ n \in Nat \ {0}
  BY <1>1, AtHand
<1>3. x \in Entry /\ x[2] = n /\ current \in Seq(Entry) /\ size \in Nat
  BY <1>2, TypesNow DEF Entry, SvlogdTypes
<1>4. Bytes(current) = size
  BY <1>1, TypesNow DEF SizeKnown
<1> HIDE DEF x
<1>5. Bytes(Append(current, x)) = Bytes(current) + n /\ (Bytes(current) = 0 => current = <<>>)
  BY <1>3, BytesGrow
<1>6. size + Line1 <= MaxSize \/ size = 0
  BY <1>2, <1>3, SvlogdAssumption DEF MustRotate
<1>7. Bytes(current) + n <= MaxSize \/ current = <<>>
  <2>1. n <= Line1
    BY <1>2
  <2> QED BY <1>2, <1>3, <1>4, <1>5, <1>6, <2>1, SvlogdAssumption
<1>8. Append(current, x) \in Seq(Entry)
  BY <1>3
<1> QED BY <1>1, <1>3, <1>4, <1>5, <1>7, <1>8 DEF x

LEMMA WriteLineKeeps == ASSUME SvlogdIInv, WriteLine PROVE SvlogdIInv'
<1> DEFINE x == <<Head(buffer), Line1>>
<1>1. /\ Ready /\ ~MustRotate /\ current' = Append(current, x) /\ size' = size + Line1
      /\ buffer' = Tail(buffer) /\ UNCHANGED <<sent, present, rotated, sv, lost>>
  BY DEF WriteLine
<1>2. buffer # <<>>
  BY <1>1 DEF Ready
<1>3. /\ Head(buffer) \in 1 .. Len(LogLines) /\ Head(buffer) = sent - Len(buffer) + 1
      /\ Line1 \in Nat \ {0} /\ \A n \in Recorded \cup lost : n < Head(buffer)
      /\ Len(buffer) \in Nat \ {0} /\ sent \in Nat
      /\ Tail(buffer) \in Seq(1 .. Len(LogLines)) /\ Len(Tail(buffer)) = Len(buffer) - 1
      /\ \A i \in DOMAIN Tail(buffer) : Tail(buffer)[i] = sent - Len(Tail(buffer)) + i
      /\ ToSet(buffer) = {Head(buffer)} \cup ToSet(Tail(buffer))
  BY <1>2, AtHand
<1>4. Line1 \in 1 .. Line1
  BY <1>3
<1>5. /\ x \in Entry /\ sv = "up" /\ current' \in Seq(Entry)
      /\ Bytes(current') = Bytes(current) + Line1 /\ Bytes(current) = size /\ size \in Nat
      /\ Bytes(current) + Line1 <= MaxSize \/ current = <<>>
  BY <1>1, <1>4, RoomForLine
<1>6. x[1] = Head(buffer) /\ x[2] = Line1
  OBVIOUS
<1> HIDE DEF x
<1>7. SvlogdTypes'
  BY <1>1, <1>3, <1>5, TypesNow DEF SvlogdTypes
<1>8. LinesInOrder' /\ SegmentsBounded' /\ Recorded' = Recorded \cup {Head(buffer)}
  BY <1>1, <1>3, <1>5, <1>6, <1>7, TypesNow, SegmentGrows
<1>9. LinesAccounted'
  BY <1>1, <1>3, <1>8, TypesNow DEF LinesAccounted
<1>10. HoldsLast'
  <2>1. sent - Len(Tail(buffer)) = Head(buffer) /\ Len(Tail(buffer)) <= sent
    BY <1>3, TypesNow DEF HoldsLast
  <2>2. Recorded \cup lost \subseteq 1 .. sent
    BY TypesNow DEF LinesAccounted
  <2>3. \A n \in Recorded' \cup lost' : n <= sent - Len(Tail(buffer))
    BY <1>1, <1>3, <1>8, <2>1, <2>2
  <2> QED BY <1>1, <1>3, <2>1, <2>3 DEF HoldsLast
<1>11. SizeKnown'
  BY <1>1, <1>5 DEF SizeKnown
<1> QED BY <1>7, <1>8, <1>9, <1>10, <1>11 DEF SvlogdIInv, LogKept

LEMMA EndsKeep ==
  ASSUME SvlogdIInv, WriteShort \/ TooLong \/ SvlogdKilled PROVE SvlogdIInv'
<1>1. /\ Dies /\ UNCHANGED <<present, rotated>>
      /\ sv' = "down" /\ buffer' = <<>> /\ UNCHANGED <<sent, size>>
  BY DEF WriteShort, TooLong, SvlogdKilled, Dies
<1>2. CASE UNCHANGED current
  <2>1. SvlogdTypes'
    BY <1>1, <1>2, TypesNow, BufferEmptied DEF SvlogdTypes
  <2>2. LinesInOrder' /\ SegmentsBounded' /\ Recorded' = Recorded
    BY <1>1, <1>2, TypesNow, SegmentsStay
  <2>3. Recorded' \cup ToSet(buffer) = Recorded \cup ToSet(buffer)
    BY <2>2
  <2> QED BY <1>1, <2>1, <2>2, <2>3, DiesKeeps
<1>3. ASSUME Ready, ~MustRotate, NEW n \in 1 .. Line1, current' = Append(current, <<Head(buffer), n>>)
      PROVE  SvlogdIInv'
  <2> DEFINE x == <<Head(buffer), n>>
  <2>1. /\ x \in Entry /\ buffer # <<>> /\ current' \in Seq(Entry)
        /\ Bytes(current) + n <= MaxSize \/ current = <<>>
    BY <1>3, RoomForLine
  <2>2. x[1] = Head(buffer) /\ x[2] = n /\ current' = Append(current, x)
    BY <1>3
  <2> HIDE DEF x
  <2>3. \A k \in Recorded : k < Head(buffer)
    BY <2>1, AtHand
  <2>4. SvlogdTypes'
    BY <1>1, <2>1, TypesNow, BufferEmptied DEF SvlogdTypes
  <2>5. LinesInOrder' /\ SegmentsBounded' /\ Recorded' = Recorded \cup {Head(buffer)}
    BY <1>1, <2>1, <2>2, <2>3, <2>4, TypesNow, SegmentGrows
  <2>6. Recorded' \cup ToSet(buffer) = Recorded \cup ToSet(buffer)
    <3>1. Head(buffer) \in ToSet(buffer)
      BY <2>1, AtHand
    <3> QED BY <2>5, <3>1
  <2> QED BY <1>1, <2>1, <2>4, <2>5, <2>6, DiesKeeps
<1>4. CASE WriteShort
  <2>1. PICK n \in 0 .. Line1 - 1 :
          current' = IF n = 0 THEN current ELSE Append(current, <<Head(buffer), n>>)
    BY <1>4 DEF WriteShort
  <2>2. Ready /\ ~MustRotate /\ buffer # <<>>
    BY <1>4 DEF WriteShort, Ready
  <2>3. Line1 \in Nat \ {0}
    BY <2>2, AtHand
  <2>4. CASE n = 0
    BY <1>2, <2>1, <2>4
  <2>5. CASE n # 0
    <3>1. n \in 1 .. Line1
      BY <2>3, <2>5
    <3> QED BY <1>3, <2>1, <2>2, <2>5, <3>1
  <2> QED BY <2>4, <2>5
<1>5. CASE TooLong \/ SvlogdKilled
  BY <1>2, <1>5 DEF TooLong, SvlogdKilled
<1> QED BY <1>4, <1>5

LEMMA RenameKeeps == ASSUME SvlogdIInv, RenameCurrent PROVE SvlogdIInv'
<1>1. /\ sv' = "renamed" /\ rotated' = Append(rotated, current) /\ current' = <<>>
      /\ present' = FALSE /\ UNCHANGED <<sent, buffer, size, lost>>
  BY DEF RenameCurrent
<1>2. LinesInOrder' /\ SegmentsBounded' /\ Recorded' = Recorded
  BY <1>1, TypesNow, SegmentRotates
<1>3. SvlogdTypes'
  <2> DEFINE S == Seq(Entry)
  <2>1. rotated \in Seq(S) /\ current \in S /\ <<>> \in S
    BY TypesNow DEF SvlogdTypes
  <2> HIDE DEF S
  <2>2. rotated' \in Seq(S) /\ current' \in S
    BY <1>1, <2>1
  <2> QED BY <1>1, <2>2, TypesNow DEF SvlogdTypes, S
<1>4. LinesAccounted' /\ HoldsLast'
  BY <1>1, <1>2, TypesNow DEF LinesAccounted, HoldsLast
<1>5. SizeKnown'
  BY <1>1 DEF SizeKnown
<1> QED BY <1>2, <1>3, <1>4, <1>5 DEF SvlogdIInv, LogKept

LEMMA SvlogdStutters == ASSUME SvlogdIInv, UNCHANGED svvars PROVE SvlogdIInv'
<1>1. UNCHANGED <<sent, buffer, current, present, rotated, sv, size, lost>>
  BY DEF svvars
<1>2. LinesInOrder' /\ SegmentsBounded' /\ Recorded' = Recorded
  BY <1>1, TypesNow, SegmentsStay
<1>3. SvlogdTypes' /\ LinesAccounted' /\ HoldsLast' /\ SizeKnown'
  BY <1>1, <1>2, TypesNow DEF SvlogdTypes, LinesAccounted, HoldsLast, SizeKnown
<1> QED BY <1>2, <1>3 DEF SvlogdIInv, LogKept

(* Through rotations, full disks, long lines and kills at any step, svlogd *)
(* keeps what it has written: in order, once each, in files of the size    *)
(* that was asked (Svlogd.LogKept).                                        *)
THEOREM LogIsKept == SvlogdSpec => []LogKept
<1>1. SvlogdIInv /\ [SvlogdNext]_svvars => SvlogdIInv'
  BY WriterKeeps, ReadPipeKeeps, WriteLineKeeps, EndsKeep, RenameKeeps, SvlogdStutters DEF SvlogdNext
<1>2. SvlogdIInv => LogKept
  BY DEF SvlogdIInv
<1> QED BY SvlogdBegins, <1>1, <1>2, PTL DEF SvlogdSpec

-----------------------------------------------------------------------------
(* The print queue. *)

(* The ids of jobs; the programs; what a file of the queue may hold.       *)
Ids(jobs) == {j[1] : j \in jobs}
Holds     == PrintFiles \cup {Half}
Printers  == [pc : {"gone", "list", "copy", "control", "write", "next", "print", "remove", "forget"},
              unread : SUBSET Nat, jobs : SUBSET (Nat \X PrintFiles), file : Holds, id : Nat]
SpoolTypes ==
  /\ cf \in [DOMAIN cf -> Holds] /\ DOMAIN cf \subseteq Nat
  /\ lpr \in Printers /\ lpd \in Printers /\ queued \subseteq PrintFiles

(* Ids are numbers up to some number.                                      *)
IdsBounded == \E n \in Nat : \A i \in DOMAIN cf \cup lpr.unread \cup Ids(lpr.jobs) : i <= n

(* A lpr that looks for an id misses none that is in use, and the one it   *)
(* has taken is in use by nobody else.                                     *)
LprMissesNone == lpr.pc = "list" => DOMAIN cf \subseteq lpr.unread \cup Ids(lpr.jobs)
LprOwnsItsId ==
  /\ lpr.pc \in {"list", "copy", "control", "write"} => lpr.file \in PrintFiles
  /\ lpr.pc \in {"copy", "control"} => lpr.id \notin DOMAIN cf
  /\ lpr.pc \in {"copy", "control", "write"} => lpr.id \in DOMAIN df
  /\ lpr.pc \in {"control", "write"} => df[lpr.id] = lpr.file
  /\ lpr.pc = "write" => lpr.id \in DOMAIN cf /\ cf[lpr.id] = Half

(* A control file that is written is of its data file.                     *)
Matched == \A i \in DOMAIN cf \cap DOMAIN df : cf[i] # Half => df[i] = cf[i]

(* What lpd has still to do and what it is at is in the queue, and lpd     *)
(* removes nothing before it is printed.                                   *)
LpdJobsQueued == \A j \in lpd.jobs : j[1] \in DOMAIN cf /\ cf[j[1]] = j[2]
LpdIsAtAJob ==
  /\ lpd.pc \in {"print", "remove", "forget"} =>
       /\ lpd.file \in PrintFiles /\ lpd.id \in DOMAIN cf /\ cf[lpd.id] = lpd.file
       /\ lpd.id \notin Ids(lpd.jobs)
  /\ lpd.pc = "print" => lpd.id \in DOMAIN df
  /\ lpd.pc \in {"remove", "forget"} => Target \in DOMAIN prints /\ prints[Target] = lpd.file

SpoolIInv ==
  /\ SpoolTypes /\ IdsBounded /\ LprMissesNone /\ LprOwnsItsId
  /\ Matched /\ LpdJobsQueued /\ LpdIsAtAJob /\ JobsKept

(* The id of a new job is above those of the jobs lpr has found.           *)
LEMMA NextIDIsNew ==
  ASSUME NEW jobs, jobs \subseteq Nat \X PrintFiles, NEW n \in Nat, \A i \in Ids(jobs) : i <= n
  PROVE  NextID(jobs) \in Nat /\ NextID(jobs) \notin Ids(jobs)
<1> DEFINE T == {0} \cup Ids(jobs)
<1>1. T \subseteq Nat /\ T # {} /\ \A x \in T : x <= n
  BY DEF Ids
<1> HIDE DEF T
<1>2. Max(T) \in T /\ \A y \in T : y <= Max(T)
  BY <1>1, GreatestNat
<1>3. NextID(jobs) = Max(T) + 1
  BY DEF NextID, T, Ids
<1>4. Ids(jobs) \subseteq T
  BY DEF T
<1>5. Max(T) \in Nat /\ \A y \in Ids(jobs) : y <= Max(T)
  BY <1>1, <1>2, <1>4
<1> HIDE DEF T
<1> QED
  BY <1>3, <1>5

(* There is a job with the lowest id.                                      *)
LEMMA FirstJob ==
  ASSUME NEW jobs, jobs \subseteq Nat \X PrintFiles, jobs # {}
  PROVE  (CHOOSE k \in jobs : \A m \in jobs : k[1] <= m[1]) \in jobs
<1>1. Ids(jobs) \subseteq Nat /\ Ids(jobs) # {}
  BY DEF Ids
<1>2. PICK x \in Ids(jobs) : \A y \in Ids(jobs) : x <= y
  BY <1>1, LeastNat
<1>3. PICK k \in jobs : x = k[1]
  BY <1>2 DEF Ids
<1>4. \A m \in jobs : m[1] \in Ids(jobs)
  BY DEF Ids
<1> QED
  BY <1>2, <1>3, <1>4

(* A file that is created or written, and one that is removed.             *)
LEMMA StoreForm ==
  ASSUME NEW f, NEW x, NEW S, NEW v \in S, f \in [DOMAIN f -> S]
  PROVE  Store(f, x, v) \in [DOMAIN Store(f, x, v) -> S]
  BY DEF Store

LEMMA WithoutForm ==
  ASSUME NEW f, NEW x, NEW S, f \in [DOMAIN f -> S]
  PROVE  Without(f, x) \in [DOMAIN Without(f, x) -> S]
  BY DEF Without, Restrict

LEMMA IdsOfOneMore ==
  ASSUME NEW jobs, NEW i, NEW f
  PROVE  Ids(jobs \cup {<<i, f>>}) = Ids(jobs) \cup {i}
<1>1. <<i, f>>[1] = i
  OBVIOUS
<1>2. \A j : j \in jobs \cup {<<i, f>>} <=> j \in jobs \/ j = <<i, f>>
  OBVIOUS
<1> QED
  BY <1>1, <1>2, Zenon DEF Ids

(* What looking at one control file makes of a program.                    *)
LEMMA ListFacts ==
  ASSUME SpoolTypes, NEW p \in Printers, NEW i \in p.unread
  PROVE  /\ ListOne(p, i) \in Printers
         /\ ListOne(p, i) = Nobody
            \/ /\ ListOne(p, i).pc = p.pc /\ ListOne(p, i).file = p.file
               /\ ListOne(p, i).unread = p.unread \ {i}
               /\ ListOne(p, i).jobs = p.jobs \cup {<<i, cf[i]>>} /\ i \in DOMAIN cf
<1>1. Nobody \in Printers
  BY DEF Nobody, Printers, Holds
<1>2. ASSUME i \in DOMAIN cf, cf[i] # Half
      PROVE  i \in Nat /\ cf[i] \in PrintFiles
  BY <1>2 DEF SpoolTypes, Holds
<1>3. CASE i \in DOMAIN cf /\ cf[i] # Half
  <2>1. ListOne(p, i) = [p EXCEPT !.unread = @ \ {i}, !.jobs = @ \cup {<<i, cf[i]>>}]
    BY <1>3 DEF ListOne
  <2>2. <<i, cf[i]>> \in Nat \X PrintFiles
    BY <1>2, <1>3
  <2>3. p.unread \ {i} \in SUBSET Nat /\ p.jobs \cup {<<i, cf[i]>>} \in SUBSET (Nat \X PrintFiles)
    BY <2>2 DEF Printers
  <2>4. ListOne(p, i) \in Printers
    BY <2>1, <2>3 DEF Printers
  <2>5. /\ ListOne(p, i).pc = p.pc /\ ListOne(p, i).file = p.file
        /\ ListOne(p, i).unread = p.unread \ {i}
        /\ ListOne(p, i).jobs = p.jobs \cup {<<i, cf[i]>>}
    BY <2>1 DEF Printers
  <2> QED
    BY <1>3, <2>4, <2>5
<1>4. CASE ~(i \in DOMAIN cf /\ cf[i] # Half)
  <2>1. ListOne(p, i) = Nobody
    BY <1>4 DEF ListOne
  <2> QED
    BY <1>1, <2>1
<1> QED
  BY <1>3, <1>4

LEMMA ReadFacts ==
  ASSUME SpoolTypes, NEW p \in Printers
  PROVE  /\ ReadDir(p) \in Printers /\ ReadDir(p).pc = "list" /\ ReadDir(p).jobs = {}
         /\ ReadDir(p).unread = DOMAIN cf
  BY DEF ReadDir, Printers, SpoolTypes

LEMMA NobodyFacts == Nobody \in Printers /\ Nobody.pc = "gone" /\ Nobody.jobs = {} /\ Nobody.unread = {}
  BY DEF Nobody, Printers, Holds

(* What lpr does keeps the invariant: it touches no file of a job that is  *)
(* queued.                                                                 *)
LEMMA LprKeeps ==
  ASSUME SpoolIInv,
         \/ \E f \in PrintFiles : LprStart(f)
         \/ LprList \/ CreateData \/ CopyData \/ CreateControl \/ WriteControl \/ LprFails
  PROVE  SpoolIInv'
<1> USE DEF SpoolIInv
<1>h. Half \notin PrintFiles
  BY SpoolAssumption DEF Half
<1>l. ASSUME UNCHANGED <<cf, df, prints, lpd, queued>>, lpr' \in Printers,
             IdsBounded', LprMissesNone', LprOwnsItsId'
      PROVE  SpoolIInv'
  BY <1>l DEF SpoolTypes, Matched, LpdJobsQueued, LpdIsAtAJob, Target, JobsKept, InQueue, IsPrinted
<1>1. ASSUME NEW f \in PrintFiles, LprStart(f) PROVE SpoolIInv'
  <2>1. lpr' \in Printers /\ lpr'.pc = "list" /\ lpr'.file = f /\ lpr'.jobs = {} /\ lpr'.unread = DOMAIN cf
    <3>1. ReadDir(lpr) \in Printers /\ ReadDir(lpr).pc = "list" /\ ReadDir(lpr).jobs = {}
          /\ ReadDir(lpr).unread = DOMAIN cf
      BY ReadFacts DEF SpoolTypes
    <3> QED
      BY <1>1, <3>1 DEF LprStart, Printers, Holds
  <2>2. UNCHANGED <<cf, df, prints, lpd, queued>>
    BY <1>1 DEF LprStart
  <2>3. IdsBounded'
    BY <2>1, <2>2 DEF IdsBounded, Ids
  <2>4. LprMissesNone' /\ LprOwnsItsId'
    BY <2>1, <2>2 DEF LprMissesNone, LprOwnsItsId
  <2> QED
    BY <1>l, <2>1, <2>2, <2>3, <2>4
<1>2. CASE LprList
  <2>1. PICK i \in lpr.unread : lpr' = ListOne(lpr, i)
    BY <1>2 DEF LprList
  <2>2. /\ lpr' \in Printers
        /\ lpr' = Nobody
           \/ /\ lpr'.pc = lpr.pc /\ lpr'.file = lpr.file /\ lpr'.unread = lpr.unread \ {i}
              /\ lpr'.jobs = lpr.jobs \cup {<<i, cf[i]>>} /\ i \in DOMAIN cf
    BY <2>1, ListFacts DEF SpoolTypes
  <2>3. UNCHANGED <<cf, df, prints, lpd, queued>> /\ lpr.pc = "list"
    BY <1>2 DEF LprList
  <2>4. CASE lpr' = Nobody
    <3>1. IdsBounded'
      BY <2>3, <2>4, NobodyFacts DEF IdsBounded, Ids
    <3>2. LprMissesNone' /\ LprOwnsItsId'
      BY <2>3, <2>4, NobodyFacts DEF LprMissesNone, LprOwnsItsId
    <3> QED
      BY <1>l, <2>2, <2>3, <3>1, <3>2
  <2>5. CASE lpr' # Nobody
    <3>1. Ids(lpr'.jobs) = Ids(lpr.jobs) \cup {i}
      <4>1. lpr'.jobs = lpr.jobs \cup {<<i, cf[i]>>}
        BY <2>2, <2>5
      <4>2. Ids(lpr.jobs \cup {<<i, cf[i]>>}) = Ids(lpr.jobs) \cup {i}
        BY IdsOfOneMore
      <4> QED
        BY <4>1, <4>2
    <3>2. lpr'.unread \cup Ids(lpr'.jobs) = lpr.unread \cup Ids(lpr.jobs)
      BY <2>2, <2>5, <3>1
    <3>3. \A x : x \in DOMAIN cf' \cup lpr'.unread \cup Ids(lpr'.jobs)
                 => x \in DOMAIN cf \cup lpr.unread \cup Ids(lpr.jobs)
      BY <2>3, <3>2
    <3>4. IdsBounded'
      BY <3>3 DEF IdsBounded
    <3>5. LprMissesNone' /\ LprOwnsItsId'
      BY <2>2, <2>3, <2>5, <3>2 DEF LprMissesNone, LprOwnsItsId
    <3> QED
      BY <1>l, <2>2, <2>3, <3>4, <3>5
  <2> QED
    BY <2>4, <2>5
<1>3. CASE CreateData
  <2>1. UNCHANGED <<cf, prints, lpd, queued>> /\ lpr.pc = "list" /\ lpr.unread = {}
    BY <1>3 DEF CreateData
  <2>2. NextID(lpr.jobs) \in Nat /\ NextID(lpr.jobs) \notin Ids(lpr.jobs)
    BY NextIDIsNew DEF SpoolTypes, Printers, IdsBounded
  <2>3. /\ lpr' \in Printers /\ lpr'.pc = "copy" /\ lpr'.id = NextID(lpr.jobs)
        /\ lpr'.file = lpr.file /\ lpr'.jobs = lpr.jobs /\ lpr'.unread = lpr.unread
    BY <1>3, <2>2 DEF CreateData, SpoolTypes, Printers
  <2>4. df' = Store(df, lpr'.id, Half) /\ lpr'.id \notin DOMAIN cf
    BY <1>3, <2>1, <2>2, <2>3 DEF CreateData, LprMissesNone
  <2>5. DOMAIN df' = DOMAIN df \cup {lpr'.id} /\ \A y \in DOMAIN df : y # lpr'.id => df'[y] = df[y]
    BY <2>4 DEF Store
  <2>6. SpoolTypes' /\ LprMissesNone'
    BY <2>1, <2>3 DEF SpoolTypes, LprMissesNone
  <2>7. IdsBounded'
    BY <2>1, <2>3 DEF IdsBounded
  <2>8. LprOwnsItsId'
    BY <2>1, <2>3, <2>4, <2>5 DEF LprOwnsItsId
  <2>9. Matched' /\ LpdJobsQueued'
    BY <2>1, <2>4, <2>5 DEF Matched, LpdJobsQueued
  <2>10. LpdIsAtAJob'
    BY <2>1, <2>5 DEF LpdIsAtAJob, Target
  <2>11. JobsKept'
    BY <2>1, <2>4, <2>5 DEF JobsKept, InQueue, IsPrinted
  <2> QED
    BY <2>6, <2>7, <2>8, <2>9, <2>10, <2>11
<1>4. CASE CopyData
  <2>1. UNCHANGED <<cf, prints, lpd, queued>> /\ lpr.pc = "copy"
    BY <1>4 DEF CopyData
  <2>2. /\ lpr' \in Printers /\ lpr'.pc = "control" /\ lpr'.id = lpr.id
        /\ lpr'.file = lpr.file /\ lpr'.jobs = lpr.jobs /\ lpr'.unread = lpr.unread
    BY <1>4 DEF CopyData, SpoolTypes, Printers
  <2>3. lpr.id \in DOMAIN df /\ lpr.id \notin DOMAIN cf
    BY <2>1 DEF LprOwnsItsId
  <2>4. df' = Store(df, lpr.id, lpr.file)
    BY <1>4, <2>3 DEF CopyData
  <2>5. DOMAIN df' = DOMAIN df /\ df'[lpr.id] = lpr.file /\ \A y \in DOMAIN df : y # lpr.id => df'[y] = df[y]
    BY <2>3, <2>4 DEF Store
  <2>6. SpoolTypes' /\ LprMissesNone'
    BY <2>1, <2>2 DEF SpoolTypes, LprMissesNone
  <2>7. IdsBounded'
    BY <2>1, <2>2 DEF IdsBounded
  <2>8. LprOwnsItsId'
    BY <2>1, <2>2, <2>3, <2>5 DEF LprOwnsItsId
  <2>9. Matched' /\ LpdJobsQueued'
    BY <2>1, <2>3, <2>5 DEF Matched, LpdJobsQueued
  <2>10. LpdIsAtAJob'
    BY <2>1, <2>5 DEF LpdIsAtAJob, Target
  <2>11. JobsKept'
    BY <2>1, <2>3, <2>5 DEF JobsKept, InQueue, IsPrinted
  <2> QED
    BY <2>6, <2>7, <2>8, <2>9, <2>10, <2>11
<1>5. CASE CreateControl
  <2>1. UNCHANGED <<df, prints, lpd, queued>> /\ lpr.pc = "control" /\ cf' = Store(cf, lpr.id, Half)
    BY <1>5 DEF CreateControl
  <2>2. /\ lpr' \in Printers /\ lpr'.pc = "write" /\ lpr'.id = lpr.id /\ lpr.id \in Nat
        /\ lpr'.file = lpr.file /\ lpr'.jobs = lpr.jobs /\ lpr'.unread = lpr.unread
    BY <1>5 DEF CreateControl, SpoolTypes, Printers
  <2>3. lpr.id \notin DOMAIN cf
    BY <2>1 DEF LprOwnsItsId
  <2>4. /\ DOMAIN cf' = DOMAIN cf \cup {lpr.id} /\ cf'[lpr.id] = Half
        /\ \A y \in DOMAIN cf : cf'[y] = cf[y]
    BY <2>1, <2>3 DEF Store
  <2>5. cf' \in [DOMAIN cf' -> Holds]
    <3>1. Half \in Holds /\ cf \in [DOMAIN cf -> Holds]
      BY DEF Holds, SpoolTypes
    <3> QED
      BY <2>1, <3>1, StoreForm
  <2>6. SpoolTypes' /\ LprMissesNone'
    BY <2>1, <2>2, <2>4, <2>5 DEF SpoolTypes, LprMissesNone
  <2>7. IdsBounded'
    <3>1. PICK n \in Nat : \A i \in DOMAIN cf \cup lpr.unread \cup Ids(lpr.jobs) : i <= n
      BY DEF IdsBounded
    <3>2. DOMAIN cf \cup lpr.unread \cup Ids(lpr.jobs) \subseteq Nat
      BY DEF SpoolTypes, Printers, Ids
    <3>3. n + lpr.id \in Nat /\ \A i \in Nat : i <= n \/ i = lpr.id => i <= n + lpr.id
      BY <2>2
    <3>4. \A i \in DOMAIN cf' \cup lpr'.unread \cup Ids(lpr'.jobs) : i <= n + lpr.id
      BY <2>2, <2>4, <3>1, <3>2, <3>3
    <3> QED
      BY <3>3, <3>4 DEF IdsBounded
  <2>8. LprOwnsItsId'
    BY <2>1, <2>2, <2>4 DEF LprOwnsItsId
  <2>9. Matched' /\ LpdJobsQueued'
    BY <2>1, <2>3, <2>4 DEF Matched, LpdJobsQueued
  <2>10. LpdIsAtAJob'
    BY <2>1, <2>4 DEF LpdIsAtAJob, Target
  <2>11. JobsKept'
    BY <2>1, <2>3, <2>4 DEF JobsKept, InQueue, IsPrinted
  <2> QED
    BY <2>6, <2>7, <2>8, <2>9, <2>10, <2>11
<1>6. CASE WriteControl
  <2>1. UNCHANGED <<df, prints, lpd>> /\ lpr.pc = "write" /\ lpr' = Nobody /\ queued' = queued \cup {lpr.file}
    BY <1>6 DEF WriteControl
  <2>f. PICK g \in PrintFiles : g = lpr.file
    BY <2>1 DEF LprOwnsItsId
  <2>2. /\ lpr.file \in PrintFiles /\ lpr.id \in DOMAIN cf /\ cf[lpr.id] = Half
        /\ lpr.id \in DOMAIN df /\ df[lpr.id] = lpr.file
    BY <2>1 DEF LprOwnsItsId
  <2>3. cf' = Store(cf, lpr.id, lpr.file)
    BY <1>6, <2>2 DEF WriteControl
  <2>4. /\ DOMAIN cf' = DOMAIN cf /\ cf'[lpr.id] = lpr.file
        /\ \A y \in DOMAIN cf : y # lpr.id => cf'[y] = cf[y]
    BY <2>2, <2>3 DEF Store
  <2>5. cf' \in [DOMAIN cf' -> Holds]
    <3>1. lpr.file \in Holds /\ cf \in [DOMAIN cf -> Holds]
      BY <2>2 DEF Holds, SpoolTypes
    <3> QED
      BY <2>3, <3>1, StoreForm
  <2>6. SpoolTypes' /\ LprMissesNone' /\ LprOwnsItsId'
    BY <2>1, <2>2, <2>4, <2>5, NobodyFacts DEF SpoolTypes, LprMissesNone, LprOwnsItsId
  <2>7. IdsBounded'
    BY <2>1, <2>4, NobodyFacts DEF IdsBounded, Ids
  <2>8. Matched'
    BY <2>1, <2>2, <2>4 DEF Matched
  <2>9. \A j \in lpd.jobs : j[2] \in PrintFiles
    BY DEF SpoolTypes, Printers
  <2>10. LpdJobsQueued'
    BY <1>h, <2>1, <2>2, <2>4, <2>9 DEF LpdJobsQueued
  <2>11. LpdIsAtAJob'
    BY <1>h, <2>1, <2>2, <2>4 DEF LpdIsAtAJob, Target
  <2>12. JobsKept'
    <3>1. ASSUME NEW f \in queued PROVE (InQueue(f) \/ IsPrinted(f))'
      <4>1. CASE IsPrinted(f)
        BY <2>1, <4>1 DEF IsPrinted
      <4>2. CASE InQueue(f)
        <5>1. PICK i \in DOMAIN cf \cap DOMAIN df : cf[i] = f /\ df[i] = f
          BY <4>2 DEF InQueue
        <5>2. f \in PrintFiles
          BY DEF SpoolTypes
        <5> QED
          BY <1>h, <2>1, <2>2, <2>4, <5>1, <5>2 DEF InQueue
      <4> QED
        BY <4>1, <4>2 DEF JobsKept
    <3>2. InQueue(g)'
      BY <2>1, <2>2, <2>4, <2>f DEF InQueue
    <3>3. queued' = queued \cup {g}
      BY <2>1, <2>f
    <3> QED
      BY <3>1, <3>2, <3>3 DEF JobsKept
  <2> QED
    BY <2>6, <2>7, <2>8, <2>10, <2>11, <2>12
<1>7. CASE LprFails
  <2>1. UNCHANGED <<cf, df, prints, lpd, queued>> /\ lpr' = Nobody
    BY <1>7 DEF LprFails
  <2>2. IdsBounded'
    BY <2>1, NobodyFacts DEF IdsBounded, Ids
  <2>3. LprMissesNone' /\ LprOwnsItsId'
    BY <2>1, NobodyFacts DEF LprMissesNone, LprOwnsItsId
  <2> QED
    BY <1>l, <2>1, <2>2, <2>3, NobodyFacts
<1> QED
  BY <1>1, <1>2, <1>3, <1>4, <1>5, <1>6, <1>7

(* What lpd does keeps it: what it removes it has printed.                 *)
LEMMA LpdKeeps ==
  ASSUME SpoolIInv,
         \/ LpdStart \/ LpdList \/ Listed \/ OpenJob \/ PrintJob \/ RemoveData
         \/ RemoveControl \/ LpdReturns \/ LpdFails
  PROVE  SpoolIInv'
<1> USE DEF SpoolIInv
<1>l. ASSUME UNCHANGED <<cf, df, prints, lpr, queued>>, lpd' \in Printers,
             LpdJobsQueued', LpdIsAtAJob'
      PROVE  SpoolIInv'
  BY <1>l DEF SpoolTypes, Matched, IdsBounded, LprMissesNone, LprOwnsItsId, JobsKept, InQueue, IsPrinted
<1>n. ASSUME UNCHANGED <<cf, df, prints, lpr, queued>>, lpd' = Nobody
      PROVE  SpoolIInv'
  <2>1. LpdJobsQueued' /\ LpdIsAtAJob'
    BY <1>n, NobodyFacts DEF LpdJobsQueued, LpdIsAtAJob
  <2> QED
    BY <1>l, <1>n, <2>1, NobodyFacts
<1>1. CASE LpdStart
  <2>1. /\ lpd' \in Printers /\ lpd'.pc = "list" /\ lpd'.jobs = {}
        /\ UNCHANGED <<cf, df, prints, lpr, queued>>
    BY <1>1, ReadFacts DEF LpdStart, SpoolTypes
  <2>2. LpdJobsQueued' /\ LpdIsAtAJob'
    BY <2>1 DEF LpdJobsQueued, LpdIsAtAJob
  <2> QED
    BY <1>l, <2>1, <2>2
<1>2. CASE LpdList
  <2>1. PICK i \in lpd.unread : lpd' = ListOne(lpd, i)
    BY <1>2 DEF LpdList
  <2>2. /\ lpd' \in Printers
        /\ lpd' = Nobody
           \/ /\ lpd'.pc = lpd.pc /\ lpd'.jobs = lpd.jobs \cup {<<i, cf[i]>>} /\ i \in DOMAIN cf
    BY <2>1, ListFacts DEF SpoolTypes
  <2>3. UNCHANGED <<cf, df, prints, lpr, queued>> /\ lpd.pc = "list"
    BY <1>2 DEF LpdList
  <2>4. CASE lpd' = Nobody
    BY <1>n, <2>3, <2>4
  <2>5. CASE lpd' # Nobody
    <3>1. LpdJobsQueued' /\ LpdIsAtAJob'
      BY <2>2, <2>3, <2>5 DEF LpdJobsQueued, LpdIsAtAJob
    <3> QED
      BY <1>l, <2>2, <2>3, <3>1
  <2> QED
    BY <2>4, <2>5
<1>3. CASE Listed
  <2>1. /\ lpd' \in Printers /\ lpd'.pc = "next" /\ lpd'.jobs = lpd.jobs
        /\ UNCHANGED <<cf, df, prints, lpr, queued>>
    BY <1>3 DEF Listed, SpoolTypes, Printers
  <2>2. LpdJobsQueued' /\ LpdIsAtAJob'
    BY <2>1 DEF LpdJobsQueued, LpdIsAtAJob
  <2> QED
    BY <1>l, <2>1, <2>2
<1>4. CASE OpenJob
  <2> DEFINE j == CHOOSE k \in lpd.jobs : \A m \in lpd.jobs : k[1] <= m[1]
             next == [lpd EXCEPT !.jobs = @ \ {j}]
  <2>1. lpd.pc = "next" /\ UNCHANGED <<cf, df, lpr, queued>>
    BY <1>4 DEF OpenJob
  <2>2. j \in lpd.jobs
    BY <1>4, FirstJob DEF OpenJob, SpoolTypes, Printers
  <2>3. \/ /\ j[1] \in DOMAIN df
           /\ lpd' = [next EXCEPT !.pc = "print", !.id = j[1], !.file = j[2]]
           /\ prints' = Store(prints, j, Half)
        \/ lpd' = next /\ UNCHANGED prints
    BY <1>4 DEF OpenJob
  <2> HIDE DEF j
  <2>4. /\ j[1] \in Nat /\ j[2] \in PrintFiles /\ j = <<j[1], j[2]>>
        /\ j[1] \in DOMAIN cf /\ cf[j[1]] = j[2]
    BY <2>2 DEF SpoolTypes, Printers, LpdJobsQueued
  <2>5. \A k \in lpd.jobs : k = <<k[1], k[2]>> /\ k[1] \in DOMAIN cf /\ cf[k[1]] = k[2]
    BY DEF SpoolTypes, Printers, LpdJobsQueued
  <2>6. j[1] \notin Ids(lpd.jobs \ {j})
    BY <2>4, <2>5 DEF Ids
  <2>7. next \in Printers /\ next.pc = "next" /\ next.jobs = lpd.jobs \ {j}
    BY <2>1 DEF SpoolTypes, Printers
  <2> HIDE DEF next
  <2>8. CASE lpd' = next /\ UNCHANGED prints
    <3>1. LpdJobsQueued' /\ LpdIsAtAJob'
      BY <2>1, <2>7, <2>8 DEF LpdJobsQueued, LpdIsAtAJob
    <3> QED
      BY <1>l, <2>1, <2>7, <2>8, <3>1
  <2>9. CASE /\ j[1] \in DOMAIN df
             /\ lpd' = [next EXCEPT !.pc = "print", !.id = j[1], !.file = j[2]]
             /\ prints' = Store(prints, j, Half)
    <3>1. j[2] \in Holds
      BY <2>4 DEF Holds
    <3>2. /\ lpd' \in Printers /\ lpd'.pc = "print" /\ lpd'.id = j[1] /\ lpd'.file = j[2]
          /\ lpd'.jobs = lpd.jobs \ {j}
      BY <2>4, <2>7, <2>9, <3>1 DEF Printers
    <3>3. /\ DOMAIN prints' = DOMAIN prints \cup {j}
          /\ \A t \in DOMAIN prints : t # j => prints'[t] = prints[t]
      BY <2>9 DEF Store
    <3>4. SpoolTypes' /\ IdsBounded' /\ LprMissesNone' /\ LprOwnsItsId' /\ Matched'
      BY <2>1, <3>2 DEF SpoolTypes, IdsBounded, LprMissesNone, LprOwnsItsId, Matched
    <3>5. LpdJobsQueued'
      BY <2>1, <3>2 DEF LpdJobsQueued
    <3>6. LpdIsAtAJob'
      BY <2>1, <2>4, <2>6, <2>9, <3>2 DEF LpdIsAtAJob
    <3>7. ASSUME NEW f \in queued PROVE (InQueue(f) \/ IsPrinted(f))'
      <4>1. CASE f = j[2]
        <5>1. df[j[1]] = j[2]
          <6>1. j[2] # Half
            BY <2>4, SpoolAssumption DEF Half
          <6> QED
            BY <2>4, <2>9, <6>1 DEF Matched
        <5> QED
          BY <2>1, <2>4, <2>9, <4>1, <5>1 DEF InQueue
      <4>2. CASE f # j[2] /\ IsPrinted(f)
        BY <3>3, <4>2 DEF IsPrinted
      <4>3. CASE InQueue(f)
        BY <2>1, <4>3 DEF InQueue
      <4> QED
        BY <4>1, <4>2, <4>3 DEF JobsKept
    <3>8. JobsKept'
      BY <2>1, <3>7 DEF JobsKept
    <3> QED
      BY <3>4, <3>5, <3>6, <3>8
  <2> QED
    BY <2>3, <2>8, <2>9
<1>5. CASE PrintJob
  <2>1. /\ lpd.pc = "print" /\ UNCHANGED <<cf, df, lpr, queued>>
        /\ prints' = Store(prints, Target, df[lpd.id])
    BY <1>5 DEF PrintJob
  <2>2. /\ lpd' \in Printers /\ lpd'.pc = "remove" /\ lpd'.id = lpd.id /\ lpd'.file = lpd.file
        /\ lpd'.jobs = lpd.jobs
    BY <1>5 DEF PrintJob, SpoolTypes, Printers
  <2>3. /\ lpd.file \in PrintFiles /\ lpd.id \in DOMAIN cf /\ cf[lpd.id] = lpd.file
        /\ lpd.id \in DOMAIN df /\ lpd.id \notin Ids(lpd.jobs)
    BY <2>1 DEF LpdIsAtAJob
  <2>4. df[lpd.id] = lpd.file
    <3>1. lpd.file # Half
      BY <2>3, SpoolAssumption DEF Half
    <3> QED
      BY <2>3, <3>1 DEF Matched
  <2>5. /\ DOMAIN prints' = DOMAIN prints \cup {Target} /\ prints'[Target] = lpd.file
        /\ \A t \in DOMAIN prints : t # Target => prints'[t] = prints[t]
    BY <2>1, <2>4 DEF Store
  <2>6. SpoolTypes' /\ IdsBounded' /\ LprMissesNone' /\ LprOwnsItsId' /\ Matched'
    BY <2>1, <2>2 DEF SpoolTypes, IdsBounded, LprMissesNone, LprOwnsItsId, Matched
  <2>7. LpdJobsQueued'
    BY <2>1, <2>2 DEF LpdJobsQueued
  <2>8. LpdIsAtAJob'
    <3>1. Target' = Target
      BY <2>2 DEF Target
    <3> QED
      BY <2>1, <2>2, <2>3, <2>5, <3>1 DEF LpdIsAtAJob
  <2>9. ASSUME NEW f \in queued PROVE (InQueue(f) \/ IsPrinted(f))'
    <3>1. CASE IsPrinted(f)
      <4>1. PICK t \in DOMAIN prints : t[2] = f /\ prints[t] = f
        BY <3>1 DEF IsPrinted
      <4>2. prints'[t] = f /\ t \in DOMAIN prints'
        BY <2>5, <4>1 DEF Target
      <4> QED
        BY <4>1, <4>2 DEF IsPrinted
    <3>2. CASE InQueue(f)
      BY <2>1, <3>2 DEF InQueue
    <3> QED
      BY <3>1, <3>2 DEF JobsKept
  <2>10. JobsKept'
    BY <2>1, <2>9 DEF JobsKept
  <2> QED
    BY <2>6, <2>7, <2>8, <2>10
<1>6. ASSUME lpd.pc \in {"remove", "forget"}
      PROVE  \A f \in queued : IsPrinted(f) \/ (f # lpd.file /\ InQueue(f))
  <2>1. Target \in DOMAIN prints /\ prints[Target] = lpd.file /\ Target[2] = lpd.file
    BY <1>6 DEF LpdIsAtAJob, Target
  <2> QED
    BY <2>1 DEF JobsKept, IsPrinted
<1>7. CASE RemoveData
  <2>1. /\ lpd.pc = "remove" /\ UNCHANGED <<cf, prints, lpr, queued>>
        /\ (df' = df \/ df' = Without(df, lpd.id))
    BY <1>7 DEF RemoveData
  <2>2. /\ lpd' \in Printers /\ lpd'.pc = "forget" /\ lpd'.id = lpd.id /\ lpd'.file = lpd.file
        /\ lpd'.jobs = lpd.jobs
    BY <1>7 DEF RemoveData, SpoolTypes, Printers
  <2>3. /\ lpd.file \in PrintFiles /\ lpd.id \in DOMAIN cf /\ cf[lpd.id] = lpd.file
        /\ lpd.id \notin Ids(lpd.jobs)
        /\ Target \in DOMAIN prints /\ prints[Target] = lpd.file
    BY <2>1 DEF LpdIsAtAJob
  <2>4. lpd.file # Half
    BY <2>3, SpoolAssumption DEF Half
  <2>5. /\ DOMAIN df' \subseteq DOMAIN df
        /\ \A y \in DOMAIN df' : df'[y] = df[y]
        /\ \A y \in DOMAIN df : y # lpd.id => y \in DOMAIN df'
    BY <2>1 DEF Without, Restrict
  <2>6. SpoolTypes' /\ IdsBounded' /\ LprMissesNone'
    BY <2>1, <2>2 DEF SpoolTypes, IdsBounded, LprMissesNone
  <2>7. lpr.pc \in {"copy", "control", "write"} => lpr.id # lpd.id
    BY <2>3, <2>4 DEF LprOwnsItsId
  <2>8. LprOwnsItsId'
    BY <2>1, <2>5, <2>7 DEF LprOwnsItsId
  <2>9. Matched' /\ LpdJobsQueued'
    BY <2>1, <2>2, <2>5 DEF Matched, LpdJobsQueued
  <2>10. LpdIsAtAJob'
    <3>1. Target' = Target
      BY <2>2 DEF Target
    <3> QED
      BY <2>1, <2>2, <2>3, <3>1 DEF LpdIsAtAJob
  <2>11. JobsKept'
    BY <1>6, <2>1, <2>3, <2>5 DEF JobsKept, InQueue, IsPrinted
  <2> QED
    BY <2>6, <2>8, <2>9, <2>10, <2>11
<1>8. CASE RemoveControl
  <2>1. /\ lpd.pc = "forget" /\ UNCHANGED <<df, prints, lpr, queued>>
        /\ cf' = Without(cf, lpd.id)
    BY <1>8 DEF RemoveControl
  <2>2. /\ lpd' \in Printers /\ lpd'.pc = "next" /\ lpd'.jobs = lpd.jobs
    BY <1>8 DEF RemoveControl, SpoolTypes, Printers
  <2>3. /\ lpd.file \in PrintFiles /\ lpd.id \in DOMAIN cf /\ cf[lpd.id] = lpd.file
        /\ lpd.id \notin Ids(lpd.jobs)
    BY <2>1 DEF LpdIsAtAJob
  <2>4. lpd.file # Half
    BY <2>3, SpoolAssumption DEF Half
  <2>5. /\ DOMAIN cf' = DOMAIN cf \ {lpd.id}
        /\ \A y \in DOMAIN cf' : cf'[y] = cf[y]
    BY <2>1 DEF Without, Restrict
  <2>6. cf' \in [DOMAIN cf' -> Holds]
    BY <2>1, WithoutForm DEF SpoolTypes
  <2>7. SpoolTypes'
    BY <2>1, <2>2, <2>5, <2>6 DEF SpoolTypes
  <2>8. IdsBounded' /\ LprMissesNone'
    BY <2>1, <2>5 DEF IdsBounded, LprMissesNone
  <2>9. LprOwnsItsId'
    BY <2>1, <2>3, <2>4, <2>5 DEF LprOwnsItsId
  <2>10. Matched'
    BY <2>1, <2>5 DEF Matched
  <2>11. LpdJobsQueued'
    BY <2>2, <2>3, <2>5 DEF LpdJobsQueued, Ids
  <2>12. LpdIsAtAJob'
    BY <2>2 DEF LpdIsAtAJob
  <2>13. JobsKept'
    BY <1>6, <2>1, <2>3, <2>5 DEF JobsKept, InQueue, IsPrinted
  <2> QED
    BY <2>7, <2>8, <2>9, <2>10, <2>11, <2>12, <2>13
<1>9. CASE LpdReturns
  BY <1>9, <1>n DEF LpdReturns
<1>10. CASE LpdFails
  <2>1. CASE lpd' = Nobody
    BY <1>10, <1>n, <2>1 DEF LpdFails
  <2>2. CASE lpd' = [lpd EXCEPT !.pc = "next"]
    <3>1. /\ lpd' \in Printers /\ lpd'.pc = "next" /\ lpd'.jobs = lpd.jobs
          /\ UNCHANGED <<cf, df, prints, lpr, queued>>
      BY <1>10, <2>2 DEF LpdFails, SpoolTypes, Printers
    <3>2. LpdJobsQueued' /\ LpdIsAtAJob'
      BY <3>1 DEF LpdJobsQueued, LpdIsAtAJob
    <3> QED
      BY <1>l, <3>1, <3>2
  <2> QED
    BY <1>10, <2>1, <2>2 DEF LpdFails
<1> QED
  BY <1>1, <1>2, <1>3, <1>4, <1>5, <1>7, <1>8, <1>9, <1>10

(* Whoever fails or is killed, what lpr has queued is in the queue or      *)
(* printed, and whole.                                                     *)
THEOREM QueueLosesNoJob == SpoolSpec => []JobsKept
<1>1. SpoolInit => SpoolIInv
  <2> SUFFICES ASSUME SpoolInit PROVE SpoolIInv
    OBVIOUS
  <2>1. /\ DOMAIN cf = {} /\ lpr = Nobody /\ lpd = Nobody /\ queued = {}
        /\ cf \in [DOMAIN cf -> Holds]
    BY DEF SpoolInit
  <2>2. SpoolTypes
    BY <2>1, NobodyFacts DEF SpoolTypes
  <2>3. 0 \in Nat /\ DOMAIN cf \cup lpr.unread \cup Ids(lpr.jobs) = {}
    BY <2>1, NobodyFacts DEF Ids
  <2>4. IdsBounded
    BY <2>3 DEF IdsBounded
  <2>5. LprMissesNone /\ LprOwnsItsId /\ Matched
    BY <2>1, NobodyFacts DEF LprMissesNone, LprOwnsItsId, Matched
  <2>6. LpdJobsQueued /\ LpdIsAtAJob /\ JobsKept
    BY <2>1, NobodyFacts DEF LpdJobsQueued, LpdIsAtAJob, JobsKept
  <2> QED
    BY <2>2, <2>4, <2>5, <2>6 DEF SpoolIInv
<1>2. SpoolIInv /\ [SpoolNext]_spvars => SpoolIInv'
  <2>1. ASSUME SpoolIInv, UNCHANGED spvars PROVE SpoolIInv'
    BY <2>1 DEF spvars, SpoolIInv, SpoolTypes, IdsBounded, LprMissesNone, LprOwnsItsId, Matched,
      LpdJobsQueued, LpdIsAtAJob, Target, JobsKept, InQueue, IsPrinted
  <2> QED
    BY <2>1, LprKeeps, LpdKeeps DEF SpoolNext
<1>3. SpoolIInv => JobsKept
  BY DEF SpoolIInv
<1> QED
  BY <1>1, <1>2, <1>3, PTL DEF SpoolSpec

-----------------------------------------------------------------------------
(* crond. *)

(* Until the clock is set both clocks agree, a sleep ends with a   *)
(* minute, the one that follows its beginning at the latest, and what was  *)
(* started belongs to minutes that crond has done with.                    *)
CronTypeOK ==
  /\ clock \in 0 .. MaxTick /\ elapsed \in 0 .. MaxTick /\ wake \in Nat
  /\ table \in Tables \cup {{}} /\ newtable \in Tables \cup {{}}
  /\ entries \in Tables \cup {{}} /\ cron \in {"new", "sleep", "run"}
  /\ smooth \subseteq Minutes \ {0} /\ reset \in BOOLEAN /\ (reset => smooth = {})
  /\ \A s \in fired : s = <<s[1], s[2], s[3]>> /\ s[2] \in Nat

SleepsTo(w) == wake = w * TicksPerMinute /\ w <= Minute + 1 /\ \A s \in fired : s[2] < w
OnTime ==
  ~reset =>
    /\ clock = elapsed
    /\ \A s \in fired : s[2] <= Minute
    /\ cron = "sleep" => \E w \in Nat : SleepsTo(w)
    /\ cron = "run" => \A s \in fired : s[2] < Minute

(* In a smooth minute crond runs the table as it is, and once it has, what *)
(* was started for the minute is what the table asks for.                  *)
DueStarted ==
  /\ \A e \in table : Matches(e, Calendar[Minute]) => \E s \in fired : s[1] = e /\ s[2] = Minute
  /\ \A s \in fired : s[2] = Minute => s[1] \in table /\ Matches(s[1], Calendar[Minute])
InTurn ==
  Minute \in smooth =>
    /\ cron = "run" => entries = table
    /\ cron = "new" \/ (cron = "sleep" /\ elapsed < wake) => DueStarted

CronIInv == CronTypeOK /\ OnTime /\ NeverTwice /\ InTurn

-----------------------------------------------------------------------------
(* Minutes and steps: what \div and % are. *)
LEMMA DivFacts ==
  ASSUME NEW c \in Nat, NEW T \in Nat \ {0}
  PROVE  /\ c \div T \in Nat
         /\ (c \div T) * T <= c
         /\ c < (c \div T) * T + T
  OBVIOUS

LEMMA DivUnique ==
  ASSUME NEW c \in Nat, NEW T \in Nat \ {0}, NEW m \in Nat, m * T <= c, c < m * T + T
  PROVE  c \div T = m
  OBVIOUS

LEMMA TimesLess ==
  ASSUME NEW a \in Nat, NEW b \in Nat, NEW T \in Nat, a < b
  PROVE  a * T + T <= b * T
  OBVIOUS

LEMMA StepFacts ==
  ASSUME NEW d \in Nat, NEW s \in Nat \ {0}
  PROVE  /\ d \div s \in Nat /\ d \div s <= d
         /\ d % s = 0 => d = (d \div s) * s
  OBVIOUS

LEMMA StepTimes ==
  ASSUME NEW k \in Nat, NEW s \in Nat \ {0}
  PROVE  k * s \in Nat /\ (k * s) % s = 0
  OBVIOUS

(* A value is a number of steps above the first one, as many as the        *)
(* remainder is zero.                                                      *)
InSteps(v, lo, s, max) == \E k \in 0 .. max : v = lo + k * s

LEMMA StepsAbove ==
  ASSUME NEW lo \in Nat, NEW v \in Nat, NEW max \in Nat, NEW s \in Nat \ {0},
         lo <= v, v <= max
  PROVE  ((v - lo) % s = 0) <=> InSteps(v, lo, s, max)
<1> DEFINE d == v - lo
<1>1. d \in Nat /\ d <= max
  OBVIOUS
<1>2. ASSUME d % s = 0 PROVE InSteps(v, lo, s, max)
  <2>1. /\ d \div s \in Nat /\ d \div s <= d /\ d = (d \div s) * s
    BY <1>1, <1>2, StepFacts
  <2> DEFINE k == d \div s
  <2>2. k \in 0 .. max /\ k * s = d /\ k * s \in Nat
    BY <1>1, <2>1
  <2>3. v = lo + d
    OBVIOUS
  <2>4. v = lo + k * s
    BY <2>2, <2>3
  <2> HIDE DEF k
  <2> QED BY <2>2, <2>4 DEF InSteps
<1>3. ASSUME NEW k \in 0 .. max, v = lo + k * s PROVE d % s = 0
  <2>0. k \in Nat
    OBVIOUS
  <2>1. k * s \in Nat /\ (k * s) % s = 0
    BY <2>0, StepTimes
  <2>2. d = k * s
    BY <1>3, <2>1
  <2> QED BY <2>1, <2>2
<1> QED BY <1>2, <1>3 DEF InSteps

(* Matching a part is being one of the values it lists ...                 *)
PartValues(p, min, max) ==
  IF p.all THEN {v \in min .. max : \E k \in 0 .. max : v = min + k * p.step}
           ELSE {v \in p.lo .. p.hi : \E k \in 0 .. max : v = p.lo + k * p.step}
LegalPart(p) ==
  /\ p.step \in Nat \ {0} /\ p.all \in BOOLEAN
  /\ p.all \/ (p.lo \in Nat /\ p.hi \in Int)

LEMMA PartMeans ==
  ASSUME NEW min \in Nat, NEW max \in Nat, NEW p, LegalPart(p), NEW v \in min .. max
  PROVE  MatchPart(p, v, min, max) <=> v \in PartValues(p, min, max)
<1>0. p.step \in Nat \ {0} /\ p.step > 0 /\ v \in Nat /\ v <= max
  BY DEF LegalPart
<1>1. CASE p.all
  <2>1. MatchPart(p, v, min, max) <=> (v - min) % p.step = 0
    BY <1>0, <1>1 DEF MatchPart
  <2>2. v \in PartValues(p, min, max) <=> InSteps(v, min, p.step, max)
    BY <1>1 DEF PartValues, InSteps
  <2>3. min <= v
    OBVIOUS
  <2> QED BY <1>0, <2>1, <2>2, <2>3, StepsAbove
<1>2. CASE ~p.all
  <2>0. p.lo \in Nat /\ p.hi \in Int
    BY <1>2 DEF LegalPart
  <2>1. MatchPart(p, v, min, max) <=> v \in p.lo .. p.hi /\ (v - p.lo) % p.step = 0
    BY <1>0, <1>2 DEF MatchPart
  <2>2. v \in PartValues(p, min, max) <=> v \in p.lo .. p.hi /\ InSteps(v, p.lo, p.step, max)
    BY <1>2 DEF PartValues, InSteps
  <2>3. CASE v \in p.lo .. p.hi
    <3>1. p.lo <= v
      BY <2>0, <2>3
    <3> QED BY <1>0, <2>0, <2>1, <2>2, <2>3, <3>1, StepsAbove
  <2> QED BY <2>1, <2>2, <2>3
<1> QED BY <1>1, <1>2

(* ... and so for a field, for the day of the week, and for "*".           *)
LEMMA FieldMeans ==
  ASSUME NEW min \in Nat, NEW max \in Nat, NEW spec, Written(spec), NEW v \in min .. max
  PROVE  MatchField(spec, v, min, max) <=> v \in Values(spec, min, max)
<1>1. \A p \in spec : LegalPart(p)
  BY DEF Written, LegalPart
<1>2. \A p \in spec : MatchPart(p, v, min, max) <=> v \in PartValues(p, min, max)
  BY <1>1, PartMeans
<1>3. Values(spec, min, max) = UNION {PartValues(p, min, max) : p \in spec}
  BY DEF Values, PartValues
<1> QED BY <1>2, <1>3 DEF MatchField

LEMMA DaysOfWeek ==
  ASSUME NEW spec, \A p \in spec : p.all \/ p.lo .. p.hi \subseteq 0 .. 7
  PROVE  Values(spec, 0, 7) \subseteq 0 .. 7
<1> SUFFICES ASSUME NEW p \in spec, NEW v \in PartValues(p, 0, 7) PROVE v \in 0 .. 7
  BY DEF Values, PartValues
<1>1. CASE p.all
  BY <1>1 DEF PartValues
<1>2. CASE ~p.all
  <2>1. PartValues(p, 0, 7) \subseteq p.lo .. p.hi
    BY <1>2 DEF PartValues
  <2> QED BY <1>2, <2>1
<1> QED BY <1>1, <1>2

LEMMA DowMeans ==
  ASSUME NEW spec, Written(spec), \A p \in spec : p.all \/ p.lo .. p.hi \subseteq 0 .. 7,
         NEW v \in 0 .. 6
  PROVE  MatchDow(spec, v) <=> v \in {x % 7 : x \in Values(spec, 0, 7)}
<1>1. /\ MatchField(spec, v, 0, 7) <=> v \in Values(spec, 0, 7)
      /\ MatchField(spec, 7, 0, 7) <=> 7 \in Values(spec, 0, 7)
  BY FieldMeans
<1>2. Values(spec, 0, 7) \subseteq 0 .. 7
  BY DaysOfWeek
<1>3. \A x \in 0 .. 7 : x % 7 = v <=> x = v \/ (x = 7 /\ v = 0)
  OBVIOUS
<1> QED BY <1>1, <1>2, <1>3 DEF MatchDow

LEMMA EveryMatches ==
  ASSUME NEW min \in Nat, NEW max \in Nat, NEW v \in min .. max
  PROVE  MatchField(Every, v, min, max)
<1>1. /\ All(1).all = TRUE /\ All(1).step = 1 /\ All(1) \in Every
  BY DEF All, Every
<1>2. (v - min) % 1 = 0
  OBVIOUS
<1>3. MatchPart(All(1), v, min, max)
  BY <1>1, <1>2 DEF MatchPart
<1> QED BY <1>1, <1>3 DEF MatchField

(* matches runs an entry in the minutes its schedule means.                *)
LEMMA MatchesMeans ==
  ASSUME NEW T \in Tables, NEW e \in T, NEW m \in DOMAIN Calendar
  PROVE  Matches(e, Calendar[m]) <=> Scheduled(e, Calendar[m])
<1> DEFINE t == Calendar[m]
<1>1. /\ t.minute \in 0 .. 59 /\ t.hour \in 0 .. 23 /\ t.dom \in 1 .. 31
      /\ t.month \in 1 .. 12 /\ t.dow \in 0 .. 6
      /\ Written(e.minute) /\ Written(e.hour) /\ Written(e.dom) /\ Written(e.month)
      /\ Written(e.dow) /\ \A p \in e.dow : p.all \/ p.lo .. p.hi \subseteq 0 .. 7
  BY CalendarAssumption
<1> HIDE DEF t
<1>2. /\ MatchField(e.minute, t.minute, 0, 59) <=> t.minute \in Values(e.minute, 0, 59)
      /\ MatchField(e.hour, t.hour, 0, 23) <=> t.hour \in Values(e.hour, 0, 23)
      /\ MatchField(e.dom, t.dom, 1, 31) <=> t.dom \in Values(e.dom, 1, 31)
      /\ MatchField(e.month, t.month, 1, 12) <=> t.month \in Values(e.month, 1, 12)
  BY <1>1, FieldMeans
<1>3. MatchDow(e.dow, t.dow) <=> t.dow \in {v % 7 : v \in Values(e.dow, 0, 7)}
  BY <1>1, DowMeans
<1>4. e.dom = Every => MatchField(e.dom, t.dom, 1, 31)
  BY <1>1, EveryMatches
<1>5. e.dow = Every => MatchDow(e.dow, t.dow)
  <2>1. t.dow \in 0 .. 7
    BY <1>1
  <2> QED BY <2>1, EveryMatches DEF MatchDow
<1>6. Matches(e, t) <=> Scheduled(e, t)
  BY <1>2, <1>3, <1>4, <1>5, Zenon DEF Matches, Scheduled
<1> QED BY <1>6 DEF t

-----------------------------------------------------------------------------
LEMMA NextMultiple ==
  ASSUME NEW c \in Nat, NEW T \in Nat \ {0}
  PROVE  (c \div T + 1) * T - c = (c \div T) * T + T - c
<1> DEFINE q == c \div T
<1>1. q \in Nat
  BY DivFacts
<1> HIDE DEF q
<1>2. (q + 1) * T = q * T + T
  BY <1>1
<1> QED BY <1>2 DEF q

LEMMA NextAtMost ==
  ASSUME NEW w \in Nat, NEW m \in Nat, NEW n \in Nat, w <= m + 1, m <= n
  PROVE  w <= n + 1
  OBVIOUS

LEMMA MinuteFacts ==
  ASSUME clock \in Nat
  PROVE  /\ Minute \in Nat /\ Minute * TicksPerMinute <= clock
         /\ clock < Minute * TicksPerMinute + TicksPerMinute
         /\ UntilNext(clock) = Minute * TicksPerMinute + TicksPerMinute - clock
<1>1. TicksPerMinute \in Nat \ {0}
  BY CronAssumption
<1>2. /\ clock \div TicksPerMinute \in Nat
      /\ (clock \div TicksPerMinute) * TicksPerMinute <= clock
      /\ clock < (clock \div TicksPerMinute) * TicksPerMinute + TicksPerMinute
  BY <1>1, DivFacts
<1>3. (clock \div TicksPerMinute + 1) * TicksPerMinute - clock
        = (clock \div TicksPerMinute) * TicksPerMinute + TicksPerMinute - clock
  BY <1>1, NextMultiple
<1> QED BY <1>2, <1>3, Zenon DEF Minute, UntilNext

(* A tick ends the minute or stays in it. *)
LEMMA TickMinute ==
  ASSUME clock \in Nat, clock' = clock + 1
  PROVE  /\ UntilNext(clock) = 1 =>
              Minute' = Minute + 1 /\ clock' = Minute * TicksPerMinute + TicksPerMinute
         /\ UntilNext(clock) # 1 => Minute' = Minute
<1>1. TicksPerMinute \in Nat \ {0}
  BY CronAssumption
<1> DEFINE T == TicksPerMinute
           m == Minute
           c == clock + 1
<1>2. /\ m \in Nat /\ m * T \in Nat /\ m * T <= clock /\ clock < m * T + T
      /\ UntilNext(clock) = m * T + T - clock
  BY <1>1, MinuteFacts
<1>3. Minute' = c \div T /\ c \in Nat /\ clock' = c
  BY DEF Minute
<1>4. (m + 1) * T = m * T + T
  BY <1>1, <1>2
<1> HIDE DEF T, m
<1>5. ASSUME UntilNext(clock) = 1
      PROVE  Minute' = m + 1 /\ clock' = m * T + T
  <2>1. c = m * T + T
    BY <1>1, <1>2, <1>5 DEF T
  <2>2. (m + 1) * T <= c /\ c < (m + 1) * T + T /\ m + 1 \in Nat /\ T \in Nat \ {0}
    BY <1>1, <1>2, <1>4, <2>1 DEF T
  <2>3. c \div T = m + 1
    BY <1>3, <2>2, DivUnique
  <2> QED BY <1>3, <2>1, <2>3
<1>6. ASSUME UntilNext(clock) # 1 PROVE Minute' = m
  <2>1. m * T <= c /\ c < m * T + T /\ T \in Nat \ {0}
    BY <1>1, <1>2, <1>6 DEF T
  <2>2. c \div T = m
    BY <1>2, <1>3, <2>1, DivUnique
  <2> QED BY <1>3, <2>2
<1> QED BY <1>5, <1>6 DEF m, T

LEMMA OnceForm ==
  NeverTwice <=> (~reset => \A s, t \in fired : s[1] = t[1] /\ s[2] = t[2] => s = t)
  BY DEF NeverTwice, Starts

(* What the invariant says of the minute whatever the clock does. *)
LEMMA CronHeld ==
  ASSUME CronIInv
  PROVE  /\ clock \in Nat /\ elapsed \in Nat /\ wake \in Nat
         /\ Minute \in Nat /\ TicksPerMinute \in Nat \ {0}
         /\ Minute * TicksPerMinute \in Nat /\ Minute * TicksPerMinute <= clock
         /\ clock < Minute * TicksPerMinute + TicksPerMinute
<1>1. /\ clock \in Nat /\ elapsed \in Nat /\ wake \in Nat /\ TicksPerMinute \in Nat \ {0}
  BY CronAssumption DEF CronIInv, CronTypeOK
<1> QED BY <1>1, MinuteFacts

LEMMA CronBegins == CronInit => CronIInv
<1> SUFFICES ASSUME CronInit PROVE CronIInv
  OBVIOUS
<1>1. /\ clock = 0 /\ elapsed = 0 /\ wake = 0 /\ table = {} /\ newtable = {}
      /\ entries = {} /\ fired = {} /\ cron = "new" /\ reset = FALSE
      /\ smooth = Minutes \ {0}
  BY DEF CronInit
<1>2. 0 \div TicksPerMinute = 0
  BY CronAssumption
<1>3. Minute = 0
  BY <1>1, <1>2 DEF Minute
<1>4. CronTypeOK
  <2>1. 0 \in 0 .. MaxTick /\ 0 \in Nat
    BY CronAssumption
  <2>2. {} \in Tables \cup {{}}
    OBVIOUS
  <2>3. smooth \subseteq Minutes \ {0} /\ ~reset /\ reset \in BOOLEAN
    BY <1>1
  <2>4. \A s \in fired : s = <<s[1], s[2], s[3]>> /\ s[2] \in Nat
    BY <1>1
  <2> QED BY <1>1, <2>1, <2>2, <2>3, <2>4 DEF CronTypeOK
<1>5. OnTime /\ NeverTwice /\ InTurn
  BY <1>1, <1>3 DEF OnTime, NeverTwice, InTurn
<1> QED BY <1>4, <1>5 DEF CronIInv

LEMMA SleepKeeps == ASSUME CronIInv, Sleep PROVE CronIInv'
<1>1. /\ cron = "new" /\ cron' = "sleep" /\ wake' = elapsed + UntilNext(clock)
      /\ clock' = clock /\ elapsed' = elapsed /\ table' = table /\ newtable' = newtable
      /\ entries' = entries /\ fired' = fired /\ smooth' = smooth /\ reset' = reset
  BY DEF Sleep
<1>2. Minute' = Minute
  BY <1>1 DEF Minute
<1>3. wake' \in Nat
  BY <1>1, CronHeld, MinuteFacts
<1>4. CronTypeOK'
  BY <1>1, <1>3 DEF CronIInv, CronTypeOK
<1>5. OnTime'
  <2> SUFFICES ASSUME ~reset PROVE OnTime'
    BY <1>1 DEF OnTime
  <2>1. clock = elapsed /\ \A s \in fired : s[2] \in Nat /\ s[2] <= Minute
    BY DEF CronIInv, OnTime, CronTypeOK
  <2>2. wake' = (Minute + 1) * TicksPerMinute
    BY <1>1, <2>1, CronHeld, MinuteFacts
  <2>3. Minute + 1 \in Nat /\ \A s \in fired : s[2] < Minute + 1
    BY <2>1, CronHeld
  <2>4. SleepsTo(Minute + 1)'
    BY <1>1, <1>2, <2>2, <2>3, CronHeld DEF SleepsTo
  <2>5. \E w \in Nat : SleepsTo(w)'
    BY <1>2, <2>3, <2>4
  <2> QED BY <1>1, <1>2, <2>1, <2>5 DEF OnTime
<1>6. NeverTwice' /\ InTurn'
  BY <1>1, <1>2 DEF CronIInv, NeverTwice, Starts, InTurn, DueStarted
<1> QED BY <1>4, <1>5, <1>6 DEF CronIInv

(* crond reads the table in a minute after all for which it has started    *)
(* commands.                                                               *)
LEMMA LoadKeeps == ASSUME CronIInv, LoadEntries PROVE CronIInv'
<1>1. /\ cron = "sleep" /\ elapsed >= wake /\ cron' = "run" /\ entries' = table
      /\ clock' = clock /\ elapsed' = elapsed /\ table' = table /\ newtable' = newtable
      /\ wake' = wake /\ fired' = fired /\ smooth' = smooth /\ reset' = reset
  BY DEF LoadEntries
<1>2. Minute' = Minute
  BY <1>1 DEF Minute
<1>3. CronTypeOK'
  BY <1>1 DEF CronIInv, CronTypeOK
<1>4. OnTime'
  <2> SUFFICES ASSUME ~reset PROVE OnTime'
    BY <1>1 DEF OnTime
  <2>1. PICK w \in Nat : SleepsTo(w)
    BY <1>1 DEF CronIInv, OnTime
  <2>2. clock = elapsed /\ wake = w * TicksPerMinute
    BY <2>1 DEF CronIInv, OnTime, SleepsTo
  <2>3. w <= Minute
    <3>1. CASE Minute < w
      <4>1. Minute * TicksPerMinute + TicksPerMinute <= w * TicksPerMinute
        BY <3>1, CronHeld, TimesLess
      <4> QED BY <1>1, <2>2, <4>1, CronHeld
    <3> QED BY <3>1, CronHeld
  <2>4. \A s \in fired : s[2] \in Nat /\ s[2] < w
    BY <2>1 DEF CronIInv, CronTypeOK, SleepsTo
  <2>5. \A s \in fired : s[2] < Minute /\ s[2] <= Minute
    BY <2>3, <2>4, CronHeld
  <2> QED BY <1>1, <1>2, <2>2, <2>5 DEF OnTime
<1>5. NeverTwice' /\ InTurn'
  BY <1>1, <1>2 DEF CronIInv, NeverTwice, Starts, InTurn
<1> QED BY <1>3, <1>4, <1>5 DEF CronIInv

(* It starts what is due and nothing it has started for this minute.       *)
LEMMA RunKeeps == ASSUME CronIInv, RunDue PROVE CronIInv'
<1> DEFINE due == {x \in entries : Matches(x, Calendar[Minute])}
           new == {<<e, Minute, elapsed>> : e \in due}
<1>1. /\ cron = "run" /\ cron' = "new" /\ fired' = fired \cup new
      /\ clock' = clock /\ elapsed' = elapsed /\ table' = table /\ newtable' = newtable
      /\ wake' = wake /\ entries' = entries /\ smooth' = smooth /\ reset' = reset
  BY DEF RunDue
<1>2. Minute' = Minute /\ Minute \in Nat
  BY <1>1, CronHeld DEF Minute
<1>3. /\ \A s \in new : /\ s = <<s[1], s[2], s[3]>> /\ s[1] \in due
                        /\ s[2] = Minute /\ s[3] = elapsed
      /\ \A e \in due : \E s \in new : s[1] = e /\ s[2] = Minute
  <2>1. \A e \in due : <<e, Minute, elapsed>> \in new
    OBVIOUS
  <2> HIDE DEF due
  <2>2. \A s \in new : \E e \in due : s = <<e, Minute, elapsed>>
    OBVIOUS
  <2> HIDE DEF new
  <2>3. \A s \in new : /\ s = <<s[1], s[2], s[3]>> /\ s[1] \in due
                       /\ s[2] = Minute /\ s[3] = elapsed
    BY <2>2
  <2>4. ASSUME NEW e \in due PROVE \E s \in new : s[1] = e /\ s[2] = Minute
    BY <2>1
  <2> QED BY <2>3, <2>4
<1>4. \A e : e \in due <=> e \in entries /\ Matches(e, Calendar[Minute])
  OBVIOUS
<1> HIDE DEF due, new
<1>5. CronTypeOK'
  BY <1>1, <1>2, <1>3 DEF CronIInv, CronTypeOK
<1>6. ASSUME ~reset
      PROVE  /\ clock = elapsed /\ \A s \in fired : s[2] \in Nat /\ s[2] < Minute
             /\ \A s, t \in fired : s[1] = t[1] /\ s[2] = t[2] => s = t
  BY <1>1, <1>6, OnceForm DEF CronIInv, OnTime, CronTypeOK
<1>7. OnTime'
  BY <1>1, <1>2, <1>3, <1>6 DEF OnTime
<1>8. NeverTwice'
  <2>1. SUFFICES ASSUME ~reset, NEW s \in fired \cup new, NEW t \in fired \cup new,
                        s[1] = t[1], s[2] = t[2]
                 PROVE  s = t
    BY <1>1 DEF NeverTwice, Starts
  <2>2. CASE s \in fired /\ t \in fired
    BY <1>6, <2>1, <2>2
  <2>3. CASE s \in new /\ t \in new
    BY <1>3, <2>1, <2>3
  <2>4. CASE (s \in fired /\ t \in new) \/ (s \in new /\ t \in fired)
    <3>1. \A x \in fired : x[2] \in Nat /\ x[2] < Minute
      BY <1>6, <2>1
    <3>2. \A x \in fired : x[2] # Minute
      BY <1>2, <3>1
    <3> QED BY <1>3, <2>1, <2>4, <3>2
  <2> QED BY <2>2, <2>3, <2>4
<1>9. InTurn'
  <2> SUFFICES ASSUME Minute \in smooth PROVE DueStarted'
    BY <1>1, <1>2 DEF InTurn
  <2>1. entries = table /\ ~reset
    BY <1>1 DEF CronIInv, InTurn, CronTypeOK
  <2>2. \A s \in fired : s[2] # Minute
    BY <1>2, <1>6, <2>1
  <2>3. \A e \in table : Matches(e, Calendar[Minute]) => \E s \in new : s[1] = e /\ s[2] = Minute
    BY <1>3, <1>4, <2>1
  <2>4. \A s \in new : s[1] \in table /\ Matches(s[1], Calendar[Minute])
    BY <1>3, <1>4, <2>1
  <2> QED BY <1>1, <1>2, <2>2, <2>3, <2>4 DEF DueStarted
<1> QED BY <1>5, <1>7, <1>8, <1>9 DEF CronIInv

(* The clock goes on.  Asleep until the next minute crond is there at its  *)
(* beginning; a minute that begins otherwise is not smooth.                *)
LEMMA TickKeeps == ASSUME CronIInv, Tick PROVE CronIInv'
<1>1. /\ clock < MaxTick /\ elapsed < MaxTick
      /\ clock' = clock + 1 /\ elapsed' = elapsed + 1
      /\ smooth' = IF UntilNext(clock) = 1 /\ (cron # "sleep" \/ elapsed >= wake)
                   THEN smooth \ {Minute, Minute + 1} ELSE smooth
      /\ table' = table /\ newtable' = newtable /\ cron' = cron /\ wake' = wake
      /\ entries' = entries /\ fired' = fired /\ reset' = reset
  BY DEF Tick
<1>2. /\ clock \in Nat /\ elapsed \in Nat /\ wake \in Nat /\ Minute \in Nat
      /\ TicksPerMinute \in Nat \ {0} /\ smooth' \subseteq smooth
  BY <1>1, CronHeld
<1>3. /\ UntilNext(clock) = 1 =>
           Minute' = Minute + 1 /\ clock' = Minute * TicksPerMinute + TicksPerMinute
      /\ UntilNext(clock) # 1 => Minute' = Minute
  BY <1>1, <1>2, TickMinute
<1>4. Minute' \in Nat /\ Minute <= Minute'
  BY <1>2, <1>3
<1>5. CronTypeOK'
  <2>1. clock' \in 0 .. MaxTick /\ elapsed' \in 0 .. MaxTick
    BY <1>1, <1>2, CronAssumption
  <2> QED BY <1>1, <1>2, <2>1 DEF CronIInv, CronTypeOK
<1>6. OnTime'
  <2> SUFFICES ASSUME ~reset PROVE OnTime'
    BY <1>1 DEF OnTime
  <2>1. clock' = elapsed' /\ \A s \in fired : s[2] \in Nat
    BY <1>1 DEF CronIInv, OnTime, CronTypeOK
  <2>2. \A s \in fired : s[2] <= Minute'
    BY <1>2, <1>4, <2>1 DEF CronIInv, OnTime
  <2>3. cron = "run" => \A s \in fired : s[2] < Minute'
    BY <1>2, <1>4, <2>1 DEF CronIInv, OnTime
  <2>4. ASSUME cron = "sleep" PROVE (\E w \in Nat : SleepsTo(w))'
    <3>1. PICK w \in Nat : SleepsTo(w)
      BY <2>4 DEF CronIInv, OnTime
    <3>2. w \in Nat /\ w <= Minute + 1
      BY <3>1, Zenon DEF SleepsTo
    <3>3. Minute \in Nat /\ Minute' \in Nat /\ Minute <= Minute'
      BY <1>2, <1>4
    <3>4. w <= Minute' + 1
      BY <3>2, <3>3, NextAtMost, Zenon
    <3>5. SleepsTo(w)'
      BY <1>1, <3>1, <3>4, Zenon DEF SleepsTo
    <3> QED BY <3>5
  <2> QED BY <1>1, <2>1, <2>2, <2>3, <2>4 DEF OnTime
<1>7. NeverTwice'
  BY <1>1 DEF CronIInv, NeverTwice, Starts
<1>8. InTurn'
  <2> SUFFICES ASSUME Minute' \in smooth' PROVE InTurn'
    BY DEF InTurn
  <2>1. CASE UntilNext(clock) # 1
    <3>1. Minute' = Minute /\ Minute \in smooth
      BY <1>2, <1>3, <2>1
    <3>2. elapsed' < wake => elapsed < wake
      BY <1>1, <1>2
    <3>3. cron = "run" => entries = table
      BY <3>1 DEF CronIInv, InTurn
    <3>4. cron = "new" \/ (cron = "sleep" /\ elapsed < wake) => DueStarted
      BY <3>1 DEF CronIInv, InTurn
    <3>5. DueStarted => DueStarted'
      BY <1>1, <3>1 DEF DueStarted
    <3> QED BY <1>1, <3>2, <3>3, <3>4, <3>5 DEF InTurn
  <2>2. CASE UntilNext(clock) = 1
    <3>1. Minute' = Minute + 1 /\ clock' = Minute * TicksPerMinute + TicksPerMinute
      BY <1>3, <2>2
    <3>2. cron = "sleep" /\ elapsed < wake
      BY <1>1, <1>2, <2>2, <3>1
    <3>3. ~reset
      BY <1>2 DEF CronIInv, CronTypeOK
    <3>4. PICK w \in Nat : SleepsTo(w)
      BY <3>2, <3>3 DEF CronIInv, OnTime
    <3>5. wake = w * TicksPerMinute /\ w <= Minute + 1 /\ clock = elapsed
      BY <3>3, <3>4 DEF CronIInv, OnTime, SleepsTo
    <3>6. wake <= elapsed'
      <4>1. CASE w = Minute + 1
        <5>1. wake = Minute * TicksPerMinute + TicksPerMinute
          BY <1>2, <3>5, <4>1
        <5> QED BY <1>1, <1>2, <3>1, <3>5, <5>1
      <4>2. CASE w < Minute + 1
        <5>1. w * TicksPerMinute + TicksPerMinute <= (Minute + 1) * TicksPerMinute
          BY <1>2, <4>2, TimesLess
        <5>2. (Minute + 1) * TicksPerMinute = Minute * TicksPerMinute + TicksPerMinute
          BY <1>2
        <5>3. wake <= clock'
          BY <1>2, <3>1, <3>5, <5>1, <5>2
        <5> QED BY <1>1, <3>5, <5>3
      <4> QED BY <1>2, <3>5, <4>1, <4>2
    <3>7. ~(elapsed' < wake')
      BY <1>1, <1>2, <3>6
    <3> QED BY <1>1, <3>2, <3>7 DEF InTurn
  <2> QED BY <2>1, <2>2
<1> QED BY <1>5, <1>6, <1>7, <1>8 DEF CronIInv

(* A minute in which the clock is set or the table is written is not       *)
(* smooth.                                                                 *)
LEMMA WorldKeeps ==
  ASSUME CronIInv, SetClock \/ TruncateTable \/ WriteTable PROVE CronIInv'
<1>1. CASE SetClock
  <2>1. /\ reset' = TRUE /\ smooth' = {} /\ clock' \in 0 .. MaxTick
        /\ elapsed' = elapsed /\ table' = table /\ newtable' = newtable /\ cron' = cron
        /\ wake' = wake /\ entries' = entries /\ fired' = fired
    BY <1>1 DEF SetClock
  <2>2. CronTypeOK'
    BY <2>1 DEF CronIInv, CronTypeOK
  <2> QED BY <2>1, <2>2 DEF CronIInv, OnTime, NeverTwice, InTurn
<1>2. CASE TruncateTable \/ WriteTable
  <2>1. /\ smooth' = smooth \ {Minute}
        /\ table' \in Tables \cup {{}} /\ newtable' \in Tables \cup {{}}
        /\ clock' = clock /\ elapsed' = elapsed /\ cron' = cron /\ wake' = wake
        /\ entries' = entries /\ fired' = fired /\ reset' = reset
    BY <1>2 DEF TruncateTable, WriteTable, CronIInv, CronTypeOK
  <2>2. Minute' = Minute
    BY <2>1 DEF Minute
  <2>3. CronTypeOK'
    BY <2>1 DEF CronIInv, CronTypeOK
  <2>4. OnTime'
    BY <2>1, <2>2 DEF CronIInv, OnTime, SleepsTo
  <2>5. NeverTwice' /\ InTurn'
    BY <2>1, <2>2 DEF CronIInv, NeverTwice, Starts, InTurn
  <2> QED BY <2>3, <2>4, <2>5 DEF CronIInv
<1> QED BY <1>1, <1>2

LEMMA CronKeeps == CronIInv /\ [CronNext]_crvars => CronIInv'
<1> SUFFICES ASSUME CronIInv, [CronNext]_crvars PROVE CronIInv'
  OBVIOUS
<1>1. CASE UNCHANGED crvars
  BY <1>1 DEF crvars, CronIInv, CronTypeOK, OnTime, SleepsTo, NeverTwice, Starts, InTurn,
     DueStarted, Minute
<1> QED BY <1>1, SleepKeeps, LoadKeeps, RunKeeps, TickKeeps, WorldKeeps DEF CronNext

LEMMA CronInvariance == CronSpec => []CronIInv
  BY CronBegins, CronKeeps, PTL DEF CronSpec

(* crond starts the commands of its table in the minutes their schedules   *)
(* mean, once in each, however late it gets its turn; what it may miss are *)
(* minutes in which it had no turn, the table was written or the clock     *)
(* set.                                                                    *)
THEOREM CommandsStartOnTime == CronSpec => []CrondIsPunctual
<1>1. CronIInv => CrondIsPunctual
  <2> SUFFICES ASSUME CronIInv PROVE RunsWhatIsDue
    BY DEF CrondIsPunctual, CronIInv
  <2> SUFFICES ASSUME cron = "sleep", elapsed < wake, Minute \in smooth
               PROVE  /\ \A e \in table : Scheduled(e, Calendar[Minute]) =>
                           Cardinality(Starts(e, Minute)) = 1
                      /\ \A s \in fired : s[2] = Minute =>
                           s[1] \in table /\ Scheduled(s[1], Calendar[Minute])
    BY DEF RunsWhatIsDue
  <2>1. DueStarted /\ ~reset /\ table \in Tables \cup {{}} /\ Minute \in Minutes
    BY DEF CronIInv, InTurn, CronTypeOK
  <2>2. Minute \in DOMAIN Calendar
    BY <2>1, CronAssumption DEF Minutes
  <2>3. \A e \in table : Matches(e, Calendar[Minute]) <=> Scheduled(e, Calendar[Minute])
    BY <2>1, <2>2, MatchesMeans
  <2>4. ASSUME NEW e \in table, Scheduled(e, Calendar[Minute])
        PROVE  Cardinality(Starts(e, Minute)) = 1
    <3>1. PICK s \in fired : s[1] = e /\ s[2] = Minute
      BY <2>1, <2>3, <2>4 DEF DueStarted
    <3>2. Starts(e, Minute) = {s}
      BY <2>1, <3>1 DEF CronIInv, NeverTwice
    <3> QED BY <3>2, FS_Singleton
  <2>5. ASSUME NEW s \in fired, s[2] = Minute
        PROVE  s[1] \in table /\ Scheduled(s[1], Calendar[Minute])
    BY <2>1, <2>3, <2>5 DEF DueStarted
  <2> QED BY <2>4, <2>5
<1> QED BY <1>1, CronInvariance, PTL

-----------------------------------------------------------------------------
(* xargs: splitting. *)

(* What batch keeps after an item: groups that are closed, and one that is *)
(* not.                                                                    *)
Indices(in)  == 1 .. Len(in.items)
Groupings(in) ==
  [out : Seq(Seq(Indices(in))), cur : Seq(Indices(in)), lines : Nat, last : Int]
LinesOf(in, group) == {LineOf(in, i) : i \in ToSet(group)}

LEMMA InputFacts ==
  ASSUME NEW in \in XargsInputs
  PROVE  /\ in.opts.maxArgs \in Nat /\ in.opts.maxLines \in Nat /\ in.opts.maxChars \in Nat
         /\ Len(in.items) \in Nat
         /\ \A i \in Indices(in) : in.items[i].len \in Nat /\ LineOf(in, i) \in Nat
         /\ \A i, j \in Indices(in) : i <= j => LineOf(in, i) <= LineOf(in, j)
<1>1. in.items \in Seq(Item) /\ in.opts \in XargsOptions
  BY InputAssumption
<1>2. DOMAIN in.items = Indices(in) /\ Len(in.items) \in Nat
  BY <1>1 DEF Indices
<1>3. \A i \in Indices(in) : in.items[i] \in Item
  BY <1>1 DEF Indices
<1>4. \A i, j \in Indices(in) : i <= j => in.items[i].line <= in.items[j].line
  BY <1>2, InputAssumption
<1>5. \A i \in Indices(in) : i \in Nat
  BY DEF Indices
<1>6. \A i \in Indices(in) : in.items[i].len \in Nat /\ in.items[i].line \in Nat
  BY <1>3 DEF Item
<1> QED BY <1>1, <1>2, <1>4, <1>5, <1>6 DEF LineOf, XargsOptions

(* The length of a group, one item after the other.                        *)
LEMMA CharLenSteps ==
  ASSUME NEW in \in XargsInputs, NEW group \in Seq(Indices(in))
  PROVE \E f \in [0 .. Len(group) -> Nat] :
           /\ CharLen(in, group) = f[Len(group)] /\ f[0] = 0
           /\ \A j \in 1 .. Len(group) : f[j] = f[j - 1] + in.items[group[j]].len
<1> DEFINE N == Len(group)
           len(j) == in.items[group[j]].len
           G == [z \in Nat \X (1 .. N) |-> z[1] + len(z[2])]
<1>1. N \in Nat /\ \A j \in 1 .. N : len(j) \in Nat
  BY InputFacts
<1> HIDE DEF N, len
<1>2. PICK f : Steps(f, Nat, N, 0, G)
  <2>1. G \in [Nat \X (1 .. N) -> Nat]
    BY <1>1
  <2> HIDE DEF G
  <2> QED BY <1>1, <2>1, RecursionExists
<1>3. f \in [0 .. N -> Nat] /\ f[0] = 0 /\ \A j \in 1 .. N : f[j] = f[j - 1] + len(j)
  <2>1. f \in [0 .. N -> Nat] /\ f[0] = 0 /\ \A j \in 1 .. N : f[j] = G[<<f[j - 1], j>>]
    BY <1>2, Zenon DEF Steps
  <2>2. ASSUME NEW j \in 1 .. N PROVE f[j] = f[j - 1] + len(j)
    <3>1. f[j - 1] \in Nat
      BY <1>1, <2>1
    <3> QED BY <2>1, <3>1
  <2> QED BY <2>1, <2>2
<1> DEFINE Fix(h) == h = [j \in 0 .. N |-> IF j = 0 THEN 0 ELSE h[j - 1] + len(j)]
           t == CHOOSE h : Fix(h)
<1>4. Fix(f)
  BY <1>1, <1>3
<1>5. Fix(t)
  <2> HIDE DEF Fix
  <2> QED BY <1>4
<1>6. CharLen(in, group) = t[N]
  BY DEF CharLen, N, len
<1>7. \A h : Fix(h) => /\ h[0] = 0 /\ \A j \in 1 .. N : h[j] = h[j - 1] + len(j)
                       /\ h = [j \in 0 .. N |-> h[j]]
  BY <1>1
<1> HIDE DEF Fix, t
<1>8. \A j \in 0 .. N : t[j] \in Nat
  <2> DEFINE P == {j \in 0 .. N : t[j] \in Nat}
  <2>1. 0 \in P /\ \A j \in 1 .. N : j - 1 \in P => j \in P
    BY <1>1, <1>5, <1>7
  <2> HIDE DEF P
  <2>2. 0 .. N \subseteq P
    BY <1>1, <2>1, UpTo
  <2> QED BY <2>2 DEF P
<1>9. t \in [0 .. N -> Nat]
  BY <1>5, <1>7, <1>8
<1> QED BY <1>5, <1>6, <1>7, <1>9 DEF N, len

LEMMA CharLenGrows ==
  ASSUME NEW in \in XargsInputs, NEW group \in Seq(Indices(in)), NEW i \in Indices(in)
  PROVE  /\ CharLen(in, group) \in Nat
         /\ CharLen(in, Append(group, i)) = CharLen(in, group) + in.items[i].len
<1> DEFINE N == Len(group)
           longer == Append(group, i)
           len(j) == in.items[longer[j]].len
<1>1. /\ N \in Nat /\ longer \in Seq(Indices(in)) /\ Len(longer) = N + 1 /\ longer[N + 1] = i
      /\ \A j \in 1 .. N : longer[j] = group[j]
  OBVIOUS
<1>2. PICK f \in [0 .. N -> Nat] :
        /\ CharLen(in, group) = f[N] /\ f[0] = 0
        /\ \A j \in 1 .. N : f[j] = f[j - 1] + len(j)
  BY <1>1, CharLenSteps
<1>3. PICK g \in [0 .. N + 1 -> Nat] :
        /\ CharLen(in, longer) = g[N + 1] /\ g[0] = 0
        /\ \A j \in 1 .. N + 1 : g[j] = g[j - 1] + len(j)
  BY <1>1, CharLenSteps
<1> HIDE DEF N, longer, len
<1>4. f[N] = g[N]
  <2> DEFINE P == {j \in 0 .. N : f[j] = g[j]}
  <2>1. 0 \in P /\ \A j \in 1 .. N : j - 1 \in P => j \in P
    BY <1>1, <1>2, <1>3
  <2> HIDE DEF P
  <2>2. 0 .. N \subseteq P
    BY <1>1, <2>1, UpTo
  <2> QED BY <1>1, <2>2 DEF P
<1>5. g[N + 1] = g[N] + len(N + 1) /\ f[N] \in Nat
  BY <1>1, <1>2, <1>3
<1>6. len(N + 1) = in.items[i].len
  BY <1>1 DEF len
<1> QED BY <1>2, <1>3, <1>4, <1>5, <1>6 DEF longer

(* The lines of a group whose last item is n, with the item after it: one  *)
(* more unless it is on the same line.                                     *)
LEMMA LinesGrow ==
  ASSUME NEW in \in XargsInputs, NEW group \in Seq(Indices(in)), NEW i \in Indices(in),
         group # <<>>, Successive(group), Last(group) = i - 1
  PROVE  /\ IsFiniteSet(LinesOf(in, group)) /\ Cardinality(LinesOf(in, group)) \in Nat
         /\ Cardinality(LinesOf(in, Append(group, i))) =
              IF LineOf(in, i) = LineOf(in, i - 1) THEN Cardinality(LinesOf(in, group))
              ELSE Cardinality(LinesOf(in, group)) + 1
<1>1. \A j \in DOMAIN group : group[j] \in Indices(in) /\ group[j] <= i - 1
  <2>1. Len(group) \in Nat \ {0} /\ group[Len(group)] = i - 1 /\ DOMAIN group = 1 .. Len(group)
    BY DEF Last
  <2>2. group[1] \in Nat /\ i - 1 = group[1] + Len(group) - 1
    BY <2>1 DEF Successive, Indices
  <2>3. ASSUME NEW j \in DOMAIN group PROVE group[j] <= i - 1
    <3>1. group[j] = group[1] + j - 1 /\ j \in 1 .. Len(group)
      BY <2>1 DEF Successive
    <3> QED BY <2>1, <2>2, <3>1
  <2> QED BY <2>3
<1>2. i - 1 \in ToSet(group) /\ \A j \in ToSet(group) : j \in Indices(in) /\ j <= i - 1
  <2>1. Len(group) \in DOMAIN group /\ group[Len(group)] = i - 1
    BY DEF Last
  <2> QED BY <1>1, <2>1, Zenon DEF ToSet
<1>3. ToSet(Append(group, i)) = ToSet(group) \cup {i}
  <2>1. /\ DOMAIN Append(group, i) = DOMAIN group \cup {Len(group) + 1}
        /\ \A j \in DOMAIN group : Append(group, i)[j] = group[j]
        /\ Append(group, i)[Len(group) + 1] = i
    OBVIOUS
  <2> DEFINE longer == Append(group, i)
  <2> HIDE DEF longer
  <2> QED BY <2>1 DEF ToSet, longer
<1>4. LinesOf(in, Append(group, i)) = LinesOf(in, group) \cup {LineOf(in, i)}
  BY <1>3 DEF LinesOf
<1>5. IsFiniteSet(LinesOf(in, group)) /\ Cardinality(LinesOf(in, group)) \in Nat
  <2>1. i - 1 \in Indices(in) /\ LineOf(in, i - 1) \in Nat
    BY <1>2, InputFacts
  <2>2. LinesOf(in, group) \subseteq 0 .. LineOf(in, i - 1)
    <3>1. ASSUME NEW j \in ToSet(group) PROVE LineOf(in, j) \in 0 .. LineOf(in, i - 1)
      BY <1>2, <2>1, InputFacts
    <3> QED BY <3>1 DEF LinesOf
  <2>3. IsFiniteSet(0 .. LineOf(in, i - 1))
    BY <2>1, FS_Interval
  <2>4. IsFiniteSet(LinesOf(in, group))
    BY <2>2, <2>3, FS_Subset
  <2> QED BY <2>4, FS_CardinalityType
<1>6. CASE LineOf(in, i) = LineOf(in, i - 1)
  <2>1. LinesOf(in, Append(group, i)) = LinesOf(in, group)
    BY <1>2, <1>4, <1>6 DEF LinesOf
  <2> QED BY <1>5, <1>6, <2>1
<1>7. CASE LineOf(in, i) # LineOf(in, i - 1)
  <2>1. ASSUME NEW j \in ToSet(group) PROVE LineOf(in, j) # LineOf(in, i)
    <3>1. /\ j \in Indices(in) /\ i - 1 \in Indices(in)
          /\ j <= i - 1 /\ i - 1 <= i
      BY <1>2 DEF Indices
    <3>2. /\ LineOf(in, j) <= LineOf(in, i - 1) /\ LineOf(in, i - 1) <= LineOf(in, i)
          /\ LineOf(in, j) \in Nat /\ LineOf(in, i - 1) \in Nat /\ LineOf(in, i) \in Nat
      BY <3>1, InputFacts
    <3> QED BY <1>7, <3>2
  <2>2. LineOf(in, i) \notin LinesOf(in, group)
    BY <2>1 DEF LinesOf
  <2> QED BY <1>4, <1>5, <1>7, <2>2, FS_AddElement
<1> QED BY <1>5, <1>6, <1>7

-----------------------------------------------------------------------------
(* One item more.  The types of what batch keeps ...                       *)
LEMMA GroupedRecord ==
  ASSUME NEW A, NEW B, NEW C, NEW D, NEW x \in [out : A, cur : B, lines : C, last : D]
  PROVE  /\ x.out \in A /\ x.cur \in B /\ x.lines \in C /\ x.last \in D
         /\ x = Grouped(x.out, x.cur, x.lines, x.last)
<1>1. x.out \in A /\ x.cur \in B /\ x.lines \in C /\ x.last \in D
  OBVIOUS
<1>2. x = Grouped(x.out, x.cur, x.lines, x.last)
  BY DEF Grouped
<1> QED BY <1>1, <1>2

LEMMA GroupedType ==
  ASSUME NEW A, NEW B, NEW C, NEW D, NEW out \in A, NEW cur \in B, NEW lines \in C, NEW last \in D
  PROVE  Grouped(out, cur, lines, last) \in [out : A, cur : B, lines : C, last : D]
  BY DEF Grouped

LEMMA GroupedFields ==
  ASSUME NEW out, NEW cur, NEW lines, NEW last
  PROVE  /\ Grouped(out, cur, lines, last).out = out /\ Grouped(out, cur, lines, last).cur = cur
         /\ Grouped(out, cur, lines, last).lines = lines /\ Grouped(out, cur, lines, last).last = last
  BY DEF Grouped

LEMMA GroupingsForm ==
  ASSUME NEW in, NEW x \in Groupings(in)
  PROVE  /\ x.out \in Seq(Seq(Indices(in))) /\ x.cur \in Seq(Indices(in))
         /\ x.lines \in Nat /\ x.last \in Int
         /\ x = Grouped(x.out, x.cur, x.lines, x.last)
<1> DEFINE A == Seq(Seq(Indices(in)))
           B == Seq(Indices(in))
<1>1. x \in [out : A, cur : B, lines : Nat, last : Int]
  BY DEF Groupings
<1> HIDE DEF A, B
<1>2. x.out \in A /\ x.cur \in B /\ x.lines \in Nat /\ x.last \in Int
  BY <1>1, GroupedRecord
<1>3. x = Grouped(x.out, x.cur, x.lines, x.last)
  BY <1>1, GroupedRecord
<1> QED BY <1>2, <1>3 DEF A, B

LEMMA GroupingsType ==
  ASSUME NEW in, NEW out \in Seq(Seq(Indices(in))), NEW cur \in Seq(Indices(in)),
         NEW lines \in Nat, NEW last \in Int
  PROVE  Grouped(out, cur, lines, last) \in Groupings(in)
<1> DEFINE A == Seq(Seq(Indices(in)))
           B == Seq(Indices(in))
<1>1. out \in A /\ cur \in B
  OBVIOUS
<1>2. Groupings(in) = [out : A, cur : B, lines : Nat, last : Int]
  BY DEF Groupings
<1> HIDE DEF A, B
<1> QED BY <1>1, <1>2, GroupedType

LEMMA FlushedForm ==
  ASSUME NEW in, NEW x \in Groupings(in)
  PROVE  /\ Flushed(x) \in Groupings(in)
         /\ x.cur # <<>> => /\ Flushed(x) = Grouped(Append(x.out, x.cur), <<>>, 0, -1)
                            /\ Flushed(x).out = Append(x.out, x.cur)
                            /\ Flushed(x).cur = <<>> /\ Flushed(x).lines = 0
<1>1. x.out \in Seq(Seq(Indices(in))) /\ x.cur \in Seq(Indices(in))
  BY GroupingsForm
<1>2. Append(x.out, x.cur) \in Seq(Seq(Indices(in))) /\ <<>> \in Seq(Indices(in)) /\ -1 \in Int /\ 0 \in Nat
  BY <1>1
<1>3. Grouped(Append(x.out, x.cur), <<>>, 0, -1) \in Groupings(in)
  BY <1>2, GroupingsType
<1>4. CASE x.cur = <<>>
  BY <1>4 DEF Flushed
<1>5. CASE x.cur # <<>>
  <2>1. Flushed(x) = Grouped(Append(x.out, x.cur), <<>>, 0, -1)
    BY <1>5 DEF Flushed
  <2> DEFINE a == Append(x.out, x.cur)
             z == -1
  <2>2. Flushed(x) = Grouped(a, <<>>, 0, z)
    BY <2>1
  <2> HIDE DEF a, z
  <2>3. Flushed(x).out = a /\ Flushed(x).cur = <<>> /\ Flushed(x).lines = 0
    BY <2>2, GroupedFields
  <2> QED BY <1>3, <1>5, <2>1, <2>3 DEF a
<1> QED BY <1>4, <1>5

LEMMA SplitForm ==
  ASSUME NEW in \in XargsInputs, NEW x \in Groupings(in), NEW cond, NEW i \in Indices(in)
  PROVE  SplitIf(cond, x, in, i) \in Groupings(in)
<1>1. Flushed(x) \in Groupings(in)
  BY FlushedForm
<1>2. Flushed(x).out \in Seq(Seq(Indices(in))) /\ Flushed(x).cur \in Seq(Indices(in))
  BY <1>1, GroupingsForm
<1>3. LineOf(in, i) \in Int /\ 1 \in Nat
  BY InputFacts
<1>4. Grouped(Flushed(x).out, Flushed(x).cur, 1, LineOf(in, i)) \in Groupings(in)
  BY <1>2, <1>3, GroupingsType
<1> QED BY <1>1, <1>4 DEF SplitIf

LEMMA CountForm ==
  ASSUME NEW in \in XargsInputs, NEW x \in Groupings(in), NEW i \in Indices(in)
  PROVE  CountLine(x, in, i) \in Groupings(in)
<1> DEFINE f == IF x.lines >= in.opts.maxLines THEN Flushed(x) ELSE x
<1>1. f \in Groupings(in)
  BY FlushedForm
<1> HIDE DEF f
<1>2. f.out \in Seq(Seq(Indices(in))) /\ f.cur \in Seq(Indices(in)) /\ f.lines \in Nat
  BY <1>1, GroupingsForm
<1>3. LineOf(in, i) \in Int /\ f.lines + 1 \in Nat
  BY <1>2, InputFacts
<1>4. Grouped(f.out, f.cur, f.lines + 1, LineOf(in, i)) \in Groupings(in)
  BY <1>2, <1>3, GroupingsType
<1> QED BY <1>4 DEF CountLine, f

LEMMA AddItemType ==
  ASSUME NEW in \in XargsInputs, NEW b \in Groupings(in), NEW i \in Indices(in)
  PROVE  AddItem(b, in, i) \in Groupings(in)
<1> DEFINE byL == CountLine(b, in, i)
           byN == SplitIf(in.opts.maxArgs > 0 /\ Len(byL.cur) >= in.opts.maxArgs, byL, in, i)
           over == /\ in.opts.maxChars > 0 /\ byN.cur # <<>>
                   /\ CharLen(in, byN.cur) + in.items[i].len > in.opts.maxChars
           byS == SplitIf(over, byN, in, i)
<1>1. AddItem(b, in, i) = Grouped(byS.out, Append(byS.cur, i), byS.lines, byS.last)
  BY DEF AddItem
<1>2. byL \in Groupings(in)
  BY CountForm
<1> HIDE DEF byL
<1>3. byN \in Groupings(in)
  BY <1>2, SplitForm
<1> HIDE DEF byN
<1>4. byS \in Groupings(in)
  BY <1>3, SplitForm
<1> HIDE DEF byS
<1>5. /\ byS.out \in Seq(Seq(Indices(in))) /\ byS.cur \in Seq(Indices(in))
      /\ byS.lines \in Nat /\ byS.last \in Int
  BY <1>4, GroupingsForm
<1>6. Append(byS.cur, i) \in Seq(Indices(in))
  BY <1>5
<1> QED BY <1>1, <1>5, <1>6, GroupingsType

(* ... and the group that is open.                                         *)
OpenGroup(in, b, n) ==
  /\ b \in Groupings(in) /\ b.cur # <<>> /\ Successive(b.cur) /\ Last(b.cur) = n
  /\ Fits(in, b.cur)
  /\ in.opts.maxLines > 0 =>
       b.last = LineOf(in, n) /\ b.lines = Cardinality(LinesOf(in, b.cur))

(* What batch tests are the limits: an item goes to the open group if it   *)
(* fits there, and begins a group of its own otherwise.                    *)
Joined(in, b, i) ==
  Grouped(b.out, Append(b.cur, i),
          IF in.opts.maxLines = 0 \/ LineOf(in, i) = b.last THEN b.lines ELSE b.lines + 1,
          IF in.opts.maxLines = 0 THEN b.last ELSE LineOf(in, i))
Parted(in, b, i) ==
  Grouped(Append(b.out, b.cur), <<i>>,
          IF in.opts.maxLines = 0 THEN 0 ELSE 1,
          IF in.opts.maxLines = 0 THEN -1 ELSE LineOf(in, i))

NewLineFull(in, b, i) ==
  in.opts.maxLines > 0 /\ LineOf(in, i) # b.last /\ b.lines >= in.opts.maxLines
ManyArgs(in, b)    == in.opts.maxArgs > 0 /\ Len(b.cur) >= in.opts.maxArgs
Refused(in, b, i)  ==
  in.opts.maxChars > 0 /\ CharLen(in, b.cur) + in.items[i].len > in.opts.maxChars

LEMMA FitsTests ==
  ASSUME NEW in \in XargsInputs, NEW i \in Indices(in), NEW b, OpenGroup(in, b, i - 1)
  PROVE  Fits(in, Append(b.cur, i)) <=> ~NewLineFull(in, b, i) /\ ~ManyArgs(in, b) /\ ~Refused(in, b, i)
<1> DEFINE longer == Append(b.cur, i)
           o == in.opts
<1>1. /\ b.cur \in Seq(Indices(in)) /\ b.cur # <<>> /\ Successive(b.cur) /\ Last(b.cur) = i - 1
      /\ b.lines \in Nat /\ Fits(in, b.cur)
      /\ o.maxLines > 0 => b.last = LineOf(in, i - 1) /\ b.lines = Cardinality(LinesOf(in, b.cur))
  BY DEF OpenGroup, Groupings
<1>2. Len(b.cur) \in Nat \ {0} /\ Len(longer) = Len(b.cur) + 1
  BY <1>1
<1>3. /\ o.maxArgs \in Nat /\ o.maxLines \in Nat /\ o.maxChars \in Nat
  BY InputFacts
<1>4. (o.maxArgs > 0 => Len(longer) <= o.maxArgs) <=> ~ManyArgs(in, b)
  BY <1>2, <1>3 DEF ManyArgs
<1>5. (o.maxChars > 0 => Len(longer) = 1 \/ CharLen(in, longer) <= o.maxChars) <=> ~Refused(in, b, i)
  <2>1. /\ CharLen(in, b.cur) \in Nat /\ in.items[i].len \in Nat
        /\ CharLen(in, longer) = CharLen(in, b.cur) + in.items[i].len
    BY <1>1, CharLenGrows, InputFacts
  <2> QED BY <1>2, <1>3, <2>1 DEF Refused
<1>6. (o.maxLines > 0 => Cardinality(LinesOf(in, longer)) <= o.maxLines) <=> ~NewLineFull(in, b, i)
  <2> SUFFICES ASSUME o.maxLines > 0
               PROVE  Cardinality(LinesOf(in, longer)) <= o.maxLines <=> ~NewLineFull(in, b, i)
    BY DEF NewLineFull
  <2>1. b.last = LineOf(in, i - 1) /\ b.lines = Cardinality(LinesOf(in, b.cur)) /\ b.lines <= o.maxLines
    BY <1>1 DEF Fits, LinesOf
  <2>2. Cardinality(LinesOf(in, longer)) =
          IF LineOf(in, i) = LineOf(in, i - 1) THEN Cardinality(LinesOf(in, b.cur))
          ELSE Cardinality(LinesOf(in, b.cur)) + 1
    BY <1>1, LinesGrow
  <2> QED BY <1>1, <1>3, <2>1, <2>2 DEF NewLineFull
<1>7. Fits(in, longer) <=>
        /\ o.maxArgs > 0 => Len(longer) <= o.maxArgs
        /\ o.maxLines > 0 => Cardinality(LinesOf(in, longer)) <= o.maxLines
        /\ o.maxChars > 0 => Len(longer) = 1 \/ CharLen(in, longer) <= o.maxChars
  BY DEF Fits, LinesOf
<1> HIDE DEF longer, o
<1>8. Fits(in, longer) <=> ~NewLineFull(in, b, i) /\ ~ManyArgs(in, b) /\ ~Refused(in, b, i)
  BY <1>4, <1>5, <1>6, <1>7
<1> QED BY <1>8 DEF longer

LEMMA AddItemForm ==
  ASSUME NEW in \in XargsInputs, NEW i \in Indices(in), NEW b, OpenGroup(in, b, i - 1)
  PROVE  AddItem(b, in, i) =
           IF Fits(in, Append(b.cur, i)) THEN Joined(in, b, i) ELSE Parted(in, b, i)
<1> DEFINE o == in.opts
<1>1. /\ b \in Groupings(in) /\ b.cur # <<>> /\ b.cur \in Seq(Indices(in)) /\ b.lines \in Nat
      /\ o.maxArgs \in Nat /\ o.maxLines \in Nat /\ o.maxChars \in Nat
  BY InputFacts, GroupingsForm DEF OpenGroup
<1> DEFINE byL == CountLine(b, in, i)
           byN == SplitIf(o.maxArgs > 0 /\ Len(byL.cur) >= o.maxArgs, byL, in, i)
           over == /\ o.maxChars > 0 /\ byN.cur # <<>>
                   /\ CharLen(in, byN.cur) + in.items[i].len > o.maxChars
           byS == SplitIf(over, byN, in, i)
           out == Append(b.out, b.cur)
           ln == IF o.maxLines = 0 THEN 0 ELSE 1
           la == IF o.maxLines = 0 THEN -1 ELSE LineOf(in, i)
           cn == IF o.maxLines = 0 \/ LineOf(in, i) = b.last THEN b.lines ELSE b.lines + 1
           ca == IF o.maxLines = 0 THEN b.last ELSE LineOf(in, i)
           apart == Grouped(out, <<>>, ln, la)
           counted == Grouped(b.out, b.cur, cn, ca)
<1>2. AddItem(b, in, i) = Grouped(byS.out, Append(byS.cur, i), byS.lines, byS.last)
  BY DEF AddItem
<1>3. /\ Grouped(apart.out, Append(apart.cur, i), apart.lines, apart.last) = Parted(in, b, i)
      /\ Grouped(counted.out, Append(counted.cur, i), counted.lines, counted.last) = Joined(in, b, i)
      /\ apart.cur = <<>> /\ counted.cur = b.cur /\ counted.out = b.out
  <2>1. Append(<<>>, i) = <<i>>
    OBVIOUS
  <2>2. /\ apart.out = out /\ apart.cur = <<>> /\ apart.lines = ln /\ apart.last = la
        /\ counted.out = b.out /\ counted.cur = b.cur /\ counted.lines = cn /\ counted.last = ca
    <3> HIDE DEF out, ln, la, cn, ca
    <3> QED BY GroupedFields
  <2>3. Parted(in, b, i) = Grouped(out, <<i>>, ln, la)
    BY DEF Parted
  <2>4. Joined(in, b, i) = Grouped(b.out, Append(b.cur, i), cn, ca)
    BY DEF Joined
  <2> HIDE DEF out, ln, la, cn, ca, apart, counted
  <2> QED BY <2>1, <2>2, <2>3, <2>4
<1>4. Flushed(b) = Grouped(out, <<>>, 0, -1)
  BY <1>1, FlushedForm
<1>5. Flushed(b).out = out /\ Flushed(b).cur = <<>> /\ Flushed(b).lines = 0
  BY <1>1, FlushedForm
<1>6. byL = IF NewLineFull(in, b, i) THEN apart ELSE counted
  <2>2. CASE o.maxLines = 0 \/ LineOf(in, i) = b.last
    <3>1. ~NewLineFull(in, b, i) /\ cn = b.lines /\ ca = b.last
      BY <1>1, <2>2 DEF NewLineFull
    <3>2. b = Grouped(b.out, b.cur, b.lines, b.last)
      BY <1>1, GroupingsForm
    <3>3. byL = b
      BY <2>2, Zenon DEF CountLine
    <3> QED BY <3>1, <3>2, <3>3, Zenon
  <2>3. CASE ~(o.maxLines = 0 \/ LineOf(in, i) = b.last) /\ b.lines >= o.maxLines
    <3>1. NewLineFull(in, b, i) /\ ln = 1 /\ la = LineOf(in, i) /\ 0 + 1 = 1
      BY <1>1, <2>3 DEF NewLineFull
    <3>2. byL = Grouped(Flushed(b).out, Flushed(b).cur, Flushed(b).lines + 1, LineOf(in, i))
      BY <2>3, Zenon DEF CountLine
    <3> QED BY <1>5, <3>1, <3>2, Zenon
  <2>4. CASE ~(o.maxLines = 0 \/ LineOf(in, i) = b.last) /\ ~(b.lines >= o.maxLines)
    <3>1. ~NewLineFull(in, b, i) /\ cn = b.lines + 1 /\ ca = LineOf(in, i)
      BY <1>1, <2>4 DEF NewLineFull
    <3>2. byL = Grouped(b.out, b.cur, b.lines + 1, LineOf(in, i))
      BY <2>4, Zenon DEF CountLine
    <3> QED BY <3>1, <3>2, Zenon
  <2> QED BY <2>2, <2>3, <2>4
<1>7. counted \in Groupings(in)
  <2>1. LineOf(in, i) \in Nat /\ b.last \in Int /\ b.out \in Seq(Seq(Indices(in)))
    BY <1>1, InputFacts, GroupingsForm
  <2>2. cn \in Nat /\ ca \in Int
    BY <1>1, <2>1
  <2> HIDE DEF cn, ca
  <2> QED BY <1>1, <2>1, <2>2, GroupingsType
<1>8. \A cond \in BOOLEAN : SplitIf(cond, counted, in, i) = IF cond THEN apart ELSE counted
  <2>1. /\ Flushed(counted) = Grouped(out, <<>>, 0, -1)
        /\ Flushed(counted).out = out /\ Flushed(counted).cur = <<>>
    <3> HIDE DEF counted
    <3> QED BY <1>1, <1>3, <1>7, FlushedForm
  <2>2. CASE o.maxLines = 0
    BY <2>1, <2>2, Zenon DEF SplitIf
  <2>3. CASE o.maxLines # 0
    BY <2>1, <2>3, Zenon DEF SplitIf
  <2> QED BY <2>2, <2>3
<1>9. SplitIf(FALSE, apart, in, i) = apart
  BY Zenon DEF SplitIf
<1> HIDE DEF apart, counted, out, ln, la, cn, ca
<1>10. CASE NewLineFull(in, b, i)
  <2>1. byL = apart
    BY <1>6, <1>10
  <2>2. (o.maxArgs > 0 /\ Len(byL.cur) >= o.maxArgs) = FALSE
    BY <1>1, <1>3, <2>1
  <2>3. byN = apart
    BY <1>9, <2>1, <2>2
  <2>4. over = FALSE
    BY <1>3, <2>3
  <2>5. byS = apart
    BY <1>9, <2>3, <2>4
  <2>6. ~Fits(in, Append(b.cur, i))
    BY <1>10, FitsTests
  <2> QED BY <1>2, <1>3, <2>5, <2>6
<1>11. CASE ~NewLineFull(in, b, i) /\ ManyArgs(in, b)
  <2>1. byL = counted
    BY <1>6, <1>11
  <2>2. (o.maxArgs > 0 /\ Len(byL.cur) >= o.maxArgs) = TRUE
    BY <1>3, <1>11, <2>1 DEF ManyArgs
  <2>3. byN = apart
    BY <1>8, <2>1, <2>2
  <2>4. over = FALSE
    BY <1>3, <2>3
  <2>5. byS = apart
    BY <1>9, <2>3, <2>4
  <2>6. ~Fits(in, Append(b.cur, i))
    BY <1>11, FitsTests
  <2> QED BY <1>2, <1>3, <2>5, <2>6
<1>12. CASE ~NewLineFull(in, b, i) /\ ~ManyArgs(in, b)
  <2>1. byL = counted
    BY <1>6, <1>12
  <2>2. (o.maxArgs > 0 /\ Len(byL.cur) >= o.maxArgs) = FALSE
    BY <1>3, <1>12, <2>1 DEF ManyArgs
  <2>3. byN = counted
    BY <1>8, <2>1, <2>2
  <2>4. over = Refused(in, b, i)
    BY <1>1, <1>3, <2>3 DEF Refused
  <2>5. byS = IF Refused(in, b, i) THEN apart ELSE counted
    <3>1. Refused(in, b, i) \in BOOLEAN
      BY DEF Refused
    <3> QED BY <1>8, <2>3, <2>4, <3>1
  <2>6. Fits(in, Append(b.cur, i)) <=> ~Refused(in, b, i)
    BY <1>12, FitsTests
  <2> QED BY <1>2, <1>3, <2>5, <2>6
<1> QED BY <1>10, <1>11, <1>12

-----------------------------------------------------------------------------
(* All items. *)

LEMMA SuccessiveGrows ==
  ASSUME NEW group \in Seq(Nat), group # <<>>, Successive(group)
  PROVE  /\ Successive(Append(group, Last(group) + 1))
         /\ Append(group, Last(group) + 1)[1] = group[1]
<1> DEFINE i == Last(group) + 1
           longer == Append(group, i)
<1>1. /\ Len(group) \in Nat \ {0} /\ group[1] \in Nat /\ i = group[1] + Len(group)
  <2>1. Len(group) \in Nat \ {0} /\ 1 \in DOMAIN group /\ Len(group) \in DOMAIN group
    OBVIOUS
  <2>2. group[1] \in Nat
    BY <2>1
  <2>3. \A j \in DOMAIN group : group[j] = group[1] + j - 1
    BY Zenon DEF Successive
  <2>4. group[Len(group)] = group[1] + Len(group) - 1
    BY <2>1, <2>3, Zenon
  <2> QED BY <2>1, <2>2, <2>4 DEF Last
<1>2. i \in Nat
  BY <1>1
<1>3. /\ longer # <<>> /\ DOMAIN group = 1 .. Len(group) /\ DOMAIN longer = 1 .. Len(group) + 1
      /\ \A k \in 1 .. Len(group) : longer[k] = group[k]
      /\ longer[Len(group) + 1] = i
  <2> HIDE DEF i
  <2> QED BY <1>2, AppendFacts
<1>4. longer[1] = group[1]
  BY <1>1, <1>3
<1>5. ASSUME NEW k \in 1 .. Len(group) + 1 PROVE longer[k] = group[1] + k - 1
  <2>1. CASE k = Len(group) + 1
    BY <1>1, <1>3, <2>1
  <2>2. CASE k # Len(group) + 1
    <3>1. k \in 1 .. Len(group)
      BY <1>1, <2>2
    <3> QED BY <1>3, <3>1 DEF Successive
  <2> QED BY <2>1, <2>2
<1> QED BY <1>3, <1>4, <1>5 DEF Successive

LEMMA FitsAlone ==
  ASSUME NEW in \in XargsInputs, NEW i \in Indices(in)
  PROVE  Fits(in, <<i>>)
<1>1. ToSet(<<i>>) = {i}
  BY DEF ToSet
<1>2. {LineOf(in, j) : j \in ToSet(<<i>>)} = {LineOf(in, i)}
  BY <1>1
<1>3. Cardinality({LineOf(in, i)}) = 1
  BY FS_Singleton
<1>4. Len(<<i>>) = 1
  OBVIOUS
<1>5. /\ in.opts.maxArgs > 0 => 1 <= in.opts.maxArgs
      /\ in.opts.maxLines > 0 => 1 <= in.opts.maxLines
  BY InputFacts
<1> QED BY <1>2, <1>3, <1>4, <1>5 DEF Fits

(* The next item joins the last group where it fits ...                    *)
LEMMA GreedyJoins ==
  ASSUME NEW in \in XargsInputs, NEW out \in Seq(Seq(Nat)), NEW cur \in Seq(Nat), NEW n \in Nat,
         Greedy(in, Append(out, cur), n), Fits(in, Append(cur, n + 1))
  PROVE  Greedy(in, Append(out, Append(cur, n + 1)), n + 1)
<1> DEFINE gs == Append(out, cur)
           longer == Append(cur, n + 1)
           hs == Append(out, longer)
           N == Len(out)
<1>1. /\ N \in Nat /\ gs # <<>> /\ hs # <<>> /\ Len(gs) = N + 1 /\ Len(hs) = N + 1
      /\ DOMAIN gs = 1 .. N + 1 /\ DOMAIN hs = 1 .. N + 1
      /\ gs[N + 1] = cur /\ hs[N + 1] = longer /\ Last(gs) = cur /\ Last(hs) = longer
      /\ \A k \in 1 .. N : gs[k] = out[k] /\ hs[k] = out[k]
  <2> DEFINE S == Seq(Nat)
  <2>1. out \in Seq(S) /\ cur \in S /\ longer \in S
    OBVIOUS
  <2> HIDE DEF longer, S
  <2>2. ASSUME NEW y \in S
        PROVE  /\ Len(out) \in Nat /\ Append(out, y) # <<>> /\ Last(Append(out, y)) = y
               /\ Len(Append(out, y)) = Len(out) + 1 /\ DOMAIN Append(out, y) = 1 .. Len(out) + 1
               /\ Append(out, y)[Len(out) + 1] = y
               /\ \A k \in 1 .. Len(out) : Append(out, y)[k] = out[k]
    <3>0. out \in Seq(S) /\ y \in S
      BY <2>1
    <3>1. Len(out) \in Nat /\ Append(out, y) # <<>> /\ Last(Append(out, y)) = y
      BY <3>0, AppendFacts
    <3>2. Len(Append(out, y)) = Len(out) + 1 /\ DOMAIN Append(out, y) = 1 .. Len(out) + 1
      BY <3>0, AppendFacts
    <3>3. Append(out, y)[Len(out) + 1] = y
      BY <3>0, AppendFacts
    <3>4. \A k \in 1 .. Len(out) : Append(out, y)[k] = out[k]
      BY <3>0, AppendFacts
    <3> QED BY <3>1, <3>2, <3>3, <3>4
  <2>3. /\ N \in Nat /\ gs # <<>> /\ Last(gs) = cur /\ Len(gs) = N + 1 /\ DOMAIN gs = 1 .. N + 1
        /\ gs[N + 1] = cur /\ \A k \in 1 .. N : gs[k] = out[k]
    BY <2>1, <2>2, Zenon
  <2>4. /\ hs # <<>> /\ Last(hs) = longer /\ Len(hs) = N + 1 /\ DOMAIN hs = 1 .. N + 1
        /\ hs[N + 1] = longer /\ \A k \in 1 .. N : hs[k] = out[k]
    BY <2>1, <2>2, Zenon
  <2> HIDE DEF gs, hs, N
  <2> QED BY <2>3, <2>4
<1>2. /\ \A k \in 1 .. N + 1 : Successive(gs[k]) /\ Fits(in, gs[k])
      /\ \A k \in 1 .. N + 1 : gs[k][1] = IF k = 1 THEN 1 ELSE Last(gs[k - 1]) + 1
      /\ Last(cur) = n
      /\ \A k \in 1 .. N : ~Fits(in, Append(gs[k], gs[k + 1][1]))
  <2>1. Greedy(in, gs, n)
    OBVIOUS
  <2>2. 1 .. Len(gs) - 1 = 1 .. N
    BY <1>1
  <2> HIDE DEF gs, N
  <2> QED BY <1>1, <2>1, <2>2 DEF Greedy
<1>3. cur # <<>> /\ Successive(cur)
  BY <1>1, <1>2 DEF Successive
<1>4. Successive(longer) /\ longer[1] = cur[1] /\ Last(longer) = n + 1
  BY <1>2, <1>3, SuccessiveGrows, AppendFacts
<1> HIDE DEF gs, hs, longer, N
<1>5. ASSUME NEW k \in 1 .. N + 1 PROVE Successive(hs[k]) /\ Fits(in, hs[k]) /\ hs[k][1] = gs[k][1]
  <2>1. CASE k = N + 1
    BY <1>1, <1>4, <2>1 DEF longer
  <2>2. CASE k \in 1 .. N
    BY <1>1, <1>2, <2>2
  <2> QED BY <1>1, <2>1, <2>2
<1>6. ASSUME NEW k \in 1 .. N + 1 PROVE hs[k][1] = IF k = 1 THEN 1 ELSE Last(hs[k - 1]) + 1
  <2>1. CASE k = 1
    BY <1>2, <1>5, <2>1
  <2>2. CASE k # 1
    <3>1. k - 1 \in 1 .. N
      BY <1>1, <2>2
    <3>2. hs[k - 1] = gs[k - 1]
      BY <1>1, <3>1
    <3> QED BY <1>2, <1>5, <2>2, <3>2
  <2> QED BY <2>1, <2>2
<1>7. ASSUME NEW k \in 1 .. N PROVE ~Fits(in, Append(hs[k], hs[k + 1][1]))
  <2>1. k \in 1 .. N + 1 /\ k + 1 \in 1 .. N + 1
    BY <1>1
  <2>2. hs[k] = gs[k] /\ hs[k + 1][1] = gs[k + 1][1]
    BY <1>1, <1>5, <2>1
  <2> QED BY <1>2, <2>2
<1>8. Greedy(in, hs, n + 1)
  <2>1. 1 .. Len(hs) - 1 = 1 .. N
    BY <1>1
  <2>2. \A k \in DOMAIN hs : Successive(hs[k]) /\ Fits(in, hs[k])
    BY <1>1, <1>5
  <2>3. \A k \in DOMAIN hs : hs[k][1] = IF k = 1 THEN 1 ELSE Last(hs[k - 1]) + 1
    BY <1>1, <1>6
  <2> QED BY <1>1, <1>4, <1>7, <2>1, <2>2, <2>3 DEF Greedy
<1> QED BY <1>8 DEF hs, longer

(* ... and begins a group of its own where it does not.                    *)
LEMMA GreedyParts ==
  ASSUME NEW in \in XargsInputs, NEW gs \in Seq(Seq(Nat)), NEW n \in Nat, n + 1 \in Indices(in),
         Greedy(in, gs, n), ~Fits(in, Append(Last(gs), n + 1))
  PROVE  Greedy(in, Append(gs, <<n + 1>>), n + 1)
<1> DEFINE one == <<n + 1>>
           hs == Append(gs, one)
           N == Len(gs)
<1>1. /\ one \in Seq(Nat) /\ one # <<>> /\ one[1] = n + 1 /\ Last(one) = n + 1 /\ Successive(one)
  BY DEF Last, Successive
<1>2. Fits(in, one)
  BY FitsAlone
<1> HIDE DEF one
<1>3. /\ N \in Nat \ {0} /\ hs # <<>> /\ Len(hs) = N + 1 /\ DOMAIN gs = 1 .. N /\ DOMAIN hs = 1 .. N + 1
      /\ hs[N + 1] = one /\ Last(hs) = one /\ \A k \in 1 .. N : hs[k] = gs[k]
  <2>1. gs # <<>>
    BY DEF Greedy
  <2>2. N \in Nat \ {0}
    BY <2>1
  <2> QED BY <1>1, <2>2, AppendFacts
<1>4. /\ \A k \in 1 .. N : Successive(gs[k]) /\ Fits(in, gs[k])
      /\ \A k \in 1 .. N : gs[k][1] = IF k = 1 THEN 1 ELSE Last(gs[k - 1]) + 1
      /\ Last(gs[N]) = n /\ Last(gs) = gs[N]
      /\ \A k \in 1 .. N - 1 : ~Fits(in, Append(gs[k], gs[k + 1][1]))
  BY <1>3 DEF Greedy, Last
<1> HIDE DEF hs, N
<1>5. ASSUME NEW k \in 1 .. N + 1 PROVE Successive(hs[k]) /\ Fits(in, hs[k])
  <2>1. CASE k = N + 1
    BY <1>1, <1>2, <1>3, <2>1
  <2>2. CASE k \in 1 .. N
    BY <1>3, <1>4, <2>2
  <2> QED BY <1>3, <2>1, <2>2
<1>6. ASSUME NEW k \in 1 .. N + 1 PROVE hs[k][1] = IF k = 1 THEN 1 ELSE Last(hs[k - 1]) + 1
  <2>1. CASE k = N + 1
    <3>1. k # 1 /\ k - 1 = N /\ N \in 1 .. N
      BY <1>3, <2>1
    <3>2. hs[k - 1] = gs[N] /\ hs[k][1] = n + 1
      BY <1>1, <1>3, <2>1, <3>1
    <3> QED BY <1>4, <3>1, <3>2
  <2>2. CASE k \in 1 .. N /\ k = 1
    BY <1>3, <1>4, <2>2
  <2>3. CASE k \in 1 .. N /\ k # 1
    <3>1. k - 1 \in 1 .. N
      BY <1>3, <2>3
    <3>2. hs[k] = gs[k] /\ hs[k - 1] = gs[k - 1]
      BY <1>3, <2>3, <3>1
    <3> QED BY <1>4, <2>3, <3>2
  <2> QED BY <1>3, <2>1, <2>2, <2>3
<1>7. ASSUME NEW k \in 1 .. N PROVE ~Fits(in, Append(hs[k], hs[k + 1][1]))
  <2>1. CASE k = N
    <3>1. hs[k] = Last(gs) /\ hs[k + 1][1] = n + 1
      BY <1>1, <1>3, <1>4, <2>1
    <3> QED BY <3>1
  <2>2. CASE k # N
    <3>1. k \in 1 .. N - 1 /\ k + 1 \in 1 .. N
      BY <1>3, <2>2
    <3> QED BY <1>3, <1>4, <3>1
  <2> QED BY <2>1, <2>2
<1>8. Greedy(in, hs, n + 1)
  <2>1. 1 .. Len(hs) - 1 = 1 .. N
    BY <1>3
  <2>2. \A k \in DOMAIN hs : Successive(hs[k]) /\ Fits(in, hs[k])
    BY <1>3, <1>5
  <2>3. \A k \in DOMAIN hs : hs[k][1] = IF k = 1 THEN 1 ELSE Last(hs[k - 1]) + 1
    BY <1>3, <1>6
  <2> QED BY <1>1, <1>3, <1>7, <2>1, <2>2, <2>3 DEF Greedy
<1> QED BY <1>8 DEF hs, one

LEMMA FirstItem ==
  ASSUME NEW in \in XargsInputs, 1 \in Indices(in)
  PROVE  LET b == AddItem(NoGroups, in, 1)
         IN  OpenGroup(in, b, 1) /\ Greedy(in, Append(b.out, b.cur), 1)
<1> DEFINE o == in.opts
           ln == IF o.maxLines = 0 THEN 0 ELSE 1
           la == IF o.maxLines = 0 THEN -1 ELSE LineOf(in, 1)
           b == AddItem(NoGroups, in, 1)
<1>1. /\ o.maxArgs \in Nat /\ o.maxLines \in Nat /\ LineOf(in, 1) \in Nat
  BY InputFacts
<1>2. /\ NoGroups.out = <<>> /\ NoGroups.cur = <<>> /\ NoGroups.lines = 0 /\ NoGroups.last = -1
  BY DEF NoGroups, Grouped
<1>3. CountLine(NoGroups, in, 1) = Grouped(<<>>, <<>>, ln, la)
  <2>1. CASE o.maxLines = 0
    BY <1>2, <2>1 DEF CountLine, NoGroups
  <2>2. CASE o.maxLines # 0
    <3>1. ~(0 >= o.maxLines) /\ LineOf(in, 1) # -1 /\ 0 + 1 = 1
      BY <1>1, <2>2
    <3> QED BY <1>2, <2>2, <3>1 DEF CountLine
  <2> QED BY <2>1, <2>2
<1> DEFINE l == Grouped(<<>>, <<>>, ln, la)
<1>4. /\ l.out = <<>> /\ l.cur = <<>> /\ l.lines = ln /\ l.last = la
  <2> HIDE DEF ln, la
  <2> QED BY DEF Grouped
<1> HIDE DEF l
<1>5. SplitIf(FALSE, l, in, 1) = l
  BY Zenon DEF SplitIf
<1>6. b = Grouped(<<>>, <<1>>, ln, la)
  <2>1. (o.maxArgs > 0 /\ Len(l.cur) >= o.maxArgs) = FALSE
    BY <1>1, <1>4
  <2>2. Append(<<>>, 1) = <<1>>
    OBVIOUS
  <2>3. CountLine(NoGroups, in, 1) = l
    BY <1>3 DEF l
  <2> QED BY <1>4, <1>5, <2>1, <2>2, <2>3 DEF AddItem
<1>7. b.out = <<>> /\ b.cur = <<1>> /\ b.lines = ln /\ b.last = la
  <2> HIDE DEF ln, la, b
  <2> QED BY <1>6 DEF Grouped
<1>8. b \in Groupings(in)
  <2>1. <<>> \in Seq(Seq(Indices(in))) /\ <<1>> \in Seq(Indices(in))
    OBVIOUS
  <2>2. ln \in Nat /\ la \in Int
    BY <1>1
  <2> HIDE DEF ln, la, b
  <2> QED BY <1>6, <2>1, <2>2, GroupingsType
<1>9. Fits(in, <<1>>) /\ Successive(<<1>>) /\ Last(<<1>>) = 1 /\ <<1>> # <<>>
  BY FitsAlone DEF Successive, Last
<1>10. Cardinality(LinesOf(in, <<1>>)) = 1
  <2>1. ToSet(<<1>>) = {1}
    BY DEF ToSet
  <2>2. LinesOf(in, <<1>>) = {LineOf(in, 1)}
    BY <2>1 DEF LinesOf
  <2> QED BY <2>2, FS_Singleton
<1>11. OpenGroup(in, b, 1)
  <2>1. o.maxLines > 0 => ln = 1 /\ la = LineOf(in, 1)
    BY <1>1
  <2> HIDE DEF ln, la, b
  <2> QED BY <1>7, <1>8, <1>9, <1>10, <2>1 DEF OpenGroup
<1>12. Append(b.out, b.cur) = << <<1>> >>
  <2> HIDE DEF b
  <2> QED BY <1>7
<1>13. Greedy(in, << <<1>> >>, 1)
  BY <1>9 DEF Greedy, Last
<1> QED BY <1>11, <1>12, <1>13

LEMMA OneMore ==
  ASSUME NEW in \in XargsInputs, NEW i \in Indices(in), NEW b,
         OpenGroup(in, b, i - 1), Greedy(in, Append(b.out, b.cur), i - 1)
  PROVE  LET c == AddItem(b, in, i)
         IN  OpenGroup(in, c, i) /\ Greedy(in, Append(c.out, c.cur), i)
<1> DEFINE c == AddItem(b, in, i)
           o == in.opts
<1>1. /\ b \in Groupings(in) /\ b.cur # <<>> /\ Successive(b.cur) /\ Last(b.cur) = i - 1
      /\ b.out \in Seq(Seq(Indices(in))) /\ b.cur \in Seq(Indices(in)) /\ b.lines \in Nat
      /\ o.maxLines > 0 => b.last = LineOf(in, i - 1) /\ b.lines = Cardinality(LinesOf(in, b.cur))
  BY GroupingsForm DEF OpenGroup
<1>2. c \in Groupings(in)
  BY <1>1, AddItemType
<1>3. i \in Nat /\ i - 1 \in Nat /\ (i - 1) + 1 = i /\ o.maxLines \in Nat
  <2>1. i - 1 \in Nat
    <3>1. Last(b.cur) \in Indices(in)
      BY <1>1 DEF Last
    <3> QED BY <1>1, <3>1 DEF Indices
  <2> QED BY <2>1, InputFacts DEF Indices
<1>4. b.out \in Seq(Seq(Nat)) /\ b.cur \in Seq(Nat)
  <2>1. Indices(in) \subseteq Nat
    BY DEF Indices
  <2>2. \A s \in Seq(Indices(in)) : s \in Seq(Nat)
    BY <2>1
  <2>3. Seq(Indices(in)) \subseteq Seq(Nat)
    BY <2>2
  <2> DEFINE A == Seq(Indices(in))
             B == Seq(Nat)
  <2>4. b.out \in Seq(A) /\ A \subseteq B
    BY <1>1, <2>3
  <2> HIDE DEF A, B
  <2>5. b.out \in Seq(B)
    BY <2>4
  <2> QED BY <1>1, <2>2, <2>5 DEF B
<1>5. CASE Fits(in, Append(b.cur, i))
  <2> DEFINE cn == IF o.maxLines = 0 \/ LineOf(in, i) = b.last THEN b.lines ELSE b.lines + 1
             ca == IF o.maxLines = 0 THEN b.last ELSE LineOf(in, i)
  <2>1. c = Grouped(b.out, Append(b.cur, i), cn, ca)
    BY <1>5, AddItemForm DEF Joined
  <2>2. c.out = b.out /\ c.cur = Append(b.cur, i) /\ c.lines = cn /\ c.last = ca
    <3> DEFINE longer == Append(b.cur, i)
               out == b.out
    <3> HIDE DEF c, cn, ca, longer, out
    <3>1. c = Grouped(out, longer, cn, ca)
      BY <2>1 DEF longer, out
    <3>2. c.out = out /\ c.cur = longer /\ c.lines = cn /\ c.last = ca
      BY <3>1, GroupedFields
    <3> QED BY <3>2 DEF longer, out
  <2>3. Successive(Append(b.cur, i)) /\ Last(Append(b.cur, i)) = i /\ Append(b.cur, i) # <<>>
    <3>1. Last(Append(b.cur, i)) = i /\ Append(b.cur, i) # <<>>
      BY <1>1, <1>3, AppendFacts
    <3>2. Successive(Append(b.cur, i))
      BY <1>1, <1>3, <1>4, SuccessiveGrows
    <3> QED BY <3>1, <3>2
  <2>4. ASSUME o.maxLines > 0
        PROVE  ca = LineOf(in, i) /\ cn = Cardinality(LinesOf(in, Append(b.cur, i)))
    <3>1. b.last = LineOf(in, i - 1) /\ b.lines = Cardinality(LinesOf(in, b.cur)) /\ o.maxLines # 0
      BY <1>1, <1>3, <2>4
    <3>2. Cardinality(LinesOf(in, Append(b.cur, i))) =
            IF LineOf(in, i) = LineOf(in, i - 1) THEN Cardinality(LinesOf(in, b.cur))
            ELSE Cardinality(LinesOf(in, b.cur)) + 1
      BY <1>1, LinesGrow
    <3> QED BY <3>1, <3>2
  <2>5. Greedy(in, Append(b.out, Append(b.cur, i)), i)
    <3>1. Greedy(in, Append(b.out, Append(b.cur, (i - 1) + 1)), (i - 1) + 1)
      BY <1>3, <1>4, <1>5, GreedyJoins
    <3> QED BY <1>3, <3>1
  <2> HIDE DEF c, cn, ca
  <2>6. OpenGroup(in, c, i)
    BY <1>2, <1>5, <2>2, <2>3, <2>4 DEF OpenGroup
  <2> QED BY <2>2, <2>5, <2>6 DEF c
<1>6. CASE ~Fits(in, Append(b.cur, i))
  <2> DEFINE ln == IF o.maxLines = 0 THEN 0 ELSE 1
             la == IF o.maxLines = 0 THEN -1 ELSE LineOf(in, i)
             gs == Append(b.out, b.cur)
  <2>1. c = Grouped(gs, <<i>>, ln, la)
    BY <1>6, AddItemForm DEF Parted
  <2>2. c.out = gs /\ c.cur = <<i>> /\ c.lines = ln /\ c.last = la
    <3> HIDE DEF c, ln, la, gs
    <3> QED BY <2>1, GroupedFields
  <2>3. Successive(<<i>>) /\ Last(<<i>>) = i /\ <<i>> # <<>> /\ Fits(in, <<i>>)
    BY <1>3, FitsAlone DEF Successive, Last
  <2>4. Cardinality(LinesOf(in, <<i>>)) = 1
    <3>1. ToSet(<<i>>) = {i}
      BY DEF ToSet
    <3>2. LinesOf(in, <<i>>) = {LineOf(in, i)}
      BY <3>1 DEF LinesOf
    <3> QED BY <3>2, FS_Singleton
  <2>5. o.maxLines > 0 => ln = 1 /\ la = LineOf(in, i)
    BY <1>3
  <2>6. gs \in Seq(Seq(Nat)) /\ Last(gs) = b.cur
    <3> DEFINE B == Seq(Nat)
    <3>1. b.out \in Seq(B) /\ b.cur \in B
      BY <1>4
    <3> HIDE DEF B
    <3>2. gs \in Seq(B) /\ Last(gs) = b.cur
      BY <3>1, AppendFacts
    <3> QED BY <3>2 DEF B
  <2>7. Greedy(in, Append(gs, <<i>>), i)
    <3>1. Greedy(in, gs, i - 1)
      OBVIOUS
    <3> HIDE DEF gs
    <3>2. Greedy(in, Append(gs, <<(i - 1) + 1>>), (i - 1) + 1)
      BY <1>3, <1>6, <2>6, <3>1, GreedyParts
    <3> QED BY <1>3, <3>2
  <2> HIDE DEF c, ln, la, gs
  <2>8. OpenGroup(in, c, i)
    BY <1>2, <2>2, <2>3, <2>4, <2>5 DEF OpenGroup
  <2> QED BY <2>2, <2>7, <2>8 DEF c
<1> QED BY <1>5, <1>6

(* batch splits the items greedily, however many there are.                *)
LEMMA BatchIsGreedy ==
  ASSUME NEW in \in XargsInputs
  PROVE  /\ Batch(in) \in Seq(Seq(Indices(in)))
         /\ in.items # <<>> => Greedy(in, Batch(in), Len(in.items))
<1> DEFINE N == Len(in.items)
           S == Groupings(in)
           G == [z \in S \X (1 .. N) |-> AddItem(z[1], in, z[2])]
<1>1. N \in Nat /\ Indices(in) = 1 .. N
  BY InputFacts DEF Indices
<1>2. NoGroups \in S
  <2>1. <<>> \in Seq(Seq(Indices(in))) /\ <<>> \in Seq(Indices(in)) /\ 0 \in Nat /\ -1 \in Int
    OBVIOUS
  <2> QED BY <2>1, GroupingsType DEF NoGroups
<1>3. \A x \in S, j \in 1 .. N : AddItem(x, in, j) \in S
  BY <1>1, AddItemType
<1> HIDE DEF N, S
<1>4. PICK f : Steps(f, S, N, NoGroups, G)
  <2>1. G \in [S \X (1 .. N) -> S]
    BY <1>3
  <2> HIDE DEF G
  <2> QED BY <1>1, <1>2, <2>1, RecursionExists
<1>5. f \in [0 .. N -> S] /\ f[0] = NoGroups /\ \A j \in 1 .. N : f[j] = AddItem(f[j - 1], in, j)
  <2>1. f \in [0 .. N -> S] /\ f[0] = NoGroups /\ \A j \in 1 .. N : f[j] = G[<<f[j - 1], j>>]
    BY <1>4, Zenon DEF Steps
  <2>2. ASSUME NEW j \in 1 .. N PROVE f[j] = AddItem(f[j - 1], in, j)
    <3>1. f[j - 1] \in S
      BY <1>1, <2>1
    <3> QED BY <2>1, <3>1
  <2> QED BY <2>1, <2>2
<1> DEFINE Fix(h) == h = [j \in 0 .. N |-> IF j = 0 THEN NoGroups ELSE AddItem(h[j - 1], in, j)]
           b == CHOOSE h : Fix(h)
<1>6. Fix(f)
  BY <1>1, <1>5
<1>7. Fix(b)
  <2> HIDE DEF Fix
  <2> QED BY <1>6
<1>8. Batch(in) = Flushed(b[N]).out
  BY DEF Batch, N
<1>9. \A h : Fix(h) => h[0] = NoGroups /\ \A j \in 1 .. N : h[j] = AddItem(h[j - 1], in, j)
  BY <1>1
<1> HIDE DEF Fix, b
<1>10. \A j \in 0 .. N : b[j] \in S
  <2> DEFINE P == {j \in 0 .. N : b[j] \in S}
  <2>1. 0 \in P /\ \A j \in 1 .. N : j - 1 \in P => j \in P
    <3>1. 0 \in P
      BY <1>1, <1>2, <1>7, <1>9
    <3>2. ASSUME NEW j \in 1 .. N, b[j - 1] \in S PROVE b[j] \in S /\ j \in 0 .. N
      BY <1>1, <1>3, <1>7, <1>9, <3>2
    <3> QED BY <3>1, <3>2
  <2> HIDE DEF P
  <2>2. 0 .. N \subseteq P
    BY <1>1, <2>1, UpTo
  <2> QED BY <2>2 DEF P
<1>11. Batch(in) \in Seq(Seq(Indices(in)))
  <2>1. b[N] \in Groupings(in)
    BY <1>1, <1>10 DEF S
  <2>2. Flushed(b[N]) \in Groupings(in)
    BY <2>1, FlushedForm
  <2> QED BY <1>8, <2>2, GroupingsForm
<1> DEFINE Good(j) == OpenGroup(in, b[j], j) /\ Greedy(in, Append(b[j].out, b[j].cur), j)
<1>12. ASSUME 1 \in 1 .. N PROVE Good(1)
  <2>1. b[1] = AddItem(NoGroups, in, 1)
    BY <1>7, <1>9, <1>12
  <2> QED BY <1>1, <1>12, <2>1, FirstItem
<1>13. ASSUME NEW j \in 2 .. N, Good(j - 1) PROVE Good(j)
  <2>1. b[j] = AddItem(b[j - 1], in, j) /\ j \in Indices(in)
    BY <1>1, <1>7, <1>9
  <2> QED BY <1>13, <2>1, OneMore
<1>14. \A j \in 1 .. N : Good(j)
  <2> DEFINE P == {j \in 0 .. N : j = 0 \/ Good(j)}
  <2>1. 0 \in P /\ \A j \in 1 .. N : j - 1 \in P => j \in P
    <3>1. 0 \in P
      BY <1>1
    <3>2. ASSUME NEW j \in 1 .. N, j - 1 \in P PROVE j \in P
      <4>1. CASE j = 1
        BY <1>1, <1>12, <4>1
      <4>2. CASE j # 1
        <5>1. j \in 2 .. N /\ j - 1 # 0
          BY <4>2
        <5> QED BY <1>13, <3>2, <5>1
      <4> QED BY <4>1, <4>2
    <3> QED BY <3>1, <3>2
  <2> HIDE DEF P, Good
  <2>2. 0 .. N \subseteq P
    BY <1>1, <2>1, UpTo
  <2> QED BY <1>1, <2>2 DEF P
<1>15. ASSUME in.items # <<>> PROVE Greedy(in, Batch(in), N)
  <2>1. N \in 1 .. N
    <3>1. in.items \in Seq(Item)
      BY InputAssumption
    <3> QED BY <1>15, <3>1 DEF N
  <2>2. OpenGroup(in, b[N], N) /\ Greedy(in, Append(b[N].out, b[N].cur), N)
    BY <1>14, <2>1
  <2>3. Flushed(b[N]).out = Append(b[N].out, b[N].cur)
    BY <2>2, FlushedForm DEF OpenGroup
  <2> QED BY <1>8, <2>2, <2>3
<1> QED BY <1>11, <1>15 DEF N

LEMMA InvocationsFacts ==
  ASSUME NEW in \in XargsInputs
  PROVE  /\ Invocations(in) \in Seq(Seq(Indices(in)))
         /\ in.items # <<>> /\ ~in.opts.replace => Greedy(in, Invocations(in), Len(in.items))
<1>1. in.items \in Seq(Item) /\ in.opts.replace \in BOOLEAN /\ in.opts.noRunEmpty \in BOOLEAN
  BY InputAssumption DEF XargsOptions
<1>2. Batch(in) \in Seq(Seq(Indices(in))) /\ (in.items # <<>> => Greedy(in, Batch(in), Len(in.items)))
  BY BatchIsGreedy
<1>3. CASE in.items = <<>> /\ in.opts.noRunEmpty
  BY <1>3 DEF Invocations
<1>4. CASE in.items = <<>> /\ in.opts.replace /\ ~in.opts.noRunEmpty
  <2>1. Invocations(in) = [i \in DOMAIN in.items |-> <<i>>]
    BY <1>4 DEF Invocations
  <2>2. DOMAIN in.items = {}
    BY <1>4
  <2>3. Invocations(in) = <<>>
    BY <2>1, <2>2
  <2> QED BY <1>4, <2>3
<1>5. CASE in.items = <<>> /\ ~in.opts.replace /\ ~in.opts.noRunEmpty
  <2>1. Invocations(in) = << <<>> >>
    BY <1>5 DEF Invocations
  <2> QED BY <1>5, <2>1
<1>6. CASE in.items # <<>> /\ in.opts.replace
  <2>1. Invocations(in) = [i \in DOMAIN in.items |-> <<i>>]
    BY <1>6 DEF Invocations
  <2>2. DOMAIN in.items = Indices(in) /\ Len(in.items) \in Nat
    BY <1>1 DEF Indices
  <2>3. \A i \in Indices(in) : <<i>> \in Seq(Indices(in))
    OBVIOUS
  <2> DEFINE A == Seq(Indices(in))
             f(i) == <<i>>
  <2>4. \A i \in 1 .. Len(in.items) : f(i) \in A
    BY <2>3 DEF Indices
  <2> HIDE DEF A, f
  <2>5. [i \in 1 .. Len(in.items) |-> f(i)] \in Seq(A)
    BY <2>2, <2>4
  <2> QED BY <1>6, <2>1, <2>2, <2>5 DEF A, f, Indices
<1>7. CASE in.items # <<>> /\ ~in.opts.replace
  <2>1. Invocations(in) = Batch(in)
    BY <1>7 DEF Invocations
  <2> QED BY <1>2, <1>7, <2>1
<1> QED BY <1>1, <1>3, <1>4, <1>5, <1>6, <1>7

-----------------------------------------------------------------------------
(* xargs: running.  The loop has started just the invocations before       *)
(* xnext; a token is held from before a goroutine starts until it has      *)
(* reported, and the group counts it a little longer; what is printed is   *)
(* what was reported, and the error is that of the first of it to fail.    *)

WithToken  == {i \in DOMAIN invs : worker[i] \in {"spawned", "running", "ended", "flushed"}}
Unfinished == {i \in DOMAIN invs : worker[i] \in {"spawned", "running", "ended", "flushed", "released"}}
Reported   == {i \in DOMAIN invs : worker[i] \in {"flushed", "released", "over"}}

SplitOnce ==
  /\ invs \in Seq(Seq(Nat)) /\ BatchesAreGreedy
  /\ xpc = "new" => xin = NoInput /\ invs = <<>> /\ xnext = 1
  /\ xpc # "new" => xin \in XargsInputs

InTurnOnly ==
  ~Parallel =>
    /\ xpc # "wait" /\ sem = 0 /\ wg = 0
    /\ \A i \in DOMAIN invs : i < xnext => worker[i] = "over" /\ i \notin failed
    /\ \A i \in DOMAIN invs : i > xnext => worker[i] = "none"
    /\ xnext \in DOMAIN invs =>
         \/ worker[xnext] \in {"none", "running", "ended"} /\ xpc = "loop"
         \/ worker[xnext] = "over" /\ xpc = "done"

WithinProcs ==
  Parallel =>
    /\ \A i \in DOMAIN invs : worker[i] = "none" <=> i >= xnext
    /\ sem = Cardinality(WithToken) /\ sem <= Procs /\ wg = Cardinality(Unfinished)
    /\ xpc \in {"wait", "done"} => xnext = Len(invs) + 1
    /\ xpc = "done" => Unfinished = {}

FirstFailure(k) ==
  printed[k] = firstErr /\ firstErr \in failed /\ \A j \in 1 .. k - 1 : printed[j] \notin failed
Reports ==
  /\ IsInjective(printed) /\ ToSet(printed) = Reported
  /\ \A i \in failed : worker[i] \in {"ended", "flushed", "released", "over"}
  /\ IF failed \cap Reported = {} THEN firstErr = 0
     ELSE \E k \in DOMAIN printed : FirstFailure(k)

XargsIInv == XargsTypeOK /\ SplitOnce /\ InTurnOnly /\ WithinProcs /\ Reports

WorkerStates == {"none", "spawned", "running", "ended", "flushed", "released", "over"}
Limit == IF xin.opts.maxProcs > 0 THEN xin.opts.maxProcs ELSE IF NumCPU < 1 THEN 1 ELSE NumCPU

LEMMA WorkerCounts ==
  ASSUME XargsTypeOK, invs \in Seq(Seq(Nat))
  PROVE  Procs \in Nat /\ Procs <= Limit /\ Len(invs) \in Nat /\ DOMAIN invs = 1 .. Len(invs)
<1>1. Len(invs) \in Nat /\ DOMAIN invs = 1 .. Len(invs)
  OBVIOUS
<1>2. xin.opts.maxProcs \in Nat
  BY InputAssumption DEF XargsTypeOK, XargsOptions, NoInput
<1> QED BY <1>1, <1>2, CPUAssumption DEF Procs, WorkerCount, AtMost, Limit

(* A step of a worker moves it in or out of these sets, and no other.      *)
LEMMA OneWorkerMoves ==
  ASSUME XargsTypeOK, invs \in Seq(Seq(Nat)), UNCHANGED invs, NEW i \in DOMAIN invs,
         NEW s \in WorkerStates, worker' = [worker EXCEPT ![i] = s]
  PROVE  /\ worker' \in [DOMAIN invs -> WorkerStates]
         /\ worker'[i] = s /\ \A j \in DOMAIN invs : j # i => worker'[j] = worker[j]
         /\ WithToken' = IF s \in {"spawned", "running", "ended", "flushed"}
                         THEN WithToken \cup {i} ELSE WithToken \ {i}
         /\ Unfinished' = IF s \in {"spawned", "running", "ended", "flushed", "released"}
                          THEN Unfinished \cup {i} ELSE Unfinished \ {i}
         /\ Reported' = IF s \in {"flushed", "released", "over"}
                        THEN Reported \cup {i} ELSE Reported \ {i}
         /\ IsFiniteSet(WithToken) /\ IsFiniteSet(Unfinished)
<1>1. worker \in [DOMAIN invs -> WorkerStates]
  BY DEF XargsTypeOK, WorkerStates
<1>2. /\ worker' \in [DOMAIN invs -> WorkerStates]
      /\ worker'[i] = s /\ \A j \in DOMAIN invs : j # i => worker'[j] = worker[j]
  BY <1>1
<1>3. DOMAIN invs' = DOMAIN invs
  OBVIOUS
<1>4. WithToken' = IF s \in {"spawned", "running", "ended", "flushed"}
                   THEN WithToken \cup {i} ELSE WithToken \ {i}
  BY <1>2, <1>3 DEF WithToken
<1>5. Unfinished' = IF s \in {"spawned", "running", "ended", "flushed", "released"}
                    THEN Unfinished \cup {i} ELSE Unfinished \ {i}
  BY <1>2, <1>3 DEF Unfinished
<1>6. Reported' = IF s \in {"flushed", "released", "over"}
                  THEN Reported \cup {i} ELSE Reported \ {i}
  BY <1>2, <1>3 DEF Reported
<1>7. IsFiniteSet(DOMAIN invs)
  BY FS_Interval
<1>8. IsFiniteSet(WithToken) /\ IsFiniteSet(Unfinished)
  BY <1>7, FS_Subset DEF WithToken, Unfinished
<1> QED BY <1>2, <1>4, <1>5, <1>6, <1>8

LEMMA SplitStays ==
  ASSUME XargsTypeOK, SplitOnce, XargsStep
  PROVE  /\ UNCHANGED <<xin, invs>> /\ xpc # "new" /\ xpc' \in {"loop", "wait", "done"}
         /\ SplitOnce' /\ Procs' = Procs /\ Parallel' = Parallel
<1>1. xpc # "new"
  <2> SUFFICES ASSUME xpc = "new" PROVE FALSE
    OBVIOUS
  <2>1. xnext = 1 /\ Len(invs) = 0 /\ DOMAIN worker = {}
    BY DEF SplitOnce, XargsTypeOK
  <2> QED BY <2>1 DEF XargsStep, RunNext, Continue, LoopEnds, Spawn, WaitAll
<1>2. UNCHANGED <<xin, invs>> /\ xpc' \in {"loop", "wait", "done"}
  <2>1. xpc \in {"loop", "wait", "done"}
    BY <1>1 DEF XargsTypeOK
  <2>2. CASE RunNext \/ LoopEnds \/ Spawn \/ WaitAll
    BY <2>1, <2>2 DEF RunNext, LoopEnds, Spawn, WaitAll
  <2>3. CASE Continue
    BY <2>1, <2>3 DEF Continue
  <2>4. CASE \E i \in DOMAIN worker :
               Exec(i) \/ CommandEnds(i) \/ Flush(i) \/ Release(i) \/ WorkerDone(i)
    BY <2>1, <2>4 DEF Exec, CommandEnds, Flush, Release, WorkerDone
  <2> QED BY <2>2, <2>3, <2>4 DEF XargsStep
<1>3. BatchesAreGreedy' = BatchesAreGreedy
  BY <1>2 DEF BatchesAreGreedy
<1>4. SplitOnce'
  BY <1>1, <1>2, <1>3 DEF SplitOnce
<1>5. Procs' = Procs
  BY <1>2 DEF Procs
<1>6. Parallel' = Parallel
  BY <1>5 DEF Parallel
<1> QED BY <1>1, <1>2, <1>4, <1>5, <1>6

LEMMA ReportsStay ==
  ASSUME XargsTypeOK, Reports, UNCHANGED <<printed, firstErr>>, Reported' = Reported,
         failed \subseteq failed', failed' \cap Reported = failed \cap Reported,
         \A i \in failed' : worker'[i] \in {"ended", "flushed", "released", "over"}
  PROVE  Reports'
<1>1. CASE failed \cap Reported = {}
  <2>1. firstErr' = 0 /\ failed' \cap Reported' = {}
    BY <1>1 DEF Reports
  <2> QED BY <2>1 DEF Reports
<1>2. CASE failed \cap Reported # {}
  <2>1. PICK k \in DOMAIN printed : FirstFailure(k)
    BY <1>2 DEF Reports
  <2>2. ASSUME NEW j \in 1 .. k - 1 PROVE printed[j] \notin failed'
    <3>1. j \in DOMAIN printed
      BY <2>1 DEF XargsTypeOK
    <3>2. printed[j] \in Reported /\ printed[j] \notin failed
      BY <2>1, <3>1 DEF Reports, ToSet, FirstFailure
    <3> QED BY <3>2
  <2>3. FirstFailure(k)'
    BY <2>1, <2>2 DEF FirstFailure
  <2>4. \E n \in DOMAIN printed' : FirstFailure(n)'
    BY <2>1, <2>3
  <2>5. failed' \cap Reported' # {}
    BY <1>2
  <2> QED BY <2>4, <2>5 DEF Reports
<1> QED BY <1>1, <1>2

(* What fails is the first to do so just when nothing that failed has been *)
(* reported.                                                               *)
LEMMA NoFailureYet ==
  ASSUME XargsTypeOK, Reports, invs \in Seq(Seq(Nat))
  PROVE  firstErr = 0 <=> failed \cap Reported = {}
<1>1. ASSUME NEW k \in DOMAIN printed, FirstFailure(k) PROVE firstErr # 0
  BY <1>1 DEF FirstFailure, XargsTypeOK
<1> QED BY <1>1 DEF Reports

LEMMA ReportsGrow ==
  ASSUME XargsTypeOK, Reports, invs \in Seq(Seq(Nat)), NEW i \in DOMAIN invs, i \notin Reported,
         printed' = Append(printed, i), Reported' = Reported \cup {i}, UNCHANGED failed,
         firstErr' = IF i \in failed /\ firstErr = 0 THEN i ELSE firstErr,
         \A j \in failed' : worker'[j] \in {"ended", "flushed", "released", "over"}
  PROVE  Reports'
<1> DEFINE n == Len(printed)
<1>1. printed \in Seq(DOMAIN invs)
  BY DEF XargsTypeOK
<1>2. /\ n \in Nat /\ DOMAIN printed = 1 .. n /\ DOMAIN printed' = 1 .. n + 1
      /\ \A k \in 1 .. n : printed'[k] = printed[k]
      /\ printed'[n + 1] = i
  BY <1>1, AppendFacts
<1> HIDE DEF n
<1>3. \A k \in 1 .. n : printed[k] \in Reported
  BY <1>2 DEF Reports, ToSet
<1>4. \A k \in 1 .. n : printed[k] # i
  BY <1>3
<1>5. IsInjective(printed')
  <2>1. \A a, b \in 1 .. n : printed[a] = printed[b] => a = b
    BY <1>2 DEF Reports, IsInjective
  <2>2. ASSUME NEW a \in 1 .. n + 1, NEW b \in 1 .. n + 1, printed'[a] = printed'[b] PROVE a = b
    <3>1. CASE a \in 1 .. n /\ b \in 1 .. n
      BY <1>2, <2>1, <2>2, <3>1
    <3>2. CASE a = n + 1 /\ b \in 1 .. n
      BY <1>2, <1>4, <2>2, <3>2
    <3>3. CASE b = n + 1 /\ a \in 1 .. n
      BY <1>2, <1>4, <2>2, <3>3
    <3> QED BY <1>2, <3>1, <3>2, <3>3
  <2> QED BY <1>2, <2>2 DEF IsInjective
<1>6. ToSet(printed') = Reported'
  <2>1. ToSet(printed) = Reported
    BY DEF Reports
  <2>2. \A x \in Reported : \E k \in 1 .. n : printed[k] = x
    BY <1>2, <2>1 DEF ToSet
  <2>3. ToSet(printed') \subseteq Reported'
    <3>1. \A k \in 1 .. n + 1 : k = n + 1 \/ k \in 1 .. n
      BY <1>2
    <3>2. \A k \in 1 .. n + 1 : printed'[k] \in Reported'
      BY <1>2, <1>3, <3>1
    <3> QED BY <1>2, <3>2 DEF ToSet
  <2>4. Reported' \subseteq ToSet(printed')
    <3>1. \A k \in 1 .. n : k \in 1 .. n + 1
      BY <1>2
    <3>2. n + 1 \in 1 .. n + 1
      BY <1>2
    <3>3. \A x \in Reported' : \E k \in 1 .. n + 1 : printed'[k] = x
      BY <1>2, <2>2, <3>1, <3>2
    <3> QED BY <1>2, <3>3 DEF ToSet
  <2> QED BY <2>3, <2>4
<1>7. IF (failed \cap Reported = {})' THEN firstErr' = 0
      ELSE \E k \in DOMAIN printed' : FirstFailure(k)'
  <2>1. CASE failed \cap Reported # {}
    <3>1. firstErr' = firstErr
      BY <2>1, NoFailureYet
    <3>2. PICK k \in 1 .. n : FirstFailure(k)
      BY <1>2, <2>1 DEF Reports
    <3>3. \A j \in 1 .. k - 1 : j \in 1 .. n
      BY <1>2
    <3>4. FirstFailure(k)'
      BY <1>2, <3>1, <3>2, <3>3 DEF FirstFailure
    <3>5. k \in DOMAIN printed'
      BY <1>2
    <3>6. (failed \cap Reported)' # {}
      BY <2>1
    <3> QED BY <3>4, <3>5, <3>6
  <2>2. CASE failed \cap Reported = {} /\ i \in failed
    <3>1. firstErr' = i
      BY <2>2, NoFailureYet
    <3>2. \A j \in 1 .. (n + 1) - 1 : printed'[j] \notin failed'
      BY <1>2, <1>3, <2>2
    <3> PICK k \in Nat : k = n + 1
      BY <1>2
    <3>3. FirstFailure(k)'
      BY <1>2, <2>2, <3>1, <3>2 DEF FirstFailure
    <3>4. k \in DOMAIN printed'
      BY <1>2
    <3>5. (failed \cap Reported)' # {}
      BY <2>2
    <3> QED BY <3>3, <3>4, <3>5
  <2>3. CASE failed \cap Reported = {} /\ i \notin failed
    <3>1. firstErr' = 0
      BY <2>3, NoFailureYet
    <3>2. (failed \cap Reported)' = {}
      BY <2>3
    <3> QED BY <3>1, <3>2
  <2> QED BY <2>1, <2>2, <2>3
<1> QED BY <1>5, <1>6, <1>7 DEF Reports

LEMMA XargsBegins == XargsInit => XargsIInv
<1> SUFFICES ASSUME XargsInit PROVE XargsIInv
  OBVIOUS
<1> USE DEF XargsInit
<1>1. /\ xin = NoInput /\ invs = <<>> /\ worker = <<>> /\ printed = <<>> /\ Len(invs) = 0
      /\ DOMAIN invs = {} /\ DOMAIN printed = {} /\ xnext = 1
  OBVIOUS
<1>2. XargsTypeOK
  <2>1. worker \in [DOMAIN invs ->
          {"none", "spawned", "running", "ended", "flushed", "released", "over"}]
    BY <1>1
  <2> QED BY <1>1, <2>1 DEF XargsTypeOK
<1>3. SplitOnce
  BY <1>1 DEF SplitOnce, BatchesAreGreedy, NoInput
<1>4. ~Parallel
  BY <1>1 DEF Parallel, Procs, WorkerCount, AtMost, NoInput
<1>5. InTurnOnly /\ WithinProcs
  BY <1>1, <1>4 DEF InTurnOnly, WithinProcs
<1>6. Reports
  <2>1. Reported = {} /\ ToSet(printed) = {} /\ IsInjective(printed)
    BY <1>1 DEF Reported, ToSet, IsInjective
  <2> QED BY <2>1 DEF Reports
<1> QED BY <1>2, <1>3, <1>5, <1>6 DEF XargsIInv

LEMMA XargsStarts == XargsIInv /\ XargsStart => XargsIInv'
<1> SUFFICES ASSUME XargsIInv, XargsStart PROVE XargsIInv'
  OBVIOUS
<1>1. /\ xpc = "new" /\ xin = NoInput /\ invs = <<>> /\ xnext = 1 /\ DOMAIN invs = {}
      /\ Len(invs) = 0
  BY DEF XargsIInv, SplitOnce, XargsStart
<1>2. failed = {} /\ firstErr = 0 /\ DOMAIN printed = {} /\ printed = <<>>
  <2>1. printed \in Seq({}) /\ failed \subseteq {} /\ firstErr \in 0 .. 0
    BY <1>1 DEF XargsIInv, XargsTypeOK
  <2> QED BY <2>1
<1>3. sem = 0 /\ wg = 0
  <2>1. ~Parallel
    BY <1>1 DEF Parallel, Procs, WorkerCount, AtMost, NoInput
  <2> QED BY <2>1 DEF XargsIInv, InTurnOnly
<1>4. /\ xpc' = "loop" /\ xin' \in XargsInputs /\ invs' = Invocations(xin')
      /\ UNCHANGED <<xnext, failed, sem, wg, printed, firstErr>>
  BY DEF XargsStart
<1>5. invs' \in Seq(Seq(Nat)) /\ BatchesAreGreedy'
  <2>1. invs' \in Seq(Seq(Indices(xin')))
    BY <1>4, InvocationsFacts
  <2>2. Indices(xin') \subseteq Nat
    BY DEF Indices
  <2>3. Seq(Indices(xin')) \subseteq Seq(Nat)
    BY <2>2
  <2> DEFINE A == Seq(Indices(xin'))
             B == Seq(Nat)
  <2>4. A \subseteq B /\ invs' \in Seq(A)
    BY <2>1, <2>3
  <2> HIDE DEF A, B
  <2>5. invs' \in Seq(B)
    BY <2>4
  <2>6. xin'.items # <<>> /\ ~xin'.opts.replace => Greedy(xin', Invocations(xin'), Len(xin'.items))
    BY <1>4, InvocationsFacts
  <2> QED BY <1>4, <2>5, <2>6 DEF B, BatchesAreGreedy
<1>6. SplitOnce'
  BY <1>4, <1>5 DEF SplitOnce
<1>7. /\ worker' \in [DOMAIN invs' -> {"none"}] /\ \A i \in DOMAIN invs' : worker'[i] = "none"
      /\ Len(invs') \in Nat /\ DOMAIN invs' = 1 .. Len(invs')
  BY <1>5 DEF XargsStart
<1>8. XargsTypeOK'
  <2>1. worker' \in [DOMAIN invs' ->
          {"none", "spawned", "running", "ended", "flushed", "released", "over"}]
    BY <1>7
  <2>2. printed' \in Seq(DOMAIN invs') /\ firstErr' \in 0 .. Len(invs')
    BY <1>2, <1>4, <1>7
  <2>3. xnext' \in 1 .. Len(invs') + 1
    BY <1>1, <1>4, <1>7
  <2> QED BY <1>2, <1>3, <1>4, <2>1, <2>2, <2>3 DEF XargsTypeOK
<1>9. Procs' \in Nat
  <2>1. xin'.opts.maxProcs \in Nat
    BY <1>4, InputAssumption DEF XargsOptions
  <2> QED BY <1>7, <2>1, CPUAssumption DEF Procs, WorkerCount, AtMost
<1>10. WithToken' = {} /\ Unfinished' = {} /\ Reported' = {}
  BY <1>7 DEF WithToken, Unfinished, Reported
<1>11. InTurnOnly'
  <2>1. xnext' = 1
    BY <1>1, <1>4
  <2> QED BY <1>3, <1>4, <1>7, <2>1 DEF InTurnOnly
<1>12. WithinProcs'
  <2>1. \A i \in DOMAIN invs' : i >= xnext'
    BY <1>1, <1>4, <1>7
  <2>2. Cardinality({}) = 0
    BY FS_EmptySet
  <2> QED BY <1>3, <1>4, <1>7, <1>9, <1>10, <2>1, <2>2 DEF WithinProcs
<1>13. Reports'
  <2>1. ToSet(printed') = {} /\ IsInjective(printed')
    BY <1>2, <1>4 DEF ToSet, IsInjective
  <2> QED BY <1>2, <1>4, <1>10, <2>1 DEF Reports
<1> QED BY <1>6, <1>8, <1>11, <1>12, <1>13 DEF XargsIInv

LEMMA TheLoop ==
  ASSUME XargsIInv
  PROVE  /\ xnext \in 1 .. Len(invs) + 1 /\ Len(invs) \in Nat /\ DOMAIN invs = 1 .. Len(invs)
         /\ xnext <= Len(invs) <=> xnext \in DOMAIN invs
<1>1. invs \in Seq(Seq(Nat)) /\ xnext \in 1 .. Len(invs) + 1
  BY DEF XargsIInv, SplitOnce, XargsTypeOK
<1>2. Len(invs) \in Nat /\ DOMAIN invs = 1 .. Len(invs)
  BY <1>1
<1> QED BY <1>1, <1>2

(* One command at a time.                                                  *)
LEMMA RunNextKeeps == XargsIInv /\ RunNext => XargsIInv'
<1> SUFFICES ASSUME XargsIInv, RunNext PROVE XargsIInv'
  OBVIOUS
<1>1. /\ xpc = "loop" /\ ~Parallel /\ xnext \in DOMAIN invs /\ worker[xnext] = "none"
      /\ worker' = [worker EXCEPT ![xnext] = "running"]
      /\ UNCHANGED <<xpc, xin, invs, xnext, failed, sem, wg, printed, firstErr>>
  BY TheLoop DEF RunNext
<1>2. SplitOnce' /\ Parallel' = Parallel
  BY SplitStays DEF XargsIInv, XargsStep
<1>3. invs \in Seq(Seq(Nat)) /\ XargsTypeOK /\ Reports /\ InTurnOnly
  BY DEF XargsIInv, SplitOnce
<1>4. "running" \in WorkerStates
  BY DEF WorkerStates
<1>5. /\ worker' \in [DOMAIN invs -> WorkerStates] /\ worker'[xnext] = "running"
      /\ \A j \in DOMAIN invs : j # xnext => worker'[j] = worker[j]
      /\ Reported' = Reported \ {xnext}
  BY <1>1, <1>3, <1>4, OneWorkerMoves
<1>6. XargsTypeOK'
  BY <1>1, <1>3, <1>5 DEF XargsTypeOK, WorkerStates
<1>7. InTurnOnly' /\ WithinProcs'
  <2>1. InTurnOnly'
    BY <1>1, <1>3, <1>5 DEF InTurnOnly
  <2>2. ~Parallel'
    BY <1>1, <1>2
  <2> QED BY <2>1, <2>2 DEF WithinProcs
<1>8. Reports'
  <2>1. Reported' = Reported
    BY <1>1, <1>5 DEF Reported
  <2>2. \A j \in failed : j # xnext /\ j \in DOMAIN invs
    BY <1>1, <1>3 DEF Reports, XargsTypeOK
  <2>3. \A j \in failed' : worker'[j] \in {"ended", "flushed", "released", "over"}
    BY <1>1, <1>3, <1>5, <2>2 DEF Reports
  <2> QED BY <1>1, <1>3, <2>1, <2>3, ReportsStay
<1> QED BY <1>2, <1>6, <1>7, <1>8 DEF XargsIInv

LEMMA ContinueKeeps == XargsIInv /\ Continue => XargsIInv'
<1> SUFFICES ASSUME XargsIInv, Continue PROVE XargsIInv'
  OBVIOUS
<1>1. /\ xpc = "loop" /\ ~Parallel /\ xnext \in DOMAIN invs /\ worker[xnext] = "ended"
      /\ worker' = [worker EXCEPT ![xnext] = "over"]
      /\ UNCHANGED <<xin, invs, failed, sem, wg>>
  BY TheLoop DEF Continue
<1>2. SplitOnce' /\ Parallel' = Parallel
  BY SplitStays DEF XargsIInv, XargsStep
<1>3. invs \in Seq(Seq(Nat)) /\ XargsTypeOK /\ Reports /\ InTurnOnly
  BY DEF XargsIInv, SplitOnce
<1>4. "over" \in WorkerStates
  BY DEF WorkerStates
<1>5. /\ worker' \in [DOMAIN invs -> WorkerStates] /\ worker'[xnext] = "over"
      /\ \A j \in DOMAIN invs : j # xnext => worker'[j] = worker[j]
      /\ Reported' = Reported \cup {xnext}
  BY <1>1, <1>3, <1>4, OneWorkerMoves
<1>6. /\ printed' = Append(printed, xnext) /\ xnext \notin Reported
      /\ failed \subseteq DOMAIN invs /\ Len(invs) \in Nat /\ DOMAIN invs = 1 .. Len(invs)
      /\ sem \in Nat /\ wg \in Nat
  BY <1>1, <1>3 DEF Continue, Reported, XargsTypeOK
<1>7. ASSUME xnext \in failed PROVE XargsTypeOK' /\ InTurnOnly'
  <2>1. xpc' = "done" /\ firstErr' = xnext /\ xnext' = xnext
    BY <1>7 DEF Continue
  <2>2. InTurnOnly'
    BY <1>1, <1>3, <1>5, <2>1 DEF InTurnOnly
  <2>3. XargsTypeOK'
    <3>1. printed' \in Seq(DOMAIN invs')
      BY <1>1, <1>3, <1>6 DEF XargsTypeOK
    <3> QED BY <1>1, <1>3, <1>5, <1>6, <2>1, <3>1 DEF XargsTypeOK, WorkerStates
  <2> QED BY <2>1, <2>2, <2>3
<1>8. ASSUME xnext \notin failed PROVE XargsTypeOK' /\ InTurnOnly'
  <2>1. xnext' = xnext + 1 /\ xpc' = "loop" /\ firstErr' = firstErr
    BY <1>1, <1>8 DEF Continue
  <2>2. InTurnOnly'
    <3>1. \A i \in DOMAIN invs : i < xnext => worker[i] = "over" /\ i \notin failed
      BY <1>1, <1>3 DEF InTurnOnly
    <3>2. \A i \in DOMAIN invs : i > xnext => worker[i] = "none"
      BY <1>1, <1>3 DEF InTurnOnly
    <3>3. ASSUME NEW i \in DOMAIN invs, i < xnext + 1
          PROVE  worker'[i] = "over" /\ i \notin failed
      <4>1. i < xnext \/ i = xnext
        BY <1>1, <1>6, <3>3
      <4>2. i < xnext => i # xnext
        BY <1>1, <1>6
      <4> QED BY <1>5, <1>8, <3>1, <4>1, <4>2
    <3>4. ASSUME NEW i \in DOMAIN invs, i >= xnext + 1 PROVE worker'[i] = "none"
      <4>1. i > xnext /\ i # xnext
        BY <1>1, <1>6, <3>4
      <4> QED BY <1>5, <3>2, <4>1
    <3>5. sem = 0 /\ wg = 0
      BY <1>1, <1>3 DEF InTurnOnly
    <3>6. xnext + 1 >= xnext + 1 /\ \A i \in DOMAIN invs : i > xnext + 1 => i >= xnext + 1
      BY <1>1, <1>6
    <3> QED BY <1>1, <2>1, <3>3, <3>4, <3>5, <3>6 DEF InTurnOnly
  <2>3. XargsTypeOK'
    <3>1. printed' \in Seq(DOMAIN invs')
      BY <1>1, <1>3, <1>6 DEF XargsTypeOK
    <3>2. xnext' \in 1 .. Len(invs') + 1
      BY <1>1, <1>6, <2>1
    <3> QED BY <1>1, <1>3, <1>5, <1>6, <2>1, <3>1, <3>2 DEF XargsTypeOK, WorkerStates
  <2> QED BY <2>1, <2>2, <2>3
<1>9. Reports'
  <2>1. failed \cap Reported = {} /\ firstErr = 0
    <3>1. \A j \in Reported : j \in DOMAIN invs /\ j < xnext
      <4>1. ASSUME NEW j \in Reported PROVE j \in DOMAIN invs /\ worker[j] # "none" /\ j # xnext
        BY <1>1, <1>6 DEF Reported
      <4>2. \A j \in DOMAIN invs : j > xnext => worker[j] = "none"
        BY <1>1, <1>3 DEF InTurnOnly
      <4> QED BY <1>1, <1>6, <4>1, <4>2
    <3>2. \A j \in DOMAIN invs : j < xnext => j \notin failed
      BY <1>1, <1>3 DEF InTurnOnly
    <3>3. failed \cap Reported = {}
      BY <3>1, <3>2
    <3> QED BY <1>3, <3>3, NoFailureYet
  <2>2. firstErr' = IF xnext \in failed /\ firstErr = 0 THEN xnext ELSE firstErr
    BY <2>1 DEF Continue
  <2>3. \A j \in failed' : worker'[j] \in {"ended", "flushed", "released", "over"}
    BY <1>1, <1>3, <1>5, <1>6 DEF Reports
  <2> QED BY <1>1, <1>3, <1>5, <1>6, <2>2, <2>3, ReportsGrow
<1>10. WithinProcs'
  BY <1>1, <1>2 DEF WithinProcs
<1> QED BY <1>2, <1>7, <1>8, <1>9, <1>10 DEF XargsIInv

(* With -P.                                                                *)
LEMMA SpawnKeeps == XargsIInv /\ Spawn => XargsIInv'
<1> SUFFICES ASSUME XargsIInv, Spawn PROVE XargsIInv'
  OBVIOUS
<1>1. /\ xpc = "loop" /\ Parallel /\ xnext \in DOMAIN invs /\ sem < Procs
      /\ worker' = [worker EXCEPT ![xnext] = "spawned"]
      /\ wg' = wg + 1 /\ sem' = sem + 1 /\ xnext' = xnext + 1
      /\ UNCHANGED <<xpc, xin, invs, failed, printed, firstErr>>
  BY TheLoop DEF Spawn
<1>2. SplitOnce' /\ Parallel' = Parallel /\ Procs' = Procs
  BY SplitStays DEF XargsIInv, XargsStep
<1>3. invs \in Seq(Seq(Nat)) /\ XargsTypeOK /\ Reports /\ WithinProcs
  BY DEF XargsIInv, SplitOnce
<1>4. "spawned" \in WorkerStates
  BY DEF WorkerStates
<1>5. /\ worker' \in [DOMAIN invs -> WorkerStates] /\ worker'[xnext] = "spawned"
      /\ \A j \in DOMAIN invs : j # xnext => worker'[j] = worker[j]
      /\ WithToken' = WithToken \cup {xnext} /\ Unfinished' = Unfinished \cup {xnext}
      /\ Reported' = Reported \ {xnext} /\ IsFiniteSet(WithToken) /\ IsFiniteSet(Unfinished)
  BY <1>1, <1>3, <1>4, OneWorkerMoves
<1>6. /\ Len(invs) \in Nat /\ DOMAIN invs = 1 .. Len(invs) /\ Procs \in Nat
      /\ sem \in Nat /\ wg \in Nat /\ failed \subseteq DOMAIN invs
  BY <1>3, WorkerCounts DEF XargsTypeOK
<1>7. worker[xnext] = "none"
  BY <1>1, <1>3, <1>6 DEF WithinProcs
<1>8. XargsTypeOK'
  <2>1. xnext' \in 1 .. Len(invs') + 1 /\ sem' \in Nat /\ wg' \in Nat
    BY <1>1, <1>6
  <2> QED BY <1>1, <1>3, <1>5, <2>1 DEF XargsTypeOK, WorkerStates
<1>9. WithinProcs'
  <2>1. \A i \in DOMAIN invs : worker'[i] = "none" <=> i >= xnext + 1
    <3>1. \A i \in DOMAIN invs : worker[i] = "none" <=> i >= xnext
      BY <1>1, <1>3 DEF WithinProcs
    <3>2. \A i \in DOMAIN invs : i >= xnext + 1 <=> i >= xnext /\ i # xnext
      BY <1>1, <1>6
    <3> QED BY <1>5, <3>1, <3>2
  <2>2. xnext \notin WithToken /\ xnext \notin Unfinished
    BY <1>7 DEF WithToken, Unfinished
  <2>3. /\ Cardinality(WithToken') = Cardinality(WithToken) + 1
        /\ Cardinality(Unfinished') = Cardinality(Unfinished) + 1
    BY <1>5, <2>2, FS_AddElement
  <2>4. sem' = Cardinality(WithToken') /\ wg' = Cardinality(Unfinished')
    BY <1>1, <1>3, <2>3 DEF WithinProcs
  <2>5. sem' <= Procs'
    BY <1>1, <1>2, <1>6
  <2>6. xpc' = "loop"
    BY <1>1
  <2> QED BY <1>1, <2>1, <2>4, <2>5, <2>6 DEF WithinProcs
<1>10. InTurnOnly'
  BY <1>1, <1>2 DEF InTurnOnly
<1>11. Reports'
  <2>1. Reported' = Reported
    BY <1>5, <1>7 DEF Reported
  <2>2. \A j \in failed : j # xnext
    BY <1>3, <1>7 DEF Reports
  <2>3. \A j \in failed' : worker'[j] \in {"ended", "flushed", "released", "over"}
    BY <1>1, <1>3, <1>5, <1>6, <2>2 DEF Reports
  <2> QED BY <1>1, <1>3, <2>1, <2>3, ReportsStay
<1> QED BY <1>2, <1>8, <1>9, <1>10, <1>11 DEF XargsIInv

LEMMA LoopEndsKeeps == XargsIInv /\ (LoopEnds \/ WaitAll) => XargsIInv'
<1> SUFFICES ASSUME XargsIInv, LoopEnds \/ WaitAll PROVE XargsIInv'
  OBVIOUS
<1>1. UNCHANGED <<xin, invs, xnext, worker, failed, sem, wg, printed, firstErr>>
  BY DEF LoopEnds, WaitAll
<1>2. SplitOnce' /\ Parallel' = Parallel /\ Procs' = Procs /\ xpc' \in {"loop", "wait", "done"}
  BY SplitStays DEF XargsIInv, XargsStep
<1>3. /\ WithToken' = WithToken /\ Unfinished' = Unfinished /\ Reported' = Reported
  BY <1>1 DEF WithToken, Unfinished, Reported
<1>4. XargsTypeOK'
  BY <1>1, <1>2 DEF XargsIInv, XargsTypeOK
<1>5. Reports'
  BY <1>1, <1>3, ReportsStay DEF XargsIInv, Reports
<1>6. xnext \in 1 .. Len(invs) + 1 /\ Len(invs) \in Nat /\ DOMAIN invs = 1 .. Len(invs)
  BY TheLoop
<1>7. ASSUME LoopEnds PROVE InTurnOnly' /\ WithinProcs'
  <2>1. xnext = Len(invs) + 1 /\ xnext \notin DOMAIN invs
    BY <1>6, <1>7 DEF LoopEnds
  <2>2. xpc' = IF Parallel THEN "wait" ELSE "done"
    BY <1>7 DEF LoopEnds
  <2>3. InTurnOnly'
    BY <1>1, <1>2, <2>1, <2>2 DEF XargsIInv, InTurnOnly
  <2>4. WithinProcs'
    BY <1>1, <1>2, <1>3, <2>1, <2>2 DEF XargsIInv, WithinProcs
  <2> QED BY <2>3, <2>4
<1>8. ASSUME WaitAll PROVE InTurnOnly' /\ WithinProcs'
  <2>1. xpc = "wait" /\ wg = 0 /\ xpc' = "done"
    BY <1>8 DEF WaitAll
  <2>2. Parallel
    BY <2>1 DEF XargsIInv, InTurnOnly
  <2>3. Cardinality(Unfinished) = 0
    BY <2>1, <2>2 DEF XargsIInv, WithinProcs
  <2>4. IsFiniteSet(Unfinished)
    <3>1. IsFiniteSet(DOMAIN invs)
      BY <1>6, FS_Interval
    <3> QED BY <3>1, FS_Subset DEF Unfinished
  <2>5. Unfinished = {}
    BY <2>3, <2>4, FS_EmptySet
  <2>6. InTurnOnly'
    BY <1>2, <2>2 DEF InTurnOnly
  <2>7. WithinProcs'
    BY <1>1, <1>2, <1>3, <2>1, <2>2, <2>5 DEF XargsIInv, WithinProcs
  <2> QED BY <2>6, <2>7
<1> QED BY <1>2, <1>4, <1>5, <1>7, <1>8 DEF XargsIInv

(* A goroutine's steps.  When commands run in turn only the one at xnext   *)
(* is anywhere but before its start or after its end.                      *)
LEMMA OnlyAtTurn ==
  ASSUME XargsIInv, NEW i \in DOMAIN invs, worker[i] \notin {"none", "over"}
  PROVE  /\ ~Parallel => i = xnext /\ xpc = "loop" /\ worker[i] \in {"running", "ended"}
         /\ Parallel => i < xnext
<1>1. xnext \in 1 .. Len(invs) + 1 /\ Len(invs) \in Nat /\ DOMAIN invs = 1 .. Len(invs)
  BY TheLoop
<1>2. ASSUME ~Parallel PROVE i = xnext /\ xpc = "loop" /\ worker[i] \in {"running", "ended"}
  <2>1. ~(i < xnext) /\ ~(i > xnext)
    BY <1>2 DEF XargsIInv, InTurnOnly
  <2>2. i = xnext
    BY <1>1, <2>1
  <2> QED BY <1>2, <2>2 DEF XargsIInv, InTurnOnly
<1>3. ASSUME Parallel PROVE i < xnext
  <2>1. ~(i >= xnext)
    BY <1>3 DEF XargsIInv, WithinProcs
  <2> QED BY <1>1, <2>1
<1> QED BY <1>2, <1>3

(* What all of these steps have in common.                                 *)
LEMMA WorkerStep ==
  ASSUME XargsIInv, NEW i \in DOMAIN invs, NEW s \in WorkerStates, s # "none",
         worker[i] \notin {"none", "over"}, worker' = [worker EXCEPT ![i] = s],
         UNCHANGED <<xpc, xin, invs, xnext>>,
         failed' \in SUBSET DOMAIN invs, sem' \in Nat, wg' \in Nat,
         printed' \in Seq(DOMAIN invs), firstErr' \in 0 .. Len(invs),
         Parallel' = Parallel, Procs' = Procs, SplitOnce',
         Parallel => /\ sem' = Cardinality(WithToken') /\ sem' <= Procs
                     /\ wg' = Cardinality(Unfinished') /\ i \in Unfinished,
         ~Parallel => s \in {"running", "ended"} /\ failed' \subseteq failed \cup {i}
                      /\ sem' = sem /\ wg' = wg,
         Reports'
  PROVE  XargsIInv'
<1>1. /\ xnext \in 1 .. Len(invs) + 1 /\ Len(invs) \in Nat /\ DOMAIN invs = 1 .. Len(invs)
      /\ XargsTypeOK /\ invs \in Seq(Seq(Nat))
  BY TheLoop DEF XargsIInv, SplitOnce
<1>2. /\ worker' \in [DOMAIN invs -> WorkerStates]
      /\ worker'[i] = s /\ \A j \in DOMAIN invs : j # i => worker'[j] = worker[j]
  BY <1>1, OneWorkerMoves
<1>3. XargsTypeOK'
  BY <1>1, <1>2 DEF XargsTypeOK, WorkerStates
<1>4. InTurnOnly'
  <2>1. CASE Parallel
    BY <2>1 DEF InTurnOnly
  <2>2. CASE ~Parallel
    <3>1. i = xnext /\ xpc = "loop"
      BY <2>2, OnlyAtTurn
    <3>2. \A j \in DOMAIN invs : j < xnext => worker'[j] = "over" /\ j \notin failed'
      <4>1. \A j \in DOMAIN invs : j < xnext => worker[j] = "over" /\ j \notin failed
        BY <2>2 DEF XargsIInv, InTurnOnly
      <4>2. \A j \in DOMAIN invs : j < xnext => j # i
        BY <1>1, <3>1
      <4> QED BY <1>2, <2>2, <4>1, <4>2
    <3>3. \A j \in DOMAIN invs : j > xnext => worker'[j] = "none"
      <4>1. \A j \in DOMAIN invs : j > xnext => worker[j] = "none"
        BY <2>2 DEF XargsIInv, InTurnOnly
      <4>2. \A j \in DOMAIN invs : j > xnext => j # i
        BY <1>1, <3>1
      <4> QED BY <1>2, <4>1, <4>2
    <3>4. sem' = 0 /\ wg' = 0
      BY <2>2 DEF XargsIInv, InTurnOnly
    <3> QED BY <1>2, <2>2, <3>1, <3>2, <3>3, <3>4 DEF InTurnOnly
  <2> QED BY <2>1, <2>2
<1>5. WithinProcs'
  <2>1. CASE ~Parallel
    BY <2>1 DEF WithinProcs
  <2>2. CASE Parallel
    <3>1. \A j \in DOMAIN invs : worker'[j] = "none" <=> j >= xnext
      <4>1. \A j \in DOMAIN invs : worker[j] = "none" <=> j >= xnext
        BY <2>2 DEF XargsIInv, WithinProcs
      <4> QED BY <1>2, <4>1
    <3>2. xpc # "done" /\ (xpc = "wait" => xnext = Len(invs) + 1)
      BY <2>2 DEF XargsIInv, WithinProcs
    <3> QED BY <2>2, <3>1, <3>2 DEF WithinProcs
  <2> QED BY <2>1, <2>2
<1> QED BY <1>3, <1>4, <1>5 DEF XargsIInv

LEMMA ExecKeeps == ASSUME XargsIInv, NEW i \in DOMAIN worker, Exec(i) PROVE XargsIInv'
<1>1. /\ i \in DOMAIN invs /\ worker[i] = "spawned" /\ worker' = [worker EXCEPT ![i] = "running"]
      /\ UNCHANGED <<xpc, xin, invs, xnext, failed, sem, wg, printed, firstErr>>
  BY DEF Exec, XargsIInv, XargsTypeOK
<1>2. SplitOnce' /\ Parallel' = Parallel /\ Procs' = Procs
  BY SplitStays DEF XargsIInv, XargsStep
<1>3. invs \in Seq(Seq(Nat)) /\ XargsTypeOK /\ Reports
  BY DEF XargsIInv, SplitOnce
<1>4. "running" \in WorkerStates
  BY DEF WorkerStates
<1>5. /\ worker'[i] = "running" /\ \A j \in DOMAIN invs : j # i => worker'[j] = worker[j]
      /\ WithToken' = WithToken \cup {i} /\ Unfinished' = Unfinished \cup {i}
      /\ Reported' = Reported \ {i}
  BY <1>1, <1>3, <1>4, OneWorkerMoves
<1>6. i \in WithToken /\ i \in Unfinished /\ i \notin Reported
  BY <1>1 DEF WithToken, Unfinished, Reported
<1>7. WithToken' = WithToken /\ Unfinished' = Unfinished /\ Reported' = Reported
  BY <1>5, <1>6
<1>8. Parallel
  BY <1>1, OnlyAtTurn
<1>9. Reports'
  <2>1. \A j \in failed : j # i /\ j \in DOMAIN invs
    BY <1>1, <1>3 DEF Reports, XargsTypeOK
  <2>2. \A j \in failed' : worker'[j] \in {"ended", "flushed", "released", "over"}
    BY <1>1, <1>3, <1>5, <2>1 DEF Reports
  <2> QED BY <1>1, <1>3, <1>7, <2>2, ReportsStay
<1>10. sem = Cardinality(WithToken) /\ sem <= Procs /\ wg = Cardinality(Unfinished)
  BY <1>8 DEF XargsIInv, WithinProcs
<1>11. /\ failed \in SUBSET DOMAIN invs /\ sem \in Nat /\ wg \in Nat
       /\ printed \in Seq(DOMAIN invs) /\ firstErr \in 0 .. Len(invs)
  BY <1>3 DEF XargsTypeOK
<1> QED BY <1>1, <1>2, <1>4, <1>6, <1>7, <1>8, <1>9, <1>10, <1>11, WorkerStep

LEMMA CommandEndsKeeps == ASSUME XargsIInv, NEW i \in DOMAIN worker, CommandEnds(i) PROVE XargsIInv'
<1>1. /\ i \in DOMAIN invs /\ worker[i] = "running" /\ worker' = [worker EXCEPT ![i] = "ended"]
      /\ UNCHANGED <<xpc, xin, invs, xnext, sem, wg, printed, firstErr>>
      /\ failed \subseteq failed' /\ failed' \subseteq failed \cup {i}
  BY DEF CommandEnds, XargsIInv, XargsTypeOK
<1>2. SplitOnce' /\ Parallel' = Parallel /\ Procs' = Procs
  BY SplitStays DEF XargsIInv, XargsStep
<1>3. invs \in Seq(Seq(Nat)) /\ XargsTypeOK /\ Reports
  BY DEF XargsIInv, SplitOnce
<1>4. "ended" \in WorkerStates
  BY DEF WorkerStates
<1>5. /\ worker'[i] = "ended" /\ \A j \in DOMAIN invs : j # i => worker'[j] = worker[j]
      /\ WithToken' = WithToken \cup {i} /\ Unfinished' = Unfinished \cup {i}
      /\ Reported' = Reported \ {i}
  BY <1>1, <1>3, <1>4, OneWorkerMoves
<1>6. i \in WithToken /\ i \in Unfinished /\ i \notin Reported
  BY <1>1 DEF WithToken, Unfinished, Reported
<1>7. WithToken' = WithToken /\ Unfinished' = Unfinished /\ Reported' = Reported
  BY <1>5, <1>6
<1>8. Reports'
  <2>1. \A j \in failed : j \in DOMAIN invs /\ worker[j] \in {"ended", "flushed", "released", "over"}
    BY <1>3 DEF Reports, XargsTypeOK
  <2>2. \A j \in failed' : worker'[j] \in {"ended", "flushed", "released", "over"}
    BY <1>1, <1>5, <2>1
  <2>3. failed' \cap Reported = failed \cap Reported
    BY <1>1, <1>6
  <2> QED BY <1>1, <1>3, <1>7, <2>2, <2>3, ReportsStay
<1>9. Parallel => sem = Cardinality(WithToken) /\ sem <= Procs /\ wg = Cardinality(Unfinished)
  BY DEF XargsIInv, WithinProcs
<1>10. /\ failed' \in SUBSET DOMAIN invs /\ sem \in Nat /\ wg \in Nat
       /\ printed \in Seq(DOMAIN invs) /\ firstErr \in 0 .. Len(invs)
  BY <1>1, <1>3 DEF XargsTypeOK
<1> QED BY <1>1, <1>2, <1>4, <1>6, <1>7, <1>8, <1>9, <1>10, WorkerStep

LEMMA FlushKeeps == ASSUME XargsIInv, NEW i \in DOMAIN worker, Flush(i) PROVE XargsIInv'
<1>1. /\ i \in DOMAIN invs /\ Parallel /\ worker[i] = "ended"
      /\ worker' = [worker EXCEPT ![i] = "flushed"] /\ printed' = Append(printed, i)
      /\ firstErr' = IF i \in failed /\ firstErr = 0 THEN i ELSE firstErr
      /\ UNCHANGED <<xpc, xin, invs, xnext, failed, sem, wg>>
  BY DEF Flush, XargsIInv, XargsTypeOK
<1>2. SplitOnce' /\ Parallel' = Parallel /\ Procs' = Procs
  BY SplitStays DEF XargsIInv, XargsStep
<1>3. /\ invs \in Seq(Seq(Nat)) /\ XargsTypeOK /\ Reports
      /\ Len(invs) \in Nat /\ DOMAIN invs = 1 .. Len(invs)
  BY TheLoop DEF XargsIInv, SplitOnce
<1>4. "flushed" \in WorkerStates
  BY DEF WorkerStates
<1>5. /\ worker'[i] = "flushed" /\ \A j \in DOMAIN invs : j # i => worker'[j] = worker[j]
      /\ WithToken' = WithToken \cup {i} /\ Unfinished' = Unfinished \cup {i}
      /\ Reported' = Reported \cup {i}
  BY <1>1, <1>3, <1>4, OneWorkerMoves
<1>6. i \in WithToken /\ i \in Unfinished /\ i \notin Reported
  BY <1>1 DEF WithToken, Unfinished, Reported
<1>7. WithToken' = WithToken /\ Unfinished' = Unfinished
  BY <1>5, <1>6
<1>8. Reports'
  <2>1. \A j \in failed : j \in DOMAIN invs /\ worker[j] \in {"ended", "flushed", "released", "over"}
    BY <1>3 DEF Reports, XargsTypeOK
  <2>2. \A j \in failed' : worker'[j] \in {"ended", "flushed", "released", "over"}
    BY <1>1, <1>5, <2>1
  <2> QED BY <1>1, <1>3, <1>5, <1>6, <2>2, ReportsGrow
<1>9. sem = Cardinality(WithToken) /\ sem <= Procs /\ wg = Cardinality(Unfinished)
  BY <1>1 DEF XargsIInv, WithinProcs
<1>10. /\ failed' \in SUBSET DOMAIN invs /\ sem \in Nat /\ wg \in Nat
       /\ printed' \in Seq(DOMAIN invs) /\ firstErr' \in 0 .. Len(invs)
  <2>1. failed \in SUBSET DOMAIN invs /\ sem \in Nat /\ wg \in Nat
        /\ printed \in Seq(DOMAIN invs) /\ firstErr \in 0 .. Len(invs)
    BY <1>3 DEF XargsTypeOK
  <2>2. printed' \in Seq(DOMAIN invs)
    BY <1>1, <2>1
  <2> QED BY <1>1, <1>3, <2>1, <2>2
<1> QED BY <1>1, <1>2, <1>4, <1>6, <1>7, <1>8, <1>9, <1>10, WorkerStep

LEMMA ReleaseKeeps == ASSUME XargsIInv, NEW i \in DOMAIN worker, Release(i) PROVE XargsIInv'
<1>1. /\ i \in DOMAIN invs /\ worker[i] = "flushed" /\ sem' = sem - 1
      /\ worker' = [worker EXCEPT ![i] = "released"]
      /\ UNCHANGED <<xpc, xin, invs, xnext, failed, wg, printed, firstErr>>
  BY DEF Release, XargsIInv, XargsTypeOK
<1>2. SplitOnce' /\ Parallel' = Parallel /\ Procs' = Procs
  BY SplitStays DEF XargsIInv, XargsStep
<1>3. /\ invs \in Seq(Seq(Nat)) /\ XargsTypeOK /\ Reports /\ Procs \in Nat
  BY WorkerCounts DEF XargsIInv, SplitOnce
<1>4. "released" \in WorkerStates
  BY DEF WorkerStates
<1>5. /\ worker'[i] = "released" /\ \A j \in DOMAIN invs : j # i => worker'[j] = worker[j]
      /\ WithToken' = WithToken \ {i} /\ Unfinished' = Unfinished \cup {i}
      /\ Reported' = Reported \cup {i} /\ IsFiniteSet(WithToken)
  BY <1>1, <1>3, <1>4, OneWorkerMoves
<1>6. i \in WithToken /\ i \in Unfinished /\ i \in Reported
  BY <1>1 DEF WithToken, Unfinished, Reported
<1>7. Unfinished' = Unfinished /\ Reported' = Reported
  BY <1>5, <1>6
<1>8. Parallel
  BY <1>1, OnlyAtTurn
<1>9. Reports'
  <2>1. \A j \in failed : j \in DOMAIN invs /\ worker[j] \in {"ended", "flushed", "released", "over"}
    BY <1>3 DEF Reports, XargsTypeOK
  <2>2. \A j \in failed' : worker'[j] \in {"ended", "flushed", "released", "over"}
    BY <1>1, <1>5, <2>1
  <2> QED BY <1>1, <1>3, <1>7, <2>2, ReportsStay
<1>10. sem = Cardinality(WithToken) /\ sem <= Procs /\ wg = Cardinality(Unfinished)
  BY <1>8 DEF XargsIInv, WithinProcs
<1>11. Cardinality(WithToken') = Cardinality(WithToken) - 1 /\ Cardinality(WithToken') \in Nat
  BY <1>5, <1>6, FS_RemoveElement, FS_CardinalityType
<1>12. /\ failed' \in SUBSET DOMAIN invs /\ sem \in Nat /\ wg' \in Nat
       /\ printed' \in Seq(DOMAIN invs) /\ firstErr' \in 0 .. Len(invs)
  BY <1>1, <1>3 DEF XargsTypeOK
<1>13. sem' = Cardinality(WithToken') /\ sem' <= Procs /\ wg' = Cardinality(Unfinished')
  BY <1>1, <1>3, <1>7, <1>10, <1>11, <1>12
<1>14. sem' \in Nat
  BY <1>11, <1>13
<1> QED BY <1>1, <1>2, <1>4, <1>6, <1>8, <1>9, <1>12, <1>13, <1>14, WorkerStep

LEMMA WorkerDoneKeeps == ASSUME XargsIInv, NEW i \in DOMAIN worker, WorkerDone(i) PROVE XargsIInv'
<1>1. /\ i \in DOMAIN invs /\ worker[i] = "released" /\ wg' = wg - 1
      /\ worker' = [worker EXCEPT ![i] = "over"]
      /\ UNCHANGED <<xpc, xin, invs, xnext, failed, sem, printed, firstErr>>
  BY DEF WorkerDone, XargsIInv, XargsTypeOK
<1>2. SplitOnce' /\ Parallel' = Parallel /\ Procs' = Procs
  BY SplitStays DEF XargsIInv, XargsStep
<1>3. /\ invs \in Seq(Seq(Nat)) /\ XargsTypeOK /\ Reports
  BY DEF XargsIInv, SplitOnce
<1>4. "over" \in WorkerStates
  BY DEF WorkerStates
<1>5. /\ worker'[i] = "over" /\ \A j \in DOMAIN invs : j # i => worker'[j] = worker[j]
      /\ WithToken' = WithToken \ {i} /\ Unfinished' = Unfinished \ {i}
      /\ Reported' = Reported \cup {i} /\ IsFiniteSet(Unfinished)
  BY <1>1, <1>3, <1>4, OneWorkerMoves
<1>6. i \notin WithToken /\ i \in Unfinished /\ i \in Reported
  BY <1>1 DEF WithToken, Unfinished, Reported
<1>7. WithToken' = WithToken /\ Reported' = Reported
  BY <1>5, <1>6
<1>8. Parallel
  BY <1>1, OnlyAtTurn
<1>9. Reports'
  <2>1. \A j \in failed : j \in DOMAIN invs /\ worker[j] \in {"ended", "flushed", "released", "over"}
    BY <1>3 DEF Reports, XargsTypeOK
  <2>2. \A j \in failed' : worker'[j] \in {"ended", "flushed", "released", "over"}
    BY <1>1, <1>5, <2>1
  <2> QED BY <1>1, <1>3, <1>7, <2>2, ReportsStay
<1>10. sem = Cardinality(WithToken) /\ sem <= Procs /\ wg = Cardinality(Unfinished)
  BY <1>8 DEF XargsIInv, WithinProcs
<1>11. Cardinality(Unfinished') = Cardinality(Unfinished) - 1 /\ Cardinality(Unfinished') \in Nat
  BY <1>5, <1>6, FS_RemoveElement, FS_CardinalityType
<1>12. /\ failed' \in SUBSET DOMAIN invs /\ sem' \in Nat /\ wg \in Nat
       /\ printed' \in Seq(DOMAIN invs) /\ firstErr' \in 0 .. Len(invs)
  BY <1>1, <1>3 DEF XargsTypeOK
<1>13. sem' = Cardinality(WithToken') /\ sem' <= Procs /\ wg' = Cardinality(Unfinished')
  BY <1>1, <1>7, <1>10, <1>11
<1>14. wg' \in Nat
  BY <1>11, <1>13
<1> QED BY <1>1, <1>2, <1>4, <1>6, <1>8, <1>9, <1>12, <1>13, <1>14, WorkerStep

LEMMA XargsStutters == XargsIInv /\ UNCHANGED xvars => XargsIInv'
<1> SUFFICES ASSUME XargsIInv, UNCHANGED xvars PROVE XargsIInv'
  OBVIOUS
<1>1. UNCHANGED <<xpc, xin, invs, xnext, worker, failed, sem, wg, printed, firstErr>>
  BY DEF xvars
<1>2. WithToken' = WithToken /\ Unfinished' = Unfinished /\ Reported' = Reported
  BY <1>1 DEF WithToken, Unfinished, Reported
<1>3. Procs' = Procs
  BY <1>1 DEF Procs
<1>4. XargsTypeOK' /\ SplitOnce'
  BY <1>1 DEF XargsIInv, XargsTypeOK, SplitOnce, BatchesAreGreedy
<1>5. InTurnOnly' /\ WithinProcs'
  BY <1>1, <1>2, <1>3 DEF XargsIInv, InTurnOnly, WithinProcs, Parallel
<1>6. Reports'
  BY <1>1, <1>2, ReportsStay DEF XargsIInv, Reports
<1> QED BY <1>4, <1>5, <1>6 DEF XargsIInv

LEMMA XargsInvariance == XargsSpec => []XargsIInv
<1>1. XargsIInv /\ XargsStep => XargsIInv'
  BY RunNextKeeps, ContinueKeeps, LoopEndsKeeps, SpawnKeeps, ExecKeeps, CommandEndsKeeps,
     FlushKeeps, ReleaseKeeps, WorkerDoneKeeps DEF XargsStep
<1>2. XargsIInv /\ [XargsNext]_xvars => XargsIInv'
  BY <1>1, XargsStarts, XargsStutters DEF XargsNext
<1> QED BY XargsBegins, <1>2, PTL DEF XargsSpec

-----------------------------------------------------------------------------
(* ... so that every item is in one command, the commands under way are    *)
(* within the limit, and each is reported (Xargs.XargsRunsAll).            *)

LEMMA RunningHaveTokens == XargsIInv => ChildrenBounded
<1> SUFFICES ASSUME XargsIInv PROVE ChildrenBounded
  OBVIOUS
<1> DEFINE R == {i \in DOMAIN worker : worker[i] = "running"}
<1>1. /\ Len(invs) \in Nat /\ DOMAIN invs = 1 .. Len(invs) /\ DOMAIN worker = DOMAIN invs
      /\ XargsTypeOK /\ invs \in Seq(Seq(Nat))
  BY TheLoop DEF XargsIInv, XargsTypeOK, SplitOnce
<1>2. Procs \in Nat /\ Procs <= Limit
  BY <1>1, WorkerCounts
<1>3. IsFiniteSet(WithToken)
  <2>1. IsFiniteSet(DOMAIN invs)
    BY <1>1, FS_Interval
  <2> QED BY <2>1, FS_Subset DEF WithToken
<1>4. CASE Parallel
  <2>1. R \subseteq WithToken
    BY <1>1 DEF WithToken
  <2>2. /\ Cardinality(R) <= Cardinality(WithToken)
        /\ Cardinality(R) \in Nat /\ Cardinality(WithToken) \in Nat
    BY <1>3, <2>1, FS_Subset, FS_CardinalityType
  <2>3. Cardinality(WithToken) <= Procs
    BY <1>4 DEF XargsIInv, WithinProcs
  <2>4. Limit \in Nat
    BY <1>1, CPUAssumption, InputAssumption DEF Limit, XargsTypeOK, XargsOptions, NoInput
  <2>5. Cardinality(R) <= Limit
    BY <1>2, <2>2, <2>3, <2>4
  <2> QED BY <2>5 DEF ChildrenBounded, Limit
<1>5. CASE ~Parallel
  <2>1. Limit \in Nat /\ Limit >= 1
    BY <1>1, CPUAssumption, InputAssumption DEF Limit, XargsTypeOK, XargsOptions, NoInput
  <2>2. R \subseteq {xnext}
    BY <1>1, <1>5, OnlyAtTurn
  <2>3. IsFiniteSet({xnext}) /\ Cardinality({xnext}) = 1
    BY FS_Singleton
  <2>4. Cardinality(R) <= 1 /\ Cardinality(R) \in Nat
    BY <2>2, <2>3, FS_Subset, FS_CardinalityType
  <2>5. Cardinality(R) <= Limit
    BY <2>1, <2>4
  <2> QED BY <2>5 DEF ChildrenBounded, Limit
<1> QED BY <1>4, <1>5

LEMMA AllAreReported == XargsIInv => AllReported
<1> SUFFICES ASSUME XargsIInv, xpc = "done" PROVE AllReported
  BY DEF AllReported
<1>1. /\ xnext \in 1 .. Len(invs) + 1 /\ Len(invs) \in Nat /\ DOMAIN invs = 1 .. Len(invs)
      /\ DOMAIN worker = DOMAIN invs /\ Reports /\ XargsTypeOK
      /\ worker \in [DOMAIN invs -> WorkerStates]
  BY TheLoop DEF XargsIInv, XargsTypeOK, WorkerStates
<1>2. \A i \in DOMAIN invs : worker[i] \in {"none", "over"}
  <2>1. CASE ~Parallel
    BY <2>1, OnlyAtTurn
  <2>2. CASE Parallel
    <3>1. Unfinished = {}
      BY <2>2 DEF XargsIInv, WithinProcs
    <3> QED BY <1>1, <3>1 DEF Unfinished, WorkerStates
  <2> QED BY <2>1, <2>2
<1>3. {i \in DOMAIN worker : worker[i] = "over"} = Reported
  BY <1>1, <1>2 DEF Reported
<1>4. Parallel => \A i \in DOMAIN invs : worker[i] = "over"
  <2> SUFFICES ASSUME Parallel, NEW i \in DOMAIN invs PROVE worker[i] = "over"
    OBVIOUS
  <2>1. xnext = Len(invs) + 1 /\ (worker[i] = "none" <=> i >= xnext)
    BY DEF XargsIInv, WithinProcs
  <2>2. ~(i >= xnext)
    BY <1>1, <2>1
  <2> QED BY <1>2, <2>1, <2>2
<1>5. failed \subseteq Reported
  <2>1. \A i \in failed : i \in DOMAIN invs /\ worker[i] # "none"
    BY <1>1 DEF Reports, XargsTypeOK
  <2> QED BY <1>2, <2>1 DEF Reported
<1>6. IF failed = {} THEN firstErr = 0
      ELSE \E k \in DOMAIN printed :
             /\ printed[k] = firstErr /\ firstErr \in failed
             /\ \A j \in 1 .. k - 1 : printed[j] \notin failed
  BY <1>1, <1>5 DEF Reports, FirstFailure
<1> QED BY <1>1, <1>2, <1>3, <1>4, <1>6 DEF AllReported, Reports

(* However many commands run at once, and whichever of them fail, xargs    *)
(* gives every item once and in order, in batches as large as its limits   *)
(* allow, runs no more at once than it may, and its status is the first    *)
(* failure's.                                                              *)
THEOREM XargsRunsEverything == XargsSpec => []XargsRunsAll
<1>1. XargsIInv => XargsRunsAll
  BY RunningHaveTokens, AllAreReported DEF XargsRunsAll, XargsIInv, SplitOnce
<1> QED BY XargsInvariance, <1>1, PTL

-----------------------------------------------------------------------------
(* vi. *)

(* What a line is made of; that a string is in STRING the provers do not   *)
(* find.                                                                   *)
Byte == STRING \cup {"", "lead", "d", "g", "y", "Z"}
ViTexts == Seq(Seq(Byte))
Editor ==
  [lines : ViTexts, cx : Int, cy : Int, mode : {"normal", "insert", "command", "search"},
   pending : Byte, count : Nat, cmd : Seq(Byte),
   pat : Seq(Byte), fwd : BOOLEAN, lastPat : Seq(Byte), lastFwd : BOOLEAN,
   reg : ViTexts, undo : Seq([lines : ViTexts, cx : Int, cy : Int]),
   dirty : BOOLEAN, quit : BOOLEAN, save : BOOLEAN,
   esc : {"none", "esc", "csi", "ss3"}, csi : Seq(Byte)]

(* The cursor is on a byte of a line, or at the start of an empty one.     *)
Placed(e) == e.lines # <<>> /\ e.cy \in 0 .. Len(e.lines) - 1 /\ e.cx \in 0 .. LastCol(Line(e))

(* What every method needs to find, and leaves.                            *)
EditorOK(e) ==
  /\ e \in Editor /\ InBuffer(e.lines, e.cx, e.cy, e.mode = "insert")
  /\ \A i \in DOMAIN e.undo : InBuffer(e.undo[i].lines, e.undo[i].cx, e.undo[i].cy, FALSE)
  /\ e.mode # "command" => e.cmd = <<>>

(* A motion, and a change that is marked.                                  *)
Moved(e, f) ==
  /\ EditorOK(f) /\ f.lines = e.lines /\ f.dirty = e.dirty /\ f.undo = e.undo
  /\ f.quit = e.quit /\ f.mode = e.mode /\ f.pending = e.pending
Edited(e, f) ==
  /\ EditorOK(f) /\ f.undo = e.undo /\ f.quit = e.quit /\ f.pending = e.pending
  /\ f.dirty \/ (f.lines = e.lines /\ ~e.dirty)

LEMMA LineFacts ==
  ASSUME NEW ls \in ViTexts, NEW y \in 0 .. Len(ls) - 1
  PROVE  /\ ls[y + 1] \in Seq(Byte) /\ Len(ls[y + 1]) \in Nat /\ Len(ls) \in Nat \ {0}
         /\ ls # <<>> /\ LastCol(ls[y + 1]) \in Nat /\ LastCol(ls[y + 1]) <= Len(ls[y + 1])
         /\ Len(ls[y + 1]) > 0 => LastCol(ls[y + 1]) = Len(ls[y + 1]) - 1
<1>1. ls[y + 1] \in Seq(Byte) /\ Len(ls) \in Nat \ {0} /\ ls # <<>>
  BY DEF ViTexts
<1>2. Len(ls[y + 1]) \in Nat
  BY <1>1
<1> QED BY <1>1, <1>2 DEF LastCol, Max0

LEMMA EditorFacts ==
  ASSUME NEW e, EditorOK(e)
  PROVE  /\ e \in Editor /\ e.lines \in ViTexts /\ e.lines # <<>> /\ Len(e.lines) \in Nat \ {0}
         /\ e.cy \in 0 .. Len(e.lines) - 1 /\ Line(e) \in Seq(Byte) /\ Len(Line(e)) \in Nat
         /\ e.cx \in 0 .. Len(Line(e)) /\ (e.mode # "insert" => Placed(e))
         /\ LastCol(Line(e)) \in Nat /\ LastCol(Line(e)) <= Len(Line(e))
         /\ Len(Line(e)) > 0 => LastCol(Line(e)) = Len(Line(e)) - 1
<1>1. e \in Editor /\ e.lines \in ViTexts /\ e.lines # <<>> /\ e.cx \in Int
  BY DEF EditorOK, Editor, InBuffer
<1>2. e.cy \in 0 .. Len(e.lines) - 1
  BY DEF EditorOK, InBuffer
<1>3. /\ Line(e) \in Seq(Byte) /\ Len(Line(e)) \in Nat /\ Len(e.lines) \in Nat \ {0}
      /\ LastCol(Line(e)) \in Nat /\ LastCol(Line(e)) <= Len(Line(e))
      /\ Len(Line(e)) > 0 => LastCol(Line(e)) = Len(Line(e)) - 1
  BY <1>1, <1>2, LineFacts DEF Line
<1>4. CASE e.mode = "insert"
  <2>1. e.cx \in 0 .. Len(Line(e))
    BY <1>4 DEF EditorOK, InBuffer, Line
  <2> QED BY <1>1, <1>2, <1>3, <1>4, <2>1
<1>5. CASE e.mode # "insert"
  <2>1. e.cx \in 0 .. LastCol(Line(e))
    BY <1>5 DEF EditorOK, InBuffer, Line
  <2>2. e.cx \in 0 .. Len(Line(e))
    BY <1>1, <1>3, <2>1
  <2> QED BY <1>1, <1>2, <1>3, <2>1, <2>2 DEF Placed
<1> QED BY <1>4, <1>5

LEMMA PlacedIsInside ==
  ASSUME NEW f \in Editor, Placed(f)
  PROVE  InBuffer(f.lines, f.cx, f.cy, f.mode = "insert") /\ InBuffer(f.lines, f.cx, f.cy, FALSE)
<1>1. f.lines \in ViTexts /\ f.cx \in Int
  BY DEF Editor
<1>2. /\ LastCol(f.lines[f.cy + 1]) \in Nat /\ Len(f.lines[f.cy + 1]) \in Nat
      /\ LastCol(f.lines[f.cy + 1]) <= Len(f.lines[f.cy + 1])
  BY <1>1, LineFacts DEF Placed
<1>3. f.cx \in 0 .. LastCol(f.lines[f.cy + 1]) /\ f.cx \in 0 .. Len(f.lines[f.cy + 1])
  BY <1>1, <1>2 DEF Placed, Line
<1> QED BY <1>3 DEF Placed, InBuffer

LEMMA PlacedIsOK ==
  ASSUME NEW e, EditorOK(e), NEW f \in Editor, Placed(f), f.undo = e.undo,
         f.mode # "command" => f.cmd = <<>>
  PROVE  EditorOK(f)
  BY PlacedIsInside DEF EditorOK

LEMMA ClampXPlaces ==
  ASSUME NEW e \in Editor, e.cy \in 0 .. Len(e.lines) - 1, e.cx \in Nat
  PROVE  /\ ClampX(e) \in Editor /\ Placed(ClampX(e)) /\ ClampX(e).lines = e.lines
         /\ ClampX(e).undo = e.undo /\ ClampX(e).mode = e.mode /\ ClampX(e).cmd = e.cmd
         /\ ClampX(e).pending = e.pending
         /\ ClampX(e).dirty = e.dirty /\ ClampX(e).quit = e.quit
<1>1. e.lines \in ViTexts
  BY DEF Editor
<1>2. /\ LastCol(Line(e)) \in Nat /\ e.lines # <<>>
  BY <1>1, LineFacts DEF Line
<1>3. Least(e.cx, LastCol(Line(e))) \in 0 .. LastCol(Line(e))
  BY <1>2 DEF Least
<1> DEFINE c == Least(e.cx, LastCol(Line(e)))
           f == [e EXCEPT !.cx = c]
<1>4. ClampX(e) = f
  BY DEF ClampX
<1>5. c \in Int /\ c \in 0 .. LastCol(Line(e))
  BY <1>2, <1>3
<1> HIDE DEF c
<1>6. /\ f \in Editor /\ f.lines = e.lines /\ f.undo = e.undo /\ f.mode = e.mode
      /\ f.cmd = e.cmd /\ f.pending = e.pending /\ f.dirty = e.dirty /\ f.quit = e.quit
      /\ f.cx = c /\ f.cy = e.cy
  BY <1>5 DEF Editor
<1> HIDE DEF f
<1>7. Placed(f)
  BY <1>2, <1>5, <1>6 DEF Placed, Line
<1> QED BY <1>4, <1>6, <1>7

LEMMA ClampYPlaces ==
  ASSUME NEW e \in Editor, e.lines # <<>>
  PROVE  /\ ClampY(e) \in Editor /\ ClampY(e).cy \in 0 .. Len(e.lines) - 1
         /\ ClampY(e).cx = e.cx /\ ClampY(e).lines = e.lines /\ ClampY(e).undo = e.undo
         /\ ClampY(e).mode = e.mode /\ ClampY(e).cmd = e.cmd /\ ClampY(e).pending = e.pending
         /\ ClampY(e).dirty = e.dirty /\ ClampY(e).quit = e.quit
<1>1. e.lines \in ViTexts /\ e.cy \in Int
  BY DEF Editor
<1>2. Len(e.lines) \in Nat \ {0}
  BY <1>1 DEF ViTexts
<1> DEFINE c == Least(Max0(e.cy), Len(e.lines) - 1)
           f == [e EXCEPT !.cy = c]
<1>3. c \in Int /\ c \in 0 .. Len(e.lines) - 1
  BY <1>1, <1>2 DEF Least, Max0
<1>4. ClampY(e) = f
  BY DEF ClampY
<1> HIDE DEF c
<1>5. /\ f \in Editor /\ f.lines = e.lines /\ f.undo = e.undo /\ f.mode = e.mode
      /\ f.cmd = e.cmd /\ f.pending = e.pending /\ f.dirty = e.dirty /\ f.quit = e.quit
      /\ f.cx = e.cx /\ f.cy = c
  BY <1>3 DEF Editor
<1> QED BY <1>3, <1>4, <1>5

(* A motion within a line, and one to a line where the column is clamped. *)
LEMMA MovedInLine ==
  ASSUME NEW e, EditorOK(e), NEW x \in 0 .. LastCol(Line(e))
  PROVE  Moved(e, [e EXCEPT !.cx = x])
<1> DEFINE f == [e EXCEPT !.cx = x]
<1>1. x \in Int /\ e \in Editor /\ e.lines # <<>> /\ e.cy \in 0 .. Len(e.lines) - 1
  BY EditorFacts
<1>2. /\ f \in Editor /\ f.lines = e.lines /\ f.undo = e.undo /\ f.mode = e.mode
      /\ f.cmd = e.cmd /\ f.pending = e.pending /\ f.dirty = e.dirty /\ f.quit = e.quit
      /\ f.cx = x /\ f.cy = e.cy
  BY <1>1 DEF Editor
<1> HIDE DEF f
<1>3. Placed(f)
  BY <1>1, <1>2 DEF Placed, Line
<1>4. f.mode # "command" => f.cmd = <<>>
  BY <1>2 DEF EditorOK
<1>5. EditorOK(f)
  BY <1>2, <1>3, <1>4, PlacedIsOK
<1>6. Moved(e, f)
  BY <1>2, <1>5 DEF Moved
<1> QED BY <1>6 DEF f

LEMMA MovedToLine ==
  ASSUME NEW e, EditorOK(e), NEW y \in 0 .. Len(e.lines) - 1, NEW x \in Nat
  PROVE  /\ Moved(e, ClampX([e EXCEPT !.cy = y, !.cx = x]))
         /\ x \in 0 .. LastCol(e.lines[y + 1]) => Moved(e, [e EXCEPT !.cy = y, !.cx = x])
<1> DEFINE f == [e EXCEPT !.cy = y, !.cx = x]
<1>1. x \in Int /\ y \in Int /\ e \in Editor /\ e.lines # <<>>
  BY EditorFacts
<1>2. /\ f \in Editor /\ f.lines = e.lines /\ f.undo = e.undo /\ f.mode = e.mode
      /\ f.cmd = e.cmd /\ f.pending = e.pending /\ f.dirty = e.dirty /\ f.quit = e.quit
      /\ f.cx = x /\ f.cy = y
  BY <1>1 DEF Editor
<1> HIDE DEF f
<1>3. f.mode # "command" => f.cmd = <<>>
  BY <1>2 DEF EditorOK
<1>4. Moved(e, ClampX(f))
  <2> DEFINE g == ClampX(f)
  <2>1. f.cy \in 0 .. Len(f.lines) - 1 /\ f.cx \in Nat
    BY <1>2
  <2>2. /\ g \in Editor /\ Placed(g) /\ g.lines = f.lines
        /\ g.undo = f.undo /\ g.mode = f.mode /\ g.cmd = f.cmd /\ g.pending = f.pending
        /\ g.dirty = f.dirty /\ g.quit = f.quit
    BY <1>2, <2>1, ClampXPlaces
  <2> HIDE DEF g
  <2>3. EditorOK(g)
    BY <1>2, <1>3, <2>2, PlacedIsOK
  <2>4. Moved(e, g)
    BY <1>2, <2>2, <2>3 DEF Moved
  <2> QED BY <2>4 DEF g
<1>5. ASSUME x \in 0 .. LastCol(e.lines[y + 1]) PROVE Moved(e, f)
  <2>1. Placed(f)
    BY <1>1, <1>2, <1>5 DEF Placed, Line
  <2>2. EditorOK(f)
    BY <1>2, <1>3, <2>1, PlacedIsOK
  <2> QED BY <1>2, <2>2 DEF Moved
<1> QED BY <1>4, <1>5 DEF f

LEMMA StaysMoved == ASSUME NEW e, EditorOK(e) PROVE Moved(e, e)
  BY DEF Moved

LEMMA PlainMotions ==
  ASSUME NEW e, EditorOK(e)
  PROVE  /\ Moved(e, Left(e)) /\ Moved(e, Right(e)) /\ Moved(e, Down(e)) /\ Moved(e, Up(e))
         /\ Moved(e, Home(e)) /\ Moved(e, End(e))
<1>1. /\ e \in Editor /\ e.cy \in 0 .. Len(e.lines) - 1 /\ Len(e.lines) \in Nat \ {0}
      /\ Len(Line(e)) \in Nat /\ e.cx \in 0 .. Len(Line(e)) /\ LastCol(Line(e)) \in Nat
      /\ Len(Line(e)) > 0 => LastCol(Line(e)) = Len(Line(e)) - 1
      /\ LastCol(Line(e)) <= Len(Line(e))
  BY EditorFacts
<1>2. Moved(e, Left(e))
  <2>1. Max0(e.cx - 1) \in 0 .. LastCol(Line(e))
    BY <1>1 DEF Max0
  <2> QED BY <2>1, MovedInLine DEF Left
<1>3. Moved(e, Right(e))
  <2>1. CASE e.cx < LastCol(Line(e))
    <3>1. e.cx + 1 \in 0 .. LastCol(Line(e))
      BY <1>1, <2>1
    <3> QED BY <2>1, <3>1, MovedInLine DEF Right
  <2>2. CASE ~(e.cx < LastCol(Line(e)))
    BY <2>2, StaysMoved DEF Right
  <2> QED BY <2>1, <2>2
<1>4. Moved(e, Home(e)) /\ Moved(e, End(e))
  <2>1. 0 \in 0 .. LastCol(Line(e)) /\ LastCol(Line(e)) \in 0 .. LastCol(Line(e))
    BY <1>1
  <2>2. Moved(e, Home(e))
    BY <2>1, MovedInLine DEF Home
  <2>3. Moved(e, End(e))
    BY <2>1, MovedInLine DEF End
  <2> QED BY <2>2, <2>3
<1>5. \A y \in Int : [e EXCEPT !.cy = y] = [e EXCEPT !.cy = y, !.cx = e.cx]
  BY <1>1 DEF Editor
<1>6. Moved(e, Down(e))
  <2>1. CASE e.cy < Len(e.lines) - 1
    <3>1. e.cy + 1 \in 0 .. Len(e.lines) - 1 /\ e.cx \in Nat /\ e.cy + 1 \in Int
      BY <1>1, <2>1
    <3>2. Moved(e, ClampX([e EXCEPT !.cy = e.cy + 1, !.cx = e.cx]))
      BY <3>1, MovedToLine
    <3> QED BY <1>5, <2>1, <3>1, <3>2 DEF Down
  <2>2. CASE ~(e.cy < Len(e.lines) - 1)
    BY <2>2, StaysMoved DEF Down
  <2> QED BY <2>1, <2>2
<1>7. Moved(e, Up(e))
  <2>1. CASE e.cy > 0
    <3>1. e.cy - 1 \in 0 .. Len(e.lines) - 1 /\ e.cx \in Nat /\ e.cy - 1 \in Int
      BY <1>1, <2>1
    <3>2. Moved(e, ClampX([e EXCEPT !.cy = e.cy - 1, !.cx = e.cx]))
      BY <3>1, MovedToLine
    <3> QED BY <1>5, <2>1, <3>1, <3>2 DEF Up
  <2>2. CASE ~(e.cy > 0)
    BY <2>2, StaysMoved DEF Up
  <2> QED BY <2>1, <2>2
<1> QED BY <1>2, <1>3, <1>4, <1>6, <1>7

(* Positions that are looked for. *)
LEMMA SeekFacts ==
  ASSUME NEW l \in Seq(Byte), NEW i \in Nat, NEW S, S \subseteq Int
  PROVE  Seek(l, i, S) \in Nat
<1> DEFINE T == {j \in S : j >= i} \cup {Len(l)}
<1>1. T \subseteq Nat /\ T # {}
  <2>1. Len(l) \in Nat /\ Len(l) \in T
    OBVIOUS
  <2>2. \A j \in Int : j >= i => j \in Nat
    OBVIOUS
  <2>3. \A x \in T : x \in Nat
    BY <2>1, <2>2
  <2> QED BY <2>1, <2>3
<1> HIDE DEF T
<1>2. PICK x \in T : \A y \in T : x <= y
  BY <1>1, LeastNat
<1>3. Min(T) \in T
  BY <1>2, Zenon DEF Min
<1>4. Min(T) \in Nat
  BY <1>1, <1>3
<1> QED BY <1>4 DEF Seek, T

LEMMA SeekBackFacts ==
  ASSUME NEW i \in Nat, NEW S, S \subseteq Nat
  PROVE  SeekBack(i, S) \in 0 .. i
<1> DEFINE T == {j \in S : j <= i} \cup {0}
<1>1. T \subseteq Nat /\ 0 \in T
  <2>1. T \subseteq S \cup {0} /\ 0 \in T
    BY Zenon
  <2> HIDE DEF T
  <2> QED BY <2>1
<1>2. \A x \in T : x <= i
  <2>1. 0 <= i
    OBVIOUS
  <2> QED BY <2>1
<1> HIDE DEF T
<1>3. Max(T) \in T
  BY <1>1, <1>2, GreatestNat
<1>4. Max(T) \in Nat /\ Max(T) <= i
  BY <1>1, <1>2, <1>3
<1>5. Max(T) \in 0 .. i
  BY <1>4
<1> QED BY <1>5 DEF SeekBack, T

LEMMA PositionFacts ==
  ASSUME NEW l \in Seq(Byte)
  PROVE  /\ Blanks(l) \subseteq Nat /\ Others(l) \subseteq Nat /\ {k + 1 : k \in Blanks(l)} \subseteq Nat
         /\ \A i \in Nat : Seek(l, i, Blanks(l)) \in Nat /\ NonBlank(l, i) \in Nat /\ WordEnd(l, i) \in Nat
<1>1. Blanks(l) \subseteq Nat /\ Others(l) \subseteq Nat /\ Len(l) \in Nat
  <2>1. \A i \in 0 .. Len(l) - 1 : i \in Nat
    OBVIOUS
  <2>2. Blanks(l) \subseteq 0 .. Len(l) - 1 /\ Others(l) \subseteq 0 .. Len(l) - 1
    BY Zenon DEF Blanks, Others
  <2> QED BY <2>1, <2>2
<1>2. {k + 1 : k \in Blanks(l)} \subseteq Nat
  BY <1>1
<1>3. Blanks(l) \subseteq Int /\ Others(l) \subseteq Int /\ {j - 1 : j \in Blanks(l)} \cup {Len(l) - 1} \subseteq Int
  BY <1>1
<1>4. ASSUME NEW i \in Nat
      PROVE  Seek(l, i, Blanks(l)) \in Nat /\ NonBlank(l, i) \in Nat /\ WordEnd(l, i) \in Nat
  <2>1. Seek(l, i, Blanks(l)) \in Nat
    BY <1>3, SeekFacts
  <2>2. NonBlank(l, i) \in Nat
    BY <1>3, SeekFacts DEF NonBlank
  <2>3. WordEnd(l, i) \in Nat
    BY <1>3, SeekFacts DEF WordEnd
  <2> QED BY <2>1, <2>2, <2>3
<1> QED BY <1>1, <1>2, <1>4

LEMMA WordMotions ==
  ASSUME NEW e, EditorOK(e)
  PROVE  /\ Moved(e, WordForward(e)) /\ Moved(e, WordBackward(e)) /\ Moved(e, WordEndForward(e))
<1> DEFINE l == Line(e)
           n == [e EXCEPT !.cy = e.cy + 1]
<1>1. /\ e \in Editor /\ e.lines \in ViTexts /\ e.cy \in 0 .. Len(e.lines) - 1
      /\ Len(e.lines) \in Nat \ {0} /\ l \in Seq(Byte)
      /\ Len(l) \in Nat /\ e.cx \in 0 .. Len(l) /\ LastCol(l) \in Nat
      /\ Len(l) > 0 => LastCol(l) = Len(l) - 1
  BY EditorFacts
<1>2. /\ n.lines = e.lines /\ n.cy = e.cy + 1
      /\ \A x : [n EXCEPT !.cx = x] = [e EXCEPT !.cy = e.cy + 1, !.cx = x]
  BY <1>1 DEF Editor
<1>3. Line(n) = e.lines[(e.cy + 1) + 1]
  BY <1>2 DEF Line
<1> HIDE DEF l, n
<1>4. ASSUME NEW i \in Nat, i < Len(l)
      PROVE  i \in 0 .. LastCol(l)
  BY <1>1, <1>4
<1>5. ASSUME e.cy < Len(e.lines) - 1
      PROVE  /\ e.cy + 1 \in 0 .. Len(e.lines) - 1 /\ Line(n) \in Seq(Byte)
  <2>1. e.cy + 1 \in 0 .. Len(e.lines) - 1
    BY <1>1, <1>5
  <2> QED BY <1>1, <1>3, <2>1, LineFacts
<1>6. Moved(e, WordForward(e))
  <2> DEFINE i == NonBlank(l, Seek(l, e.cx, Blanks(l)))
  <2>1. e.cx \in Nat /\ i \in Nat
    <3>1. e.cx \in Nat
      BY <1>1
    <3> QED BY <1>1, <3>1, PositionFacts
  <2> HIDE DEF i
  <2>2. CASE i < Len(l)
    <3>1. ~(i >= Len(l))
      BY <1>1, <2>1, <2>2
    <3>2. WordForward(e) = [e EXCEPT !.cx = i]
      BY <2>2, <3>1 DEF WordForward, i, l
    <3> QED BY <1>1, <1>4, <2>1, <2>2, <3>2, MovedInLine DEF l
  <2>3. CASE ~(i < Len(l)) /\ e.cy < Len(e.lines) - 1
    <3>1. ~(i < Len(l)) /\ i >= Len(l)
      BY <1>1, <2>1, <2>3
    <3>2. WordForward(e) = ClampX([n EXCEPT !.cx = NonBlank(Line(n), 0)])
      BY <2>3, <3>1 DEF WordForward, i, l, n
    <3>3. NonBlank(Line(n), 0) \in Nat
      BY <1>5, <2>3, PositionFacts
    <3>4. WordForward(e) = ClampX([e EXCEPT !.cy = e.cy + 1, !.cx = NonBlank(Line(n), 0)])
      BY <1>2, <3>2
    <3>5. e.cy + 1 \in 0 .. Len(e.lines) - 1
      BY <1>5, <2>3
    <3> QED BY <3>3, <3>4, <3>5, MovedToLine
  <2>4. CASE ~(i < Len(l)) /\ ~(e.cy < Len(e.lines) - 1)
    <3>1. WordForward(e) = End(e)
      BY <2>4 DEF WordForward, i, l
    <3> QED BY <3>1, PlainMotions
  <2> QED BY <2>2, <2>3, <2>4
<1>7. Moved(e, WordEndForward(e))
  <2> DEFINE i == WordEnd(l, NonBlank(l, e.cx + 1))
  <2>1. i \in Nat
    <3>1. e.cx + 1 \in Nat
      BY <1>1
    <3>2. NonBlank(l, e.cx + 1) \in Nat
      BY <1>1, <3>1, PositionFacts
    <3> QED BY <1>1, <3>2, PositionFacts
  <2> HIDE DEF i
  <2>2. CASE i < Len(l)
    <3>1. ~(i >= Len(l))
      BY <1>1, <2>1, <2>2
    <3>2. WordEndForward(e) = ClampX([e EXCEPT !.cx = i])
      BY <2>2, <3>1 DEF WordEndForward, i, l
    <3>3. [e EXCEPT !.cx = i] = [e EXCEPT !.cy = e.cy, !.cx = i]
      BY <1>1, <2>1 DEF Editor
    <3>4. WordEndForward(e) = ClampX([e EXCEPT !.cy = e.cy, !.cx = i])
      BY <3>2, <3>3
    <3>5. e.cy \in 0 .. Len(e.lines) - 1
      BY <1>1
    <3> QED BY <2>1, <3>4, <3>5, MovedToLine
  <2>3. CASE ~(i < Len(l)) /\ e.cy < Len(e.lines) - 1
    <3>1. ~(i < Len(l)) /\ i >= Len(l)
      BY <1>1, <2>1, <2>3
    <3>2. WordEndForward(e) = ClampX([n EXCEPT !.cx = WordEnd(Line(n), NonBlank(Line(n), 0))])
      BY <2>3, <3>1 DEF WordEndForward, i, l, n
    <3>3. NonBlank(Line(n), 0) \in Nat
      BY <1>5, <2>3, PositionFacts
    <3>4. WordEnd(Line(n), NonBlank(Line(n), 0)) \in Nat
      BY <1>5, <2>3, <3>3, PositionFacts
    <3>5. WordEndForward(e) =
            ClampX([e EXCEPT !.cy = e.cy + 1, !.cx = WordEnd(Line(n), NonBlank(Line(n), 0))])
      BY <1>2, <3>2
    <3>6. e.cy + 1 \in 0 .. Len(e.lines) - 1
      BY <1>5, <2>3
    <3> QED BY <3>4, <3>5, <3>6, MovedToLine
  <2>4. CASE ~(i < Len(l)) /\ ~(e.cy < Len(e.lines) - 1)
    <3>1. WordEndForward(e) = e
      BY <2>4 DEF WordEndForward, i, l
    <3> QED BY <3>1, StaysMoved
  <2> QED BY <2>2, <2>3, <2>4
<1>8. Moved(e, WordBackward(e))
  <2>1. CASE e.cx = 0 /\ e.cy = 0
    <3>1. WordBackward(e) = e
      BY <2>1 DEF WordBackward
    <3> QED BY <3>1, StaysMoved
  <2>2. CASE e.cx = 0 /\ e.cy # 0
    <3> DEFINE m == [e EXCEPT !.cy = e.cy - 1]
               lm == Line(m)
               j == SeekBack(Max0(Len(lm) - 1), Others(lm))
               x == SeekBack(j, {k + 1 : k \in Blanks(lm)})
    <3>1. e.cy - 1 \in 0 .. Len(e.lines) - 1 /\ e.cy - 1 \in Int
      BY <1>1, <2>2
    <3>2. m.lines = e.lines /\ m.cy = e.cy - 1
      BY <1>1 DEF Editor
    <3>3. lm = e.lines[(e.cy - 1) + 1]
      BY <3>2 DEF Line
    <3>4. WordBackward(e) = [m EXCEPT !.cx = x]
      BY <2>2 DEF WordBackward
    <3>5. \A c : [m EXCEPT !.cx = c] = [e EXCEPT !.cy = e.cy - 1, !.cx = c]
      BY <1>1 DEF Editor
    <3> HIDE DEF m
    <3> HIDE DEF lm
    <3>6. lm \in Seq(Byte) /\ Max0(Len(lm) - 1) \in Nat /\ Max0(Len(lm) - 1) = LastCol(lm)
      <4>1. lm \in Seq(Byte) /\ LastCol(lm) \in Nat
        BY <1>1, <3>1, <3>3, LineFacts
      <4> QED BY <4>1 DEF LastCol
    <3>7. j \in 0 .. LastCol(lm) /\ j \in Nat
      <4>1. j \in 0 .. Max0(Len(lm) - 1)
        BY <3>6, SeekBackFacts, PositionFacts
      <4> HIDE DEF j
      <4> QED BY <3>6, <4>1
    <3> HIDE DEF j
    <3>8. x \in 0 .. j
      BY <3>6, <3>7, SeekBackFacts, PositionFacts
    <3> HIDE DEF x
    <3>9. x \in Nat /\ x \in 0 .. LastCol(lm)
      BY <3>6, <3>7, <3>8
    <3>10. Moved(e, [e EXCEPT !.cy = e.cy - 1, !.cx = x])
      BY <3>1, <3>3, <3>9, MovedToLine
    <3> QED BY <3>4, <3>5, <3>10
  <2>3. CASE e.cx # 0
    <3> DEFINE j == SeekBack(Max0(e.cx - 1), Others(l))
               x == SeekBack(j, {k + 1 : k \in Blanks(l)})
    <3>1. WordBackward(e) = [e EXCEPT !.cx = x]
      BY <2>3 DEF WordBackward, l
    <3>2. Max0(e.cx - 1) \in Nat /\ Max0(e.cx - 1) <= LastCol(l)
      BY <1>1, <2>3 DEF Max0
    <3>3. j \in 0 .. LastCol(l) /\ j \in Nat
      <4>1. j \in 0 .. Max0(e.cx - 1)
        BY <1>1, <3>2, SeekBackFacts, PositionFacts
      <4> HIDE DEF j
      <4> QED BY <1>1, <3>2, <4>1
    <3> HIDE DEF j
    <3>4. x \in 0 .. j
      BY <1>1, <3>3, SeekBackFacts, PositionFacts
    <3> HIDE DEF x
    <3>5. x \in 0 .. LastCol(l)
      BY <1>1, <3>3, <3>4
    <3> QED BY <3>1, <3>5, MovedInLine DEF l
  <2> QED BY <2>1, <2>2, <2>3
<1> QED BY <1>6, <1>7, <1>8

LEMMA ModFacts ==
  ASSUME NEW n \in Nat \ {0}, NEW a \in Nat
  PROVE  a % n \in 0 .. n - 1
  OBVIOUS

LEMMA SearchMoves ==
  ASSUME NEW e, EditorOK(e), NEW p \in Seq(Byte), NEW forward \in BOOLEAN
  PROVE  Moved(e, Search(e, p, forward))
<1> DEFINE n == Len(e.lines)
           row(k)  == IF forward THEN (e.cy + k) % n ELSE (e.cy - k + n) % n
           hits(k) == {i \in Occurrences(e.lines[row(k) + 1], p) :
                         k = 0 => IF forward THEN i > e.cx ELSE i + Len(p) <= e.cx}
           rows == {k \in 0 .. n - 1 : hits(k) # {}}
           k0   == CHOOSE k \in rows : \A j \in rows : k <= j
           col  == CHOOSE i \in hits(k0) :
                     \A j \in hits(k0) : IF forward THEN i <= j ELSE i >= j
<1>1. /\ e \in Editor /\ e.lines \in ViTexts /\ n \in Nat \ {0} /\ e.cy \in 0 .. n - 1
  BY EditorFacts
<1>2. Search(e, p, forward) =
        IF p = <<>> \/ rows = {} THEN e ELSE ClampX([e EXCEPT !.cy = row(k0), !.cx = col])
  BY DEF Search
<1>3. \A k \in 0 .. n - 1 : row(k) \in 0 .. n - 1
  <2> SUFFICES ASSUME NEW k \in 0 .. n - 1 PROVE row(k) \in 0 .. n - 1
    OBVIOUS
  <2>1. e.cy + k \in Nat /\ e.cy - k + n \in Nat
    BY <1>1
  <2>2. (e.cy + k) % n \in 0 .. n - 1 /\ (e.cy - k + n) % n \in 0 .. n - 1
    <3> HIDE DEF n
    <3> QED BY <1>1, <2>1, ModFacts
  <2> QED BY <2>2, Zenon
<1>4. \A k \in 0 .. n - 1 : hits(k) \subseteq 0 .. Len(e.lines[row(k) + 1])
  <2> SUFFICES ASSUME NEW k \in 0 .. n - 1 PROVE hits(k) \subseteq 0 .. Len(e.lines[row(k) + 1])
    OBVIOUS
  <2> DEFINE lk == e.lines[row(k) + 1]
  <2>1. hits(k) \subseteq 0 .. Len(lk) - Len(p)
    BY Zenon DEF Occurrences
  <2>2. row(k) \in 0 .. n - 1
    BY <1>3
  <2> HIDE DEF row
  <2>3. Len(lk) \in Nat /\ Len(p) \in Nat
    BY <1>1, <2>2, LineFacts
  <2> HIDE DEF lk, hits
  <2>4. 0 .. Len(lk) - Len(p) \subseteq 0 .. Len(lk)
    BY <2>3
  <2>5. hits(k) \subseteq 0 .. Len(lk)
    BY <2>1, <2>4
  <2> QED BY <2>5 DEF lk
<1>5. CASE p = <<>> \/ rows = {}
  BY <1>2, <1>5, StaysMoved
<1>6. CASE ~(p = <<>> \/ rows = {})
  <2> HIDE DEF n, row, hits
  <2>1. rows # {} /\ rows \subseteq 0 .. n - 1 /\ \A k \in rows : hits(k) # {}
    BY <1>6
  <2> HIDE DEF rows
  <2>2. rows \subseteq Nat
    BY <1>1, <2>1
  <2>3. \E k \in rows : \A j \in rows : k <= j
    BY <2>1, <2>2, LeastNat
  <2>4. k0 \in rows
    BY <2>3, Zenon
  <2> HIDE DEF k0
  <2> DEFINE L == Len(e.lines[row(k0) + 1])
             T == hits(k0)
  <2>5. row(k0) \in 0 .. n - 1 /\ k0 \in 0 .. n - 1
    BY <1>3, <2>1, <2>4
  <2>6. L \in Nat /\ T # {} /\ T \subseteq 0 .. L
    <3>1. L \in Nat
      BY <1>1, <2>5, LineFacts DEF n
    <3> QED BY <1>4, <2>1, <2>4, <2>5, <3>1
  <2> HIDE DEF L
  <2>7. \E i \in T : \A j \in T : IF forward THEN i <= j ELSE i >= j
    <3> HIDE DEF T
    <3>1. T \subseteq Nat /\ \A x \in T : x <= L
      BY <2>6
    <3>2. CASE forward
      <4>1. \E i \in T : \A j \in T : i <= j
        BY <2>6, <3>1, LeastNat
      <4> QED BY <3>2, <4>1, Zenon
    <3>3. CASE ~forward
      <4>1. Max(T) \in T /\ \A y \in T : y <= Max(T)
        BY <2>6, <3>1, GreatestNat
      <4>2. Max(T) \in T /\ \A j \in T : Max(T) >= j
        BY <3>1, <4>1
      <4> QED BY <3>3, <4>2, Zenon
    <3> QED BY <3>2, <3>3
  <2>8. col \in T
    BY <2>7, Zenon
  <2> HIDE DEF T, col
  <2>9. col \in Nat
    BY <2>6, <2>8
  <2>10. Moved(e, ClampX([e EXCEPT !.cy = row(k0), !.cx = col]))
    BY <2>5, <2>9, MovedToLine DEF n
  <2> QED BY <1>2, <1>6, <2>10
<1> QED BY <1>5, <1>6

(* Changes.  What replaces the lines leaves a buffer if the cursor is in   *)
(* it.                                                                     *)
LEMMA LinesChanged ==
  ASSUME NEW e, EditorOK(e), NEW ls \in ViTexts, ls # <<>>, NEW y \in 0 .. Len(ls) - 1,
         NEW x \in Nat, NEW m \in {"normal", "insert", "command", "search"},
         x <= IF m = "insert" THEN Len(ls[y + 1]) ELSE LastCol(ls[y + 1]), m # "command" => e.cmd = <<>>
  PROVE  Edited(e, [e EXCEPT !.lines = ls, !.cx = x, !.cy = y, !.mode = m, !.dirty = TRUE])
<1> DEFINE f == [e EXCEPT !.lines = ls, !.cx = x, !.cy = y, !.mode = m, !.dirty = TRUE]
<1>1. /\ f \in Editor /\ f.lines = ls /\ f.cx = x /\ f.cy = y /\ f.mode = m /\ f.dirty = TRUE
      /\ f.undo = e.undo /\ f.cmd = e.cmd /\ f.pending = e.pending /\ f.quit = e.quit
  <2>1. e \in Editor /\ x \in Int /\ y \in Int
    BY EditorFacts
  <2> QED BY <2>1 DEF Editor
<1> HIDE DEF f
<1>2. InBuffer(f.lines, f.cx, f.cy, f.mode = "insert")
  <2>1. Len(ls[y + 1]) \in Nat /\ LastCol(ls[y + 1]) \in Nat
    BY LineFacts
  <2>2. CASE m = "insert"
    <3>1. x \in 0 .. Len(ls[y + 1])
      BY <2>1, <2>2
    <3> QED BY <1>1, <2>2, <3>1 DEF InBuffer
  <2>3. CASE m # "insert"
    <3>1. x \in 0 .. LastCol(ls[y + 1])
      BY <2>1, <2>3
    <3> QED BY <1>1, <2>3, <3>1 DEF InBuffer
  <2> QED BY <2>2, <2>3
<1>3. EditorOK(f)
  BY <1>1, <1>2 DEF EditorOK
<1>4. Edited(e, f)
  BY <1>1, <1>3 DEF Edited
<1> QED BY <1>4 DEF f

(* Parts of a sequence. *)
LEMMA TakeFrom ==
  ASSUME NEW S, NEW s \in Seq(S), NEW n \in 0 .. Len(s)
  PROVE  /\ Take(s, n) \in Seq(S) /\ Len(Take(s, n)) = n
         /\ From(s, n) \in Seq(S) /\ Len(From(s, n)) = Len(s) - n
<1>1. Len(s) \in Nat /\ n \in Nat
  OBVIOUS
<1>2. Take(s, n) \in Seq(S) /\ Len(Take(s, n)) = n
  BY <1>1 DEF Take
<1>3. From(s, n) \in Seq(S) /\ Len(From(s, n)) = Len(s) - n
  BY <1>1 DEF From
<1> QED BY <1>2, <1>3

LEMMA JoinFacts ==
  ASSUME NEW S, NEW s \in Seq(S), NEW t \in Seq(S)
  PROVE  s \o t \in Seq(S) /\ Len(s \o t) = Len(s) + Len(t) /\ Len(s) \in Nat /\ Len(t) \in Nat
  OBVIOUS

LEMMA InsertFacts ==
  ASSUME NEW S, NEW s \in Seq(S), NEW i \in 0 .. Len(s), NEW new \in Seq(S)
  PROVE  InsertLines(s, i, new) \in Seq(S) /\ Len(InsertLines(s, i, new)) = Len(s) + Len(new)
<1>1. /\ Take(s, i) \in Seq(S) /\ Len(Take(s, i)) = i
      /\ From(s, i) \in Seq(S) /\ Len(From(s, i)) = Len(s) - i
  BY TakeFrom
<1>2. Take(s, i) \o new \in Seq(S) /\ Len(Take(s, i) \o new) = i + Len(new) /\ Len(new) \in Nat
  BY <1>1, JoinFacts
<1> DEFINE t == Take(s, i) \o new
           u == From(s, i)
<1>3. t \in Seq(S) /\ Len(t) = i + Len(new) /\ u \in Seq(S) /\ Len(u) = Len(s) - i
  BY <1>1, <1>2
<1>4. InsertLines(s, i, new) = t \o u
  BY DEF InsertLines
<1> HIDE DEF t, u
<1>5. t \o u \in Seq(S) /\ Len(t \o u) = (i + Len(new)) + (Len(s) - i)
  BY <1>3, JoinFacts
<1>6. (i + Len(new)) + (Len(s) - i) = Len(s) + Len(new)
  BY <1>2
<1> QED BY <1>4, <1>5, <1>6

LEMMA PasteEdits ==
  ASSUME NEW e, EditorOK(e)
  PROVE  Edited(e, PasteBelow(e)) /\ Edited(e, PasteAbove(e))
<1>0. Edited(e, e)
  BY DEF Edited, EditorOK, Editor
<1>1. /\ e \in Editor /\ e.lines \in ViTexts /\ e.cy \in 0 .. Len(e.lines) - 1
      /\ Len(e.lines) \in Nat \ {0} /\ e.reg \in ViTexts
      /\ e.mode \in {"normal", "insert", "command", "search"} /\ (e.mode # "command" => e.cmd = <<>>)
  <2>1. /\ e \in Editor /\ e.lines \in ViTexts /\ e.cy \in 0 .. Len(e.lines) - 1
        /\ Len(e.lines) \in Nat \ {0}
    BY EditorFacts
  <2> QED BY <2>1 DEF Editor, EditorOK
<1>2. CASE e.reg = <<>>
  BY <1>0, <1>2 DEF PasteBelow, PasteAbove
<1>3. CASE e.reg # <<>>
  <2>1. Len(e.reg) \in Nat \ {0}
    BY <1>1, <1>3 DEF ViTexts
  <2>2. ASSUME NEW i \in {e.cy, e.cy + 1}
        PROVE  LET ls == InsertLines(e.lines, i, e.reg)
               IN  Edited(e, [e EXCEPT !.lines = ls, !.cx = 0, !.cy = i, !.mode = e.mode, !.dirty = TRUE])
    <3> DEFINE ls == InsertLines(e.lines, i, e.reg)
    <3>1. i \in 0 .. Len(e.lines)
      BY <1>1
    <3>2. ls \in ViTexts /\ Len(ls) = Len(e.lines) + Len(e.reg)
      <4> DEFINE S == Seq(Byte)
      <4>1. e.lines \in Seq(S) /\ e.reg \in Seq(S)
        BY <1>1 DEF ViTexts
      <4> HIDE DEF S
      <4>2. InsertLines(e.lines, i, e.reg) \in Seq(S)
        BY <3>1, <4>1, InsertFacts
      <4>3. Len(InsertLines(e.lines, i, e.reg)) = Len(e.lines) + Len(e.reg)
        BY <3>1, <4>1, InsertFacts
      <4>4. ls \in ViTexts
        BY <4>2 DEF S, ViTexts
      <4> QED BY <4>3, <4>4
    <3> HIDE DEF ls
    <3>3. i \in 0 .. Len(ls) - 1 /\ ls # <<>>
      <4>1. Len(e.lines) \in Nat /\ Len(ls) = Len(e.lines) + Len(e.reg)
        BY <1>1, <3>2
      <4>2. \A a \in Nat, b \in Nat \ {0} : \A k \in 0 .. a : k \in 0 .. (a + b) - 1
        OBVIOUS
      <4>3. i \in 0 .. Len(ls) - 1
        BY <2>1, <3>1, <4>1, <4>2
      <4> QED BY <3>2, <4>3, LineFacts
    <3>4. Len(ls[i + 1]) \in Nat /\ LastCol(ls[i + 1]) \in Nat
      BY <3>2, <3>3, LineFacts
    <3>5. 0 <= IF e.mode = "insert" THEN Len(ls[i + 1]) ELSE LastCol(ls[i + 1])
      BY <3>4
    <3>6. /\ i \in 0 .. Len(ls) - 1 /\ 0 \in Nat
          /\ e.mode \in {"normal", "insert", "command", "search"}
      BY <1>1, <3>3
    <3>7. Edited(e, [e EXCEPT !.lines = ls, !.cx = 0, !.cy = i, !.mode = e.mode, !.dirty = TRUE])
      BY <1>1, <3>2, <3>3, <3>5, <3>6, LinesChanged
    <3> QED BY <3>7 DEF ls
  <2>3. Edited(e, PasteBelow(e))
    <3> DEFINE ls == InsertLines(e.lines, e.cy + 1, e.reg)
    <3>1. PasteBelow(e) = [e EXCEPT !.lines = ls, !.cx = 0, !.cy = e.cy + 1, !.mode = e.mode, !.dirty = TRUE]
      BY <1>1, <1>3 DEF PasteBelow, Editor
    <3> QED BY <2>2, <3>1
  <2>4. Edited(e, PasteAbove(e))
    <3> DEFINE ls == InsertLines(e.lines, e.cy, e.reg)
    <3>1. PasteAbove(e) = [e EXCEPT !.lines = ls, !.cx = 0, !.cy = e.cy, !.mode = e.mode, !.dirty = TRUE]
      BY <1>1, <1>3 DEF PasteAbove, Editor
    <3> QED BY <2>2, <3>1
  <2> QED BY <2>3, <2>4
<1> QED BY <1>2, <1>3

(* Deleting a byte or a line. *)
LEMMA DeletionsEdit ==
  ASSUME NEW e, EditorOK(e)
  PROVE  Edited(e, DeleteRune(e)) /\ Edited(e, DeleteLine(e))
<1>0. Edited(e, e)
  BY DEF Edited, EditorOK, Editor
<1> DEFINE l == Line(e)
<1>1. /\ e \in Editor /\ e.lines \in ViTexts /\ e.cy \in 0 .. Len(e.lines) - 1
      /\ Len(e.lines) \in Nat \ {0} /\ l \in Seq(Byte) /\ Len(l) \in Nat /\ e.cx \in 0 .. Len(l)
  BY EditorFacts
<1>2. e.mode \in {"normal", "insert", "command", "search"} /\ (e.mode # "command" => e.cmd = <<>>)
  BY <1>1 DEF Editor, EditorOK
<1>3. Edited(e, DeleteRune(e))
  <2>1. CASE ~(e.cx < Len(l))
    BY <1>0, <2>1 DEF DeleteRune
  <2>2. CASE e.cx < Len(l)
    <3> DEFINE k  == Take(l, e.cx) \o From(l, e.cx + 1)
               ls == [e.lines EXCEPT ![e.cy + 1] = k]
               f  == SetLine(e, k)
    <3>1. k \in Seq(Byte)
      <4>1. e.cx \in 0 .. Len(l) /\ e.cx + 1 \in 0 .. Len(l)
        BY <1>1, <2>2
      <4>2. Take(l, e.cx) \in Seq(Byte) /\ From(l, e.cx + 1) \in Seq(Byte)
        BY <1>1, <4>1, TakeFrom
      <4> QED BY <4>2
    <3>2. DeleteRune(e) = ClampX(f)
      BY <2>2 DEF DeleteRune
    <3> HIDE DEF l, k
    <3>3. ls \in ViTexts /\ Len(ls) = Len(e.lines) /\ ls # <<>>
      <4>1. e.cy + 1 \in 1 .. Len(e.lines)
        BY <1>1
      <4>2. ls \in Seq(Seq(Byte)) /\ Len(ls) = Len(e.lines)
        BY <1>1, <3>1, <4>1, ExceptSeq DEF ViTexts
      <4> HIDE DEF ls
      <4> QED BY <1>1, <4>2 DEF ViTexts
    <3>4. /\ f \in Editor /\ f.lines = ls /\ f.cx = e.cx /\ f.cy = e.cy /\ f.mode = e.mode
          /\ f.dirty = TRUE /\ f.undo = e.undo /\ f.cmd = e.cmd /\ f.pending = e.pending
          /\ f.quit = e.quit
      BY <1>1, <3>3 DEF SetLine, Editor
    <3> HIDE DEF f, ls
    <3> DEFINE g == ClampX(f)
    <3>5. f.cy \in 0 .. Len(f.lines) - 1 /\ f.cx \in Nat
      BY <1>1, <3>3, <3>4
    <3>6. /\ g \in Editor /\ Placed(g) /\ g.undo = f.undo /\ g.mode = f.mode /\ g.cmd = f.cmd
          /\ g.pending = f.pending
          /\ g.dirty = f.dirty /\ g.quit = f.quit
      BY <3>4, <3>5, ClampXPlaces
    <3> HIDE DEF g
    <3>7. EditorOK(g)
      BY <1>2, <3>4, <3>6, PlacedIsOK
    <3>8. Edited(e, g)
      BY <3>4, <3>6, <3>7 DEF Edited
    <3> QED BY <3>2, <3>8 DEF g
  <2> QED BY <2>1, <2>2
<1>4. Edited(e, DeleteLine(e))
  <2> DEFINE ls == IF Len(e.lines) = 1 THEN << <<>> >> ELSE Take(e.lines, e.cy) \o From(e.lines, e.cy + 1)
             f  == [e EXCEPT !.lines = ls, !.cx = 0, !.dirty = TRUE]
             g  == ClampY(f)
  <2>1. ls \in ViTexts /\ ls # <<>>
    <3>1. CASE Len(e.lines) = 1
      <4>1. <<>> \in Seq(Byte)
        OBVIOUS
      <4>2. << <<>> >> \in Seq(Seq(Byte)) /\ << <<>> >> # <<>>
        BY <4>1
      <4> QED BY <3>1, <4>2 DEF ViTexts
    <3>2. CASE Len(e.lines) # 1
      <4> DEFINE a == Take(e.lines, e.cy)
                 b == From(e.lines, e.cy + 1)
      <4>1. e.cy \in 0 .. Len(e.lines) /\ e.cy + 1 \in 0 .. Len(e.lines)
        BY <1>1
      <4>2. a \in ViTexts /\ Len(a) = e.cy /\ b \in ViTexts /\ Len(b) = Len(e.lines) - (e.cy + 1)
        BY <1>1, <4>1, TakeFrom DEF ViTexts
      <4>3. ls = a \o b
        BY <3>2
      <4> HIDE DEF a, b, ls
      <4>4. a \o b \in ViTexts /\ Len(a \o b) = Len(a) + Len(b)
        BY <4>2, JoinFacts DEF ViTexts
      <4>5. Len(a) + Len(b) = Len(e.lines) - 1 /\ Len(e.lines) - 1 > 0
        <5>1. e.cy \in Nat /\ Len(e.lines) \in Nat \ {0}
          BY <1>1
        <5>2. \A c \in Nat, d \in Nat \ {0} : c + (d - (c + 1)) = d - 1 /\ (d # 1 => d - 1 > 0)
          OBVIOUS
        <5> QED BY <3>2, <4>2, <5>1, <5>2
      <4>6. a \o b # <<>>
        BY <4>4, <4>5
      <4> QED BY <4>3, <4>4, <4>6
    <3> QED BY <3>1, <3>2
  <2>2. DeleteLine(e) = g
    BY DEF DeleteLine
  <2> HIDE DEF ls, l
  <2>3. /\ f \in Editor /\ f.lines = ls /\ f.cx = 0 /\ f.cy = e.cy /\ f.mode = e.mode
        /\ f.dirty = TRUE /\ f.undo = e.undo /\ f.cmd = e.cmd /\ f.pending = e.pending
        /\ f.quit = e.quit
    <3>1. e \in Editor /\ ls \in ViTexts /\ 0 \in Int
      BY <1>1, <2>1
    <3>2. f \in Editor
      BY <3>1 DEF Editor
    <3>3. /\ f.lines = ls /\ f.cx = 0 /\ f.cy = e.cy /\ f.mode = e.mode /\ f.dirty = TRUE
      BY <3>1 DEF Editor
    <3>4. f.undo = e.undo /\ f.cmd = e.cmd /\ f.pending = e.pending /\ f.quit = e.quit
      BY <3>1 DEF Editor
    <3> QED BY <3>2, <3>3, <3>4
  <2> HIDE DEF f
  <2>4. /\ g \in Editor /\ g.cy \in 0 .. Len(f.lines) - 1 /\ g.cx = f.cx /\ g.lines = f.lines
        /\ g.undo = f.undo /\ g.mode = f.mode /\ g.cmd = f.cmd /\ g.pending = f.pending
        /\ g.dirty = f.dirty /\ g.quit = f.quit
    BY <2>1, <2>3, ClampYPlaces
  <2> HIDE DEF g
  <2>5. Placed(g)
    <3>1. LastCol(g.lines[g.cy + 1]) \in Nat
      BY <2>1, <2>3, <2>4, LineFacts
    <3>2. g.cx \in 0 .. LastCol(g.lines[g.cy + 1])
      BY <2>3, <2>4, <3>1
    <3> QED BY <2>1, <2>3, <2>4, <3>2 DEF Placed, Line
  <2>6. EditorOK(g)
    BY <1>2, <2>3, <2>4, <2>5, PlacedIsOK
  <2>7. Edited(e, g)
    BY <2>3, <2>4, <2>6 DEF Edited
  <2> QED BY <2>2, <2>7 DEF g
<1> QED BY <1>3, <1>4

(* What a key does once, and as often as a count says. *)
LEMMA MovedIsEdited ==
  ASSUME NEW e, EditorOK(e), NEW f, Moved(e, f) PROVE Edited(e, f)
<1>1. e.dirty \in BOOLEAN /\ f.dirty = e.dirty /\ f.lines = e.lines
  BY DEF EditorOK, Editor, Moved
<1> QED BY <1>1 DEF Moved, Edited

LEMMA EditedTwice ==
  ASSUME NEW e, NEW f, NEW g, Edited(e, f), Edited(f, g) PROVE Edited(e, g)
<1>1. f.dirty \in BOOLEAN /\ g.dirty \in BOOLEAN
  BY DEF Edited, EditorOK, Editor
<1> QED BY <1>1 DEF Edited

LEMMA MovedTwice ==
  ASSUME NEW e, NEW f, NEW g, Moved(e, f), Moved(f, g) PROVE Moved(e, g)
  BY DEF Moved

Changes == {"d", "x", "p", "P"}

LEMMA OnceFacts ==
  ASSUME NEW e, EditorOK(e)
  PROVE  /\ \A b \in Moves : Moved(e, Once(e, b))
         /\ \A b \in Changes : Edited(e, Once(e, b))
<1>1. ASSUME NEW b \in Moves PROVE Moved(e, Once(e, b))
  <2>1. CASE b = "h"
    BY <2>1, PlainMotions DEF Once
  <2>2. CASE b = "l"
    BY <2>2, PlainMotions DEF Once
  <2>3. CASE b = "j"
    BY <2>3, PlainMotions DEF Once
  <2>4. CASE b = "k"
    BY <2>4, PlainMotions DEF Once
  <2>5. CASE b = "w"
    BY <2>5, WordMotions DEF Once
  <2>6. CASE b = "b"
    BY <2>6, WordMotions DEF Once
  <2>7. CASE b = "e"
    BY <2>7, WordMotions DEF Once
  <2> QED BY <1>1, <2>1, <2>2, <2>3, <2>4, <2>5, <2>6, <2>7 DEF Moves
<1>2. ASSUME NEW b \in Changes PROVE Edited(e, Once(e, b))
  <2>1. CASE b = "d"
    BY <2>1, DeletionsEdit DEF Once
  <2>2. CASE b = "x"
    BY <2>2, DeletionsEdit DEF Once
  <2>3. CASE b = "p"
    BY <2>3, PasteEdits DEF Once
  <2>4. CASE b = "P"
    BY <2>4, PasteEdits DEF Once
  <2> QED BY <1>2, <2>1, <2>2, <2>3, <2>4 DEF Changes
<1> QED BY <1>1, <1>2

LEMMA TimesKeeps ==
  ASSUME NEW S, NEW e \in S, NEW b, NEW n \in Nat, \A f \in S : Once(f, b) \in S
  PROVE  Times(n, e, b) \in S
<1> DEFINE G == [z \in S \X (1 .. n) |-> Once(z[1], b)]
           Fix(h) == h = [i \in 0 .. n |-> IF i = 0 THEN e ELSE Once(h[i - 1], b)]
           t == CHOOSE h : Fix(h)
<1>1. PICK f : Steps(f, S, n, e, G)
  <2>1. G \in [S \X (1 .. n) -> S]
    OBVIOUS
  <2> HIDE DEF G
  <2> QED BY <2>1, RecursionExists
<1>2. f \in [0 .. n -> S] /\ f[0] = e /\ \A i \in 1 .. n : f[i] = Once(f[i - 1], b)
  <2>1. f \in [0 .. n -> S] /\ f[0] = e /\ \A i \in 1 .. n : f[i] = G[<<f[i - 1], i>>]
    BY <1>1, Zenon DEF Steps
  <2>2. ASSUME NEW i \in 1 .. n PROVE f[i] = Once(f[i - 1], b)
    <3>1. f[i - 1] \in S
      BY <2>1
    <3> QED BY <2>1, <3>1
  <2> QED BY <2>1, <2>2
<1>3. Fix(f)
  BY <1>2
<1>4. Fix(t)
  <2> HIDE DEF Fix
  <2> QED BY <1>3
<1>5. Times(n, e, b) = t[n]
  BY DEF Times
<1>6. \A h : Fix(h) => h[0] = e /\ \A i \in 1 .. n : h[i] = Once(h[i - 1], b)
  OBVIOUS
<1> HIDE DEF Fix, t
<1> DEFINE P == {i \in 0 .. n : t[i] \in S}
<1>7. 0 \in P /\ \A i \in 1 .. n : i - 1 \in P => i \in P
  BY <1>4, <1>6
<1> HIDE DEF P
<1>8. 0 .. n \subseteq P
  BY <1>7, UpTo
<1> QED BY <1>5, <1>8 DEF P

LEMMA TimesFacts ==
  ASSUME NEW e, EditorOK(e), NEW n \in Nat
  PROVE  /\ \A b \in Moves : Moved(e, Times(n, e, b))
         /\ \A b \in Changes : Edited(e, Times(n, e, b))
<1>1. ASSUME NEW b \in Moves PROVE Moved(e, Times(n, e, b))
  <2> DEFINE S == {f \in Editor : Moved(e, f)}
  <2>1. e \in S
    BY StaysMoved DEF EditorOK
  <2>2. ASSUME NEW f \in S PROVE Once(f, b) \in S
    <3>1. Moved(f, Once(f, b))
      BY OnceFacts DEF Moved
    <3>2. Moved(e, Once(f, b)) /\ Once(f, b) \in Editor
      BY <3>1, MovedTwice DEF Moved, EditorOK
    <3> QED BY <3>2
  <2> HIDE DEF S
  <2>3. Times(n, e, b) \in S
    BY <2>1, <2>2, TimesKeeps
  <2> QED BY <2>3 DEF S
<1>2. ASSUME NEW b \in Changes PROVE Edited(e, Times(n, e, b))
  <2> DEFINE S == {f \in Editor : Edited(e, f)}
  <2>1. e \in S
    BY StaysMoved, MovedIsEdited DEF EditorOK
  <2>2. ASSUME NEW f \in S PROVE Once(f, b) \in S
    <3>1. Edited(f, Once(f, b))
      BY OnceFacts DEF Edited
    <3>2. Edited(e, Once(f, b))
      BY <3>1, EditedTwice
    <3>3. Once(f, b) \in Editor
      BY <3>1 DEF Edited, EditorOK
    <3> QED BY <3>2, <3>3
  <2> HIDE DEF S
  <2>3. Times(n, e, b) \in S
    BY <2>1, <2>2, TimesKeeps
  <2> QED BY <2>3 DEF S
<1> QED BY <1>1, <1>2

(* A snapshot, and what restores it. *)
LEMMA SnapshotFacts ==
  ASSUME NEW e, EditorOK(e), e.mode # "insert"
  PROVE  LET f == Snapshot(e) IN
         /\ EditorOK(f) /\ f.lines = e.lines /\ f.dirty = e.dirty /\ f.quit = e.quit
         /\ f.mode = e.mode /\ f.cx = e.cx /\ f.cy = e.cy /\ f.reg = e.reg /\ f.cmd = e.cmd
         /\ f.pending = e.pending
         /\ f.undo # <<>> /\ (e.undo = <<>> => f.undo[1].lines = e.lines)
         /\ e.undo # <<>> => f.undo[1] = e.undo[1]
<1> DEFINE S == [lines : ViTexts, cx : Int, cy : Int]
           s == [lines |-> e.lines, cx |-> e.cx, cy |-> e.cy]
           u == Append(e.undo, s)
           f == [e EXCEPT !.undo = u]
<1>1. /\ e \in Editor /\ e.undo \in Seq(S) /\ s \in S /\ s.lines = e.lines /\ s.cx = e.cx
      /\ s.cy = e.cy
  BY DEF EditorOK, Editor
<1>2. InBuffer(s.lines, s.cx, s.cy, FALSE)
  BY <1>1, EditorFacts, PlacedIsInside
<1> HIDE DEF s
<1> HIDE DEF S
<1>3. /\ u \in Seq(S) /\ u # <<>> /\ Len(e.undo) \in Nat /\ DOMAIN e.undo = 1 .. Len(e.undo)
      /\ DOMAIN u = 1 .. Len(e.undo) + 1 /\ \A k \in 1 .. Len(e.undo) : u[k] = e.undo[k]
      /\ u[Len(e.undo) + 1] = s
  BY <1>1, AppendFacts
<1> HIDE DEF u
<1>4. /\ f \in Editor /\ f.lines = e.lines /\ f.dirty = e.dirty /\ f.quit = e.quit
      /\ f.mode = e.mode /\ f.cx = e.cx /\ f.cy = e.cy /\ f.reg = e.reg /\ f.cmd = e.cmd
      /\ f.pending = e.pending /\ f.undo = u
  BY <1>1, <1>3 DEF Editor, S
<1>5. Snapshot(e) = f
  BY DEF Snapshot, u, s
<1> HIDE DEF f
<1>6. \A i \in DOMAIN u : InBuffer(u[i].lines, u[i].cx, u[i].cy, FALSE)
  <2> SUFFICES ASSUME NEW i \in DOMAIN u PROVE InBuffer(u[i].lines, u[i].cx, u[i].cy, FALSE)
    OBVIOUS
  <2>1. CASE i = Len(e.undo) + 1
    BY <1>2, <1>3, <2>1
  <2>2. CASE i # Len(e.undo) + 1
    <3>1. i \in 1 .. Len(e.undo)
      BY <1>3, <2>2
    <3> QED BY <1>3, <3>1 DEF EditorOK
  <2> QED BY <2>1, <2>2
<1>7. EditorOK(f)
  BY <1>4, <1>6 DEF EditorOK
<1>8. e.undo = <<>> => u[1].lines = e.lines
  <2>1. e.undo = <<>> => Len(e.undo) = 0
    OBVIOUS
  <2> QED BY <1>1, <1>3, <2>1
<1>9. e.undo # <<>> => u[1] = e.undo[1]
  <2>1. e.undo # <<>> => Len(e.undo) > 0
    BY <1>1, EmptySeq
  <2> QED BY <1>3, <2>1
<1> QED BY <1>3, <1>4, <1>5, <1>7, <1>8, <1>9

(* What u leads back to, and what it need not lead back to.                *)
LeadsBack(e, t) ==
  /\ e.undo = <<>> => e.lines = t
  /\ e.undo # <<>> => e.undo[1].lines = t
Marked(e, t) == e.dirty \/ e.lines = t

LEMMA UndoFacts ==
  ASSUME NEW e, EditorOK(e)
  PROVE  /\ EditorOK(Undo(e)) /\ Undo(e).quit = e.quit /\ Undo(e).mode = e.mode
         /\ Undo(e).pending = e.pending
         /\ Undo(e).dirty \/ Undo(e) = e
         /\ \A t : LeadsBack(e, t) => LeadsBack(Undo(e), t)
<1> DEFINE S == [lines : ViTexts, cx : Int, cy : Int]
           s == Last(e.undo)
           u == Front(e.undo)
           f == [e EXCEPT !.undo = u, !.lines = s.lines, !.cy = s.cy, !.cx = s.cx, !.dirty = TRUE]
           g == ClampY(f)
           h == ClampX(g)
<1>1. CASE e.undo = <<>>
  BY <1>1 DEF Undo
<1>2. CASE e.undo # <<>>
  <2> DEFINE n == Len(e.undo)
  <2>1. e \in Editor /\ e.undo \in Seq(S) /\ n \in Nat \ {0} /\ DOMAIN e.undo = 1 .. n
    <3>1. e \in Editor /\ e.undo \in Seq(S)
      BY DEF EditorOK, Editor
    <3> QED BY <1>2, <3>1, EmptySeq
  <2>2. s = e.undo[n] /\ s \in S /\ InBuffer(s.lines, s.cx, s.cy, FALSE)
    <3>1. s = e.undo[n]
      BY DEF Last
    <3>2. n \in DOMAIN e.undo
      BY <2>1
    <3>3. InBuffer(e.undo[n].lines, e.undo[n].cx, e.undo[n].cy, FALSE)
      BY <3>2 DEF EditorOK
    <3>4. e.undo[n] \in S
      <4> HIDE DEF S, n
      <4> QED BY <2>1, <3>2
    <3> HIDE DEF s, n, S
    <3> QED BY <3>1, <3>3, <3>4
  <2>3. /\ u \in Seq(S) /\ Len(u) = n - 1 /\ DOMAIN u = 1 .. n - 1
        /\ \A k \in 1 .. n - 1 : u[k] = e.undo[k]
    <3> HIDE DEF S
    <3> QED BY <2>1 DEF Front
  <2>4. Undo(e) = h
    BY <1>2 DEF Undo
  <2> HIDE DEF s, u
  <2>5. s.lines \in ViTexts /\ s.lines # <<>> /\ s.cx \in Nat /\ s.cx \in Int /\ s.cy \in Int
    <3>1. s.lines \in ViTexts /\ s.cx \in Int /\ s.cy \in Int
      BY <2>2
    <3>2. /\ s.lines # <<>> /\ s.cy \in 0 .. Len(s.lines) - 1
          /\ s.cx \in 0 .. LastCol(s.lines[s.cy + 1])
      BY <2>2 DEF InBuffer
    <3> QED BY <3>1, <3>2
  <2>6. /\ f \in Editor /\ f.lines = s.lines /\ f.cx = s.cx /\ f.undo = u /\ f.dirty = TRUE
        /\ f.mode = e.mode /\ f.cmd = e.cmd /\ f.pending = e.pending /\ f.quit = e.quit
    BY <2>1, <2>3, <2>5 DEF Editor
  <2> HIDE DEF f
  <2>7. /\ g \in Editor /\ g.cy \in 0 .. Len(f.lines) - 1 /\ g.cx = f.cx /\ g.lines = f.lines
        /\ g.undo = f.undo /\ g.mode = f.mode /\ g.cmd = f.cmd /\ g.pending = f.pending
        /\ g.dirty = f.dirty /\ g.quit = f.quit
    BY <2>5, <2>6, ClampYPlaces
  <2> HIDE DEF g
  <2>8. g.cy \in 0 .. Len(g.lines) - 1 /\ g.cx \in Nat
    BY <2>5, <2>6, <2>7
  <2>9. /\ h \in Editor /\ Placed(h) /\ h.lines = g.lines /\ h.undo = g.undo /\ h.mode = g.mode
        /\ h.cmd = g.cmd /\ h.pending = g.pending /\ h.dirty = g.dirty /\ h.quit = g.quit
    BY <2>7, <2>8, ClampXPlaces
  <2> HIDE DEF h
  <2>10. h.undo = u /\ h.lines = s.lines /\ h.dirty = TRUE /\ h.mode = e.mode /\ h.quit = e.quit
         /\ h.cmd = e.cmd /\ h.pending = e.pending
    BY <2>6, <2>7, <2>9
  <2>11. EditorOK(h)
    <3>1. \A i \in DOMAIN u : InBuffer(u[i].lines, u[i].cx, u[i].cy, FALSE)
      <4>1. \A i \in 1 .. n - 1 : i \in DOMAIN e.undo
        BY <2>1
      <4> QED BY <2>3, <4>1 DEF EditorOK
    <3>2. InBuffer(h.lines, h.cx, h.cy, h.mode = "insert")
      BY <2>9, PlacedIsInside
    <3> QED BY <2>9, <2>10, <3>1, <3>2 DEF EditorOK
  <2>12. ASSUME NEW t, LeadsBack(e, t) PROVE LeadsBack(h, t)
    <3>1. e.undo[1].lines = t
      BY <1>2, <2>12 DEF LeadsBack
    <3>2. CASE n = 1
      <4>1. u = <<>>
        BY <2>3, <3>2, EmptySeq
      <4>2. s.lines = t
        BY <2>2, <3>1, <3>2
      <4> QED BY <2>10, <4>1, <4>2 DEF LeadsBack
    <3>3. CASE n # 1
      <4>1. 1 \in 1 .. n - 1 /\ n - 1 # 0
        <5> HIDE DEF n
        <5> QED BY <2>1, <3>3
      <4>2. u # <<>> /\ u[1] = e.undo[1]
        BY <2>3, <4>1, EmptySeq
      <4> QED BY <2>10, <3>1, <4>2 DEF LeadsBack
    <3> QED BY <3>2, <3>3
  <2> QED BY <2>4, <2>10, <2>11, <2>12
<1> QED BY <1>1, <1>2

LEMMA YankFacts ==
  ASSUME NEW e, EditorOK(e), NEW n \in Nat \ {0}
  PROVE  Moved(e, YankLines(e, n))
<1> DEFINE r == SubSeq(e.lines, e.cy + 1, Least(e.cy + n, Len(e.lines)))
           f == [e EXCEPT !.reg = r]
<1>1. /\ e \in Editor /\ e.lines \in ViTexts /\ e.cy \in 0 .. Len(e.lines) - 1
      /\ Len(e.lines) \in Nat \ {0}
  BY EditorFacts
<1>2. Least(e.cy + n, Len(e.lines)) \in 1 .. Len(e.lines) /\ e.cy + 1 \in 1 .. Len(e.lines)
  BY <1>1 DEF Least
<1>3. r \in ViTexts
  <2>1. \A a \in 1 .. Len(e.lines), b \in 1 .. Len(e.lines) : SubSeq(e.lines, a, b) \in Seq(Seq(Byte))
    BY <1>1 DEF ViTexts
  <2> QED BY <1>2, <2>1 DEF ViTexts
<1>4. YankLines(e, n) = f
  BY DEF YankLines
<1> HIDE DEF r
<1>5. /\ f \in Editor /\ f.lines = e.lines /\ f.cx = e.cx /\ f.cy = e.cy /\ f.mode = e.mode
      /\ f.dirty = e.dirty /\ f.undo = e.undo /\ f.cmd = e.cmd /\ f.pending = e.pending
      /\ f.quit = e.quit
  BY <1>1, <1>3 DEF Editor
<1> HIDE DEF f
<1>6. EditorOK(f)
  BY <1>5 DEF EditorOK
<1> QED BY <1>4, <1>5, <1>6 DEF Moved

(* Opening lines, and the keys of insert mode. *)
LEMMA OpenEdits ==
  ASSUME NEW e, EditorOK(e), e.mode = "normal"
  PROVE  Edited(e, OpenBelow(e)) /\ Edited(e, OpenAbove(e))
<1>1. /\ e \in Editor /\ e.lines \in ViTexts /\ e.cy \in 0 .. Len(e.lines) - 1
      /\ Len(e.lines) \in Nat \ {0} /\ e.cmd = <<>>
  BY EditorFacts DEF EditorOK
<1> DEFINE new == << <<>> >>
<1>2. new \in Seq(Seq(Byte)) /\ Len(new) = 1
  <2>1. <<>> \in Seq(Byte)
    OBVIOUS
  <2> QED BY <2>1
<1> HIDE DEF new
<1>3. ASSUME NEW i \in {e.cy, e.cy + 1}
      PROVE  LET ls == InsertLines(e.lines, i, new)
             IN  Edited(e, [e EXCEPT !.lines = ls, !.cx = 0, !.cy = i, !.mode = "insert", !.dirty = TRUE])
  <2> DEFINE ls == InsertLines(e.lines, i, new)
  <2>1. i \in 0 .. Len(e.lines)
    BY <1>1
  <2>2. ls \in ViTexts /\ Len(ls) = Len(e.lines) + 1
    <3> DEFINE S == Seq(Byte)
    <3>1. e.lines \in Seq(S) /\ new \in Seq(S)
      BY <1>1, <1>2 DEF ViTexts
    <3> HIDE DEF S
    <3>2. InsertLines(e.lines, i, new) \in Seq(S)
      BY <2>1, <3>1, InsertFacts
    <3>3. Len(InsertLines(e.lines, i, new)) = Len(e.lines) + Len(new)
      BY <2>1, <3>1, InsertFacts
    <3>4. ls \in ViTexts
      BY <3>2 DEF S, ViTexts
    <3> QED BY <1>2, <3>3, <3>4
  <2> HIDE DEF ls
  <2>3. i \in 0 .. Len(ls) - 1
    BY <1>1, <2>1, <2>2
  <2>4. ls # <<>> /\ Len(ls[i + 1]) \in Nat
    BY <2>2, <2>3, LineFacts
  <2>5. Edited(e, [e EXCEPT !.lines = ls, !.cx = 0, !.cy = i, !.mode = "insert", !.dirty = TRUE])
    <3>1. 0 <= IF "insert" = "insert" THEN Len(ls[i + 1]) ELSE LastCol(ls[i + 1])
      BY <2>4
    <3> QED BY <1>1, <2>2, <2>3, <2>4, <3>1, LinesChanged
  <2> QED BY <2>5 DEF ls
<1>4. OpenBelow(e) = [e EXCEPT !.lines = InsertLines(e.lines, e.cy + 1, new), !.cx = 0, !.cy = e.cy + 1,
                               !.mode = "insert", !.dirty = TRUE]
  BY <1>1 DEF OpenBelow, Editor, new
<1>5. OpenAbove(e) = [e EXCEPT !.lines = InsertLines(e.lines, e.cy, new), !.cx = 0, !.cy = e.cy,
                               !.mode = "insert", !.dirty = TRUE]
  BY <1>1 DEF OpenAbove, Editor, new
<1>6. Edited(e, OpenBelow(e))
  BY <1>3, <1>4
<1>7. Edited(e, OpenAbove(e))
  BY <1>3, <1>5
<1> QED BY <1>6, <1>7

LEMMA ShortSeqs ==
  ASSUME NEW S, NEW a \in S, NEW b \in S
  PROVE  <<b>> \in Seq(S) /\ Len(<<b>>) = 1 /\ <<a, b>> \in Seq(S) /\ Len(<<a, b>>) = 2
  OBVIOUS

LEMMA EncodedFacts ==
  ASSUME NEW b \in Byte PROVE Encoded(b) \in Seq(Byte) /\ Len(Encoded(b)) \in {1, 2}
<1>1. "lead" \in Byte
  BY Zenon DEF Byte
<1>2. /\ <<b>> \in Seq(Byte) /\ Len(<<b>>) = 1
      /\ <<"lead", b>> \in Seq(Byte) /\ Len(<<"lead", b>>) = 2
  BY <1>1, ShortSeqs, Zenon
<1>3. Encoded(b) = <<b>> \/ Encoded(b) = <<"lead", b>>
  BY Zenon DEF Encoded
<1>4. CASE Encoded(b) = <<b>>
  BY <1>2, <1>4, Zenon
<1>5. CASE Encoded(b) = <<"lead", b>>
  BY <1>2, <1>5, Zenon
<1> QED BY <1>3, <1>4, <1>5

(* A line that is replaced in insert mode. *)
LEMMA LineReplaced ==
  ASSUME NEW e, EditorOK(e), e.mode = "insert", NEW k \in Seq(Byte), NEW x \in 0 .. Len(k)
  PROVE  Edited(e, [e EXCEPT !.lines = [e.lines EXCEPT ![e.cy + 1] = k], !.dirty = TRUE, !.cx = x])
<1> DEFINE ls == [e.lines EXCEPT ![e.cy + 1] = k]
<1>1. /\ e \in Editor /\ e.lines \in ViTexts /\ e.cy \in 0 .. Len(e.lines) - 1
      /\ Len(e.lines) \in Nat \ {0} /\ e.cmd = <<>>
  BY EditorFacts DEF EditorOK
<1>2. e.cy + 1 \in 1 .. Len(e.lines)
  BY <1>1
<1>3. ls \in ViTexts /\ Len(ls) = Len(e.lines) /\ ls[e.cy + 1] = k
  <2>1. /\ ls \in Seq(Seq(Byte)) /\ Len(ls) = Len(e.lines)
        /\ \A j \in 1 .. Len(e.lines) : ls[j] = IF j = e.cy + 1 THEN k ELSE e.lines[j]
    BY <1>1, <1>2, ExceptSeq DEF ViTexts
  <2> HIDE DEF ls
  <2> QED BY <1>2, <2>1 DEF ViTexts
<1>4. [e EXCEPT !.lines = ls, !.dirty = TRUE, !.cx = x] =
        [e EXCEPT !.lines = ls, !.cx = x, !.cy = e.cy, !.mode = "insert", !.dirty = TRUE]
  BY <1>1 DEF Editor
<1> HIDE DEF ls
<1>5. ls # <<>> /\ e.cy \in 0 .. Len(ls) - 1
  BY <1>1, <1>3, LineFacts
<1>6. x \in Nat /\ x <= IF "insert" = "insert" THEN Len(ls[e.cy + 1]) ELSE LastCol(ls[e.cy + 1])
  BY <1>3
<1>7. Edited(e, [e EXCEPT !.lines = ls, !.cx = x, !.cy = e.cy, !.mode = "insert", !.dirty = TRUE])
  BY <1>1, <1>3, <1>5, <1>6, LinesChanged
<1> QED BY <1>4, <1>7 DEF ls

LEMMA InsertRuneEdits ==
  ASSUME NEW e, EditorOK(e), e.mode = "insert", NEW b \in Byte
  PROVE  Edited(e, InsertRune(e, b))
<1> DEFINE l == Line(e)
           c == Least(e.cx, Len(l))
           k == (Take(l, c) \o Encoded(b)) \o From(l, c)
<1>1. e \in Editor /\ l \in Seq(Byte) /\ Len(l) \in Nat /\ e.cx \in 0 .. Len(l)
  BY EditorFacts
<1>2. c \in 0 .. Len(l) /\ c \in Nat
  BY <1>1 DEF Least
<1>3. InsertRune(e, b) = [SetLine(e, k) EXCEPT !.cx = c + 1]
  BY DEF InsertRune
<1> HIDE DEF c, l
<1>4. k \in Seq(Byte) /\ c + 1 \in 0 .. Len(k)
  <2> DEFINE t == Take(l, c) \o Encoded(b)
             u == From(l, c)
  <2>1. /\ Take(l, c) \in Seq(Byte) /\ Len(Take(l, c)) = c
        /\ u \in Seq(Byte) /\ Len(u) = Len(l) - c
    BY <1>1, <1>2, TakeFrom
  <2>2. /\ t \in Seq(Byte) /\ Len(t) = c + Len(Encoded(b)) /\ Len(Encoded(b)) \in {1, 2}
    BY <2>1, EncodedFacts, JoinFacts
  <2> HIDE DEF t, u
  <2>3. t \o u \in Seq(Byte) /\ Len(t \o u) = Len(t) + Len(u) /\ Len(u) \in Nat
    BY <2>1, <2>2, JoinFacts
  <2>4. k = t \o u
    BY DEF t, u
  <2> HIDE DEF k
  <2>5. c + 1 \in 0 .. Len(t \o u)
    <3>1. \A a \in Nat, n \in {1, 2}, m \in Nat : a + 1 \in 0 .. (a + n) + m
      OBVIOUS
    <3>2. Len(t \o u) = (c + Len(Encoded(b))) + Len(u)
      BY <2>2, <2>3
    <3>3. Len(Encoded(b)) \in {1, 2} /\ Len(u) \in Nat /\ c \in Nat
      BY <1>2, <2>2, <2>3
    <3>4. c + 1 \in 0 .. (c + Len(Encoded(b))) + Len(u)
      BY <3>1, <3>3
    <3> QED BY <3>2, <3>4
  <2> QED BY <2>3, <2>4, <2>5
<1> HIDE DEF k
<1>5. [SetLine(e, k) EXCEPT !.cx = c + 1] =
        [e EXCEPT !.lines = [e.lines EXCEPT ![e.cy + 1] = k], !.dirty = TRUE, !.cx = c + 1]
  BY DEF SetLine
<1>6. Edited(e, [e EXCEPT !.lines = [e.lines EXCEPT ![e.cy + 1] = k], !.dirty = TRUE, !.cx = c + 1])
  BY <1>4, LineReplaced
<1> QED BY <1>3, <1>5, <1>6

LEMMA SplitLineEdits ==
  ASSUME NEW e, EditorOK(e), e.mode = "insert"
  PROVE  Edited(e, SplitLine(e))
<1> DEFINE l == Line(e)
           c == Least(e.cx, Len(l))
           new == <<Take(l, c), From(l, c)>>
           ls == (Take(e.lines, e.cy) \o new) \o From(e.lines, e.cy + 1)
<1>1. /\ e \in Editor /\ e.lines \in ViTexts /\ e.cy \in 0 .. Len(e.lines) - 1
      /\ Len(e.lines) \in Nat \ {0} /\ e.cmd = <<>>
      /\ l \in Seq(Byte) /\ Len(l) \in Nat /\ e.cx \in 0 .. Len(l)
  BY EditorFacts DEF EditorOK
<1>2. c \in 0 .. Len(l)
  BY <1>1 DEF Least
<1>3. SplitLine(e) = [e EXCEPT !.lines = ls, !.cy = e.cy + 1, !.cx = 0, !.dirty = TRUE]
  BY DEF SplitLine
<1> HIDE DEF c, l
<1>4. new \in Seq(Seq(Byte)) /\ Len(new) = 2
  <2>1. Take(l, c) \in Seq(Byte) /\ From(l, c) \in Seq(Byte)
    BY <1>1, <1>2, TakeFrom
  <2> QED BY <2>1
<1> HIDE DEF new
<1>5. ls \in ViTexts /\ Len(ls) = Len(e.lines) + 1
  <2> DEFINE S == Seq(Byte)
             t == Take(e.lines, e.cy)
             u == From(e.lines, e.cy + 1)
  <2>0. e.lines \in Seq(S) /\ new \in Seq(S) /\ e.cy \in Nat
    BY <1>1, <1>4 DEF ViTexts
  <2> HIDE DEF S
  <2>1. e.cy \in 0 .. Len(e.lines) /\ e.cy + 1 \in 0 .. Len(e.lines)
    BY <1>1
  <2>2. t \in Seq(S) /\ Len(t) = e.cy /\ u \in Seq(S) /\ Len(u) = Len(e.lines) - (e.cy + 1)
    BY <2>0, <2>1, TakeFrom
  <2>3. ls = (t \o new) \o u
    OBVIOUS
  <2> HIDE DEF t, u, ls
  <2>4. t \o new \in Seq(S) /\ Len(t \o new) = Len(t) + 2
    BY <1>4, <2>0, <2>2, JoinFacts
  <2> DEFINE v == t \o new
  <2> HIDE DEF v
  <2>5. v \in Seq(S) /\ Len(v) = Len(t) + 2
    BY <2>4 DEF v
  <2>6. v \o u \in Seq(S) /\ Len(v \o u) = Len(v) + Len(u)
    BY <2>2, <2>5, JoinFacts
  <2>7. \A a \in Nat, d \in Nat : (a + 2) + (d - (a + 1)) = d + 1
    OBVIOUS
  <2>8. Len(v \o u) = Len(e.lines) + 1
    <3>1. Len(v \o u) = (e.cy + 2) + (Len(e.lines) - (e.cy + 1))
      BY <2>2, <2>5, <2>6
    <3>2. e.cy \in Nat /\ Len(e.lines) \in Nat
      BY <1>1, <2>0
    <3>3. (e.cy + 2) + (Len(e.lines) - (e.cy + 1)) = Len(e.lines) + 1
      BY <2>7, <3>2
    <3> QED BY <3>1, <3>3
  <2> QED BY <2>3, <2>6, <2>8 DEF v, S, ViTexts
<1>6. [e EXCEPT !.lines = ls, !.cy = e.cy + 1, !.cx = 0, !.dirty = TRUE] =
        [e EXCEPT !.lines = ls, !.cx = 0, !.cy = e.cy + 1, !.mode = "insert", !.dirty = TRUE]
  BY <1>1 DEF Editor
<1> HIDE DEF ls
<1>7. e.cy + 1 \in 0 .. Len(ls) - 1
  BY <1>1, <1>5
<1>8. ls # <<>> /\ Len(ls[(e.cy + 1) + 1]) \in Nat
  BY <1>5, <1>7, LineFacts
<1>9. Edited(e, [e EXCEPT !.lines = ls, !.cx = 0, !.cy = e.cy + 1, !.mode = "insert", !.dirty = TRUE])
  <2>1. 0 <= IF "insert" = "insert" THEN Len(ls[(e.cy + 1) + 1]) ELSE LastCol(ls[(e.cy + 1) + 1])
    BY <1>8
  <2> QED BY <1>1, <1>5, <1>7, <1>8, <2>1, LinesChanged
<1> QED BY <1>3, <1>6, <1>9

LEMMA BackspaceEdits ==
  ASSUME NEW e, EditorOK(e), e.mode = "insert"
  PROVE  Edited(e, Backspace(e))
<1> DEFINE l == Line(e)
           prev == e.lines[e.cy]
<1>1. /\ e \in Editor /\ e.lines \in ViTexts /\ e.cy \in 0 .. Len(e.lines) - 1
      /\ Len(e.lines) \in Nat \ {0} /\ e.cmd = <<>>
      /\ l \in Seq(Byte) /\ Len(l) \in Nat /\ e.cx \in 0 .. Len(l)
  BY EditorFacts DEF EditorOK
<1>2. CASE e.cx > 0
  <2> DEFINE k == Take(l, e.cx - 1) \o From(l, e.cx)
  <2>1. Backspace(e) = [SetLine(e, k) EXCEPT !.cx = @ - 1]
    BY <1>2 DEF Backspace
  <2> HIDE DEF l
  <2>2. k \in Seq(Byte) /\ e.cx - 1 \in 0 .. Len(k)
    <3> DEFINE t == Take(l, e.cx - 1)
               u == From(l, e.cx)
    <3>1. e.cx - 1 \in 0 .. Len(l) /\ e.cx - 1 \in Nat
      BY <1>1, <1>2
    <3>2. t \in Seq(Byte) /\ Len(t) = e.cx - 1 /\ u \in Seq(Byte) /\ Len(u) = Len(l) - e.cx
      <4>1. l \in Seq(Byte) /\ e.cx \in 0 .. Len(l)
        BY <1>1
      <4>2. t \in Seq(Byte) /\ Len(t) = e.cx - 1
        BY <3>1, <4>1, TakeFrom
      <4>3. u \in Seq(Byte) /\ Len(u) = Len(l) - e.cx
        BY <4>1, TakeFrom
      <4> QED BY <4>2, <4>3
    <3>3. k = t \o u
      OBVIOUS
    <3> HIDE DEF t, u, k
    <3>4. t \o u \in Seq(Byte) /\ Len(t \o u) = Len(t) + Len(u) /\ Len(u) \in Nat
      BY <3>2, JoinFacts
    <3>5. e.cx - 1 \in 0 .. Len(t \o u)
      BY <3>1, <3>2, <3>4
    <3> QED BY <3>3, <3>4, <3>5
  <2> HIDE DEF k
  <2>3. [SetLine(e, k) EXCEPT !.cx = @ - 1] =
          [e EXCEPT !.lines = [e.lines EXCEPT ![e.cy + 1] = k], !.dirty = TRUE, !.cx = e.cx - 1]
    BY <1>1 DEF SetLine, Editor
  <2>4. Edited(e, [e EXCEPT !.lines = [e.lines EXCEPT ![e.cy + 1] = k], !.dirty = TRUE, !.cx = e.cx - 1])
    BY <2>2, LineReplaced
  <2> QED BY <2>1, <2>3, <2>4
<1>3. CASE e.cx = 0 /\ e.cy > 0
  <2> DEFINE k  == prev \o l
             ls == (Take(e.lines, e.cy - 1) \o <<k>>) \o From(e.lines, e.cy + 1)
  <2>1. Backspace(e) = [e EXCEPT !.lines = ls, !.cx = Len(prev), !.cy = e.cy - 1, !.dirty = TRUE]
    <3>1. ~(e.cx > 0)
      BY <1>3
    <3> QED BY <1>3, <3>1 DEF Backspace
  <2>2. e.cy - 1 \in 0 .. Len(e.lines) - 1 /\ prev \in Seq(Byte)
    <3>1. e.cy - 1 \in 0 .. Len(e.lines) - 1 /\ e.cy \in 1 .. Len(e.lines)
      BY <1>1, <1>3
    <3> QED BY <1>1, <3>1 DEF ViTexts
  <2> HIDE DEF prev, l
  <2>3. k \in Seq(Byte) /\ Len(prev) \in Nat /\ Len(prev) <= Len(k)
    BY <1>1, <2>2, JoinFacts
  <2> HIDE DEF k
  <2>4. ls \in ViTexts /\ Len(ls) = Len(e.lines) - 1 /\ ls[e.cy] = k
    <3> DEFINE S == Seq(Byte)
               t == Take(e.lines, e.cy - 1)
               u == From(e.lines, e.cy + 1)
               v == Append(t, k)
    <3>1. e.lines \in Seq(S) /\ k \in S
      BY <1>1, <2>3 DEF ViTexts
    <3> HIDE DEF S
    <3>2. /\ e.cy - 1 \in 0 .. Len(e.lines) /\ e.cy + 1 \in 0 .. Len(e.lines) /\ e.cy \in Nat
          /\ Len(e.lines) \in Nat
      BY <1>1, <1>3
    <3>3. t \in Seq(S) /\ Len(t) = e.cy - 1 /\ u \in Seq(S) /\ Len(u) = Len(e.lines) - (e.cy + 1)
      BY <3>1, <3>2, TakeFrom
    <3>4. ls = (t \o <<k>>) \o u
      OBVIOUS
    <3> HIDE DEF t, u, ls
    <3>5. v \in Seq(S) /\ Len(v) = e.cy /\ v[e.cy] = k
      <4>1. v \in Seq(S) /\ Len(v) = Len(t) + 1 /\ v[Len(t) + 1] = k
        BY <3>1, <3>3, AppendFacts
      <4>2. Len(t) + 1 = e.cy
        BY <3>2, <3>3
      <4> QED BY <4>1, <4>2
    <3>6. t \o <<k>> = v
      BY <3>1, <3>3
    <3> HIDE DEF v
    <3>7. v \o u \in Seq(S) /\ Len(v \o u) = Len(v) + Len(u) /\ (v \o u)[e.cy] = v[e.cy]
      <4>1. e.cy \in 1 .. Len(v)
        BY <1>3, <3>2, <3>5
      <4>2. v \o u \in Seq(S) /\ Len(v \o u) = Len(v) + Len(u)
        BY <3>3, <3>5, JoinFacts
      <4>3. (v \o u)[e.cy] = v[e.cy]
        BY <3>3, <3>5, <4>1, ConcatProperties
      <4> QED BY <4>2, <4>3
    <3>8. Len(v \o u) = Len(e.lines) - 1
      <4>1. \A a \in Nat, d \in Nat : a + (d - (a + 1)) = d - 1
        OBVIOUS
      <4>2. Len(v \o u) = e.cy + (Len(e.lines) - (e.cy + 1))
        BY <3>3, <3>5, <3>7
      <4> QED BY <3>2, <4>1, <4>2
    <3> QED BY <3>4, <3>5, <3>6, <3>7, <3>8 DEF S, ViTexts
  <2>5. [e EXCEPT !.lines = ls, !.cx = Len(prev), !.cy = e.cy - 1, !.dirty = TRUE] =
          [e EXCEPT !.lines = ls, !.cx = Len(prev), !.cy = e.cy - 1, !.mode = "insert", !.dirty = TRUE]
    BY <1>1 DEF Editor
  <2> HIDE DEF ls
  <2>6. e.cy - 1 \in 0 .. Len(ls) - 1
    BY <1>1, <1>3, <2>4
  <2>7. ls # <<>> /\ (e.cy - 1) + 1 = e.cy
    BY <1>1, <2>4, <2>6, LineFacts
  <2>8. Edited(e, [e EXCEPT !.lines = ls, !.cx = Len(prev), !.cy = e.cy - 1, !.mode = "insert", !.dirty = TRUE])
    <3>1. Len(prev) <= IF "insert" = "insert" THEN Len(ls[(e.cy - 1) + 1]) ELSE LastCol(ls[(e.cy - 1) + 1])
      BY <2>3, <2>4, <2>7
    <3> QED BY <1>1, <2>3, <2>4, <2>6, <2>7, <3>1, LinesChanged
  <2> QED BY <2>1, <2>5, <2>8
<1>4. CASE ~(e.cx > 0) /\ ~(e.cx = 0 /\ e.cy > 0)
  <2>1. Backspace(e) = e
    BY <1>4 DEF Backspace
  <2>2. Edited(e, e)
    BY StaysMoved, MovedIsEdited
  <2> QED BY <2>1, <2>2
<1> QED BY <1>2, <1>3, <1>4

(* What a session keeps between two keys: only the keys of insert mode     *)
(* need no snapshot of their own, and no command waits for its second key  *)
(* but in normal mode.  (The empty string is named for the provers.)       *)
NoKey == ""
Steady(e) ==
  /\ EditorOK(e) /\ (e.mode = "insert" => e.undo # <<>>)
  /\ e.mode # "normal" => e.pending = NoKey
Noted(e, f) == Steady(f) /\ (f.dirty \/ (f.lines = e.lines /\ ~e.dirty))
Keyed(e, f) == Noted(e, f) /\ \A t : LeadsBack(e, t) => LeadsBack(f, t)
Calm(e, f)  == Keyed(e, f) /\ f.quit = e.quit

LEMMA NotedTwice ==
  ASSUME NEW e, NEW f, NEW g, Noted(e, f), Noted(f, g) PROVE Noted(e, g)
<1>1. f.dirty \in BOOLEAN /\ g.dirty \in BOOLEAN
  BY DEF Noted, Steady, EditorOK, Editor
<1> QED BY <1>1 DEF Noted

LEMMA KeyedTwice ==
  ASSUME NEW e, NEW f, NEW g, Keyed(e, f), Keyed(f, g) PROVE Keyed(e, g)
  BY NotedTwice DEF Keyed

LEMMA CalmTwice ==
  ASSUME NEW e, NEW f, NEW g, Calm(e, f), Calm(f, g) PROVE Calm(e, g)
  BY KeyedTwice DEF Calm

LEMMA MovedIsCalm ==
  ASSUME NEW e, Steady(e), NEW f, Moved(e, f) PROVE Calm(e, f)
<1>1. e.dirty \in BOOLEAN
  BY DEF Steady, EditorOK, Editor
<1>2. /\ EditorOK(f) /\ f.lines = e.lines /\ f.dirty = e.dirty /\ f.undo = e.undo
      /\ f.quit = e.quit /\ f.mode = e.mode /\ f.pending = e.pending
  BY DEF Moved
<1>3. Steady(f)
  BY <1>2 DEF Steady
<1>4. \A t : LeadsBack(e, t) => LeadsBack(f, t)
  BY <1>2 DEF LeadsBack
<1> QED BY <1>1, <1>2, <1>3, <1>4 DEF Calm, Keyed, Noted

LEMMA EditedIsCalm ==
  ASSUME NEW e, Steady(e), e.undo # <<>>, e.pending = NoKey, NEW f, Edited(e, f)
  PROVE  Calm(e, f) /\ f.undo # <<>> /\ f.pending = NoKey
<1>1. /\ EditorOK(f) /\ f.undo = e.undo /\ f.quit = e.quit /\ f.pending = e.pending
      /\ f.dirty \/ (f.lines = e.lines /\ ~e.dirty)
  BY DEF Edited
<1>2. Steady(f)
  BY <1>1 DEF Steady
<1>3. \A t : LeadsBack(e, t) => LeadsBack(f, t)
  BY <1>1 DEF LeadsBack
<1> QED BY <1>1, <1>2, <1>3 DEF Calm, Keyed, Noted

(* The editor with another mode or other keys before it, but the same      *)
(* buffer.                                                                 *)
LEMMA SameBuffer ==
  ASSUME NEW e, Steady(e), NEW f \in Editor, f.lines = e.lines, f.cx = e.cx, f.cy = e.cy,
         f.undo = e.undo, f.dirty = e.dirty, (f.mode = "insert") = (e.mode = "insert"),
         f.mode # "command" => f.cmd = <<>>, f.mode # "normal" => f.pending = NoKey
  PROVE  Steady(f) /\ Keyed(e, f) /\ (f.quit = e.quit => Calm(e, f))
<1>1. EditorOK(e) /\ e.dirty \in BOOLEAN
  BY DEF Steady, EditorOK, Editor
<1>2. EditorOK(f)
  BY <1>1 DEF EditorOK
<1>3. Steady(f)
  BY <1>2 DEF Steady
<1>4. \A t : LeadsBack(e, t) => LeadsBack(f, t)
  BY DEF LeadsBack
<1>5. Keyed(e, f)
  BY <1>1, <1>3, <1>4 DEF Keyed, Noted
<1> QED BY <1>3, <1>5 DEF Calm

LEMMA SnapshotIsCalm ==
  ASSUME NEW e, Steady(e), e.mode = "normal"
  PROVE  LET f == Snapshot(e) IN
         /\ Calm(e, f) /\ Steady(f) /\ EditorOK(f) /\ f.undo # <<>> /\ f.mode = "normal"
         /\ f.pending = e.pending /\ f.lines = e.lines /\ f.cx = e.cx /\ f.cy = e.cy
<1> DEFINE f == Snapshot(e)
<1>1. EditorOK(e) /\ e.dirty \in BOOLEAN /\ e.mode # "insert"
  BY DEF Steady, EditorOK, Editor
<1>2. /\ EditorOK(f) /\ f.lines = e.lines /\ f.dirty = e.dirty /\ f.quit = e.quit
      /\ f.mode = e.mode /\ f.cx = e.cx /\ f.cy = e.cy /\ f.pending = e.pending
      /\ f.undo # <<>> /\ (e.undo = <<>> => f.undo[1].lines = e.lines)
      /\ e.undo # <<>> => f.undo[1] = e.undo[1]
  BY <1>1, SnapshotFacts
<1> HIDE DEF f
<1>3. Steady(f)
  BY <1>2 DEF Steady
<1>4. \A t : LeadsBack(e, t) => LeadsBack(f, t)
  BY <1>2 DEF LeadsBack
<1> QED BY <1>1, <1>2, <1>3, <1>4 DEF Calm, Keyed, Noted, f

(* What starts insert mode. *)
LEMMA StartsInsert ==
  ASSUME NEW e, Steady(e), e.mode = "normal", e.undo # <<>>, e.pending = NoKey, NEW x \in 0 .. Len(Line(e))
  PROVE  Calm(e, [e EXCEPT !.mode = "insert", !.cx = x])
<1> DEFINE f == [e EXCEPT !.mode = "insert", !.cx = x]
<1>1. /\ EditorOK(e) /\ e \in Editor /\ x \in Int /\ e.cmd = <<>> /\ e.dirty \in BOOLEAN
      /\ e.lines # <<>> /\ e.cy \in 0 .. Len(e.lines) - 1
  <2>1. EditorOK(e)
    BY DEF Steady
  <2>2. e \in Editor /\ e.cmd = <<>>
    BY <2>1 DEF EditorOK
  <2>3. e.lines # <<>> /\ e.cy \in 0 .. Len(e.lines) - 1 /\ Len(Line(e)) \in Nat
    BY <2>1, EditorFacts
  <2>4. e.dirty \in BOOLEAN /\ x \in Int
    BY <2>2, <2>3 DEF Editor
  <2> QED BY <2>1, <2>2, <2>3, <2>4
<1>2. /\ f \in Editor /\ f.lines = e.lines /\ f.cx = x /\ f.cy = e.cy /\ f.undo = e.undo
      /\ f.dirty = e.dirty /\ f.mode = "insert" /\ f.cmd = e.cmd /\ f.pending = e.pending
      /\ f.quit = e.quit
  BY <1>1 DEF Editor
<1> HIDE DEF f
<1>3. InBuffer(f.lines, f.cx, f.cy, f.mode = "insert")
  BY <1>1, <1>2 DEF InBuffer, Line
<1>4. Steady(f)
  BY <1>1, <1>2, <1>3 DEF Steady, EditorOK
<1>5. \A t : LeadsBack(e, t) => LeadsBack(f, t)
  BY <1>2 DEF LeadsBack
<1>6. Calm(e, f)
  BY <1>1, <1>2, <1>4, <1>5 DEF Calm, Keyed, Noted
<1> QED BY <1>6 DEF f

(* Normal mode, the second key of a command. *)
LEMMA CountFacts ==
  ASSUME NEW e \in Editor PROVE CountOf(e) \in Nat \ {0}
<1>1. e.count \in Nat
  BY DEF Editor
<1> QED BY <1>1 DEF CountOf

LEMMA SecondKeyFacts ==
  ASSUME NEW e, Steady(e), e.mode = "normal", NEW b
  PROVE  Keyed(e, SecondKey(e, b))
<1> DEFINE n == CountOf(e)
           f == [e EXCEPT !.pending = NoKey, !.count = 0]
<1>1. e \in Editor /\ EditorOK(e) /\ e.cmd = <<>> /\ n \in Nat \ {0} /\ n \in Nat
  <2>1. e \in Editor /\ EditorOK(e) /\ e.cmd = <<>>
    BY DEF Steady, EditorOK
  <2> QED BY <2>1, CountFacts
<1>2. /\ f \in Editor /\ f.lines = e.lines /\ f.cx = e.cx /\ f.cy = e.cy /\ f.undo = e.undo
      /\ f.dirty = e.dirty /\ f.mode = e.mode /\ f.cmd = e.cmd /\ f.pending = NoKey
      /\ f.quit = e.quit
  <2>1. NoKey \in Byte
    BY Zenon DEF Byte, NoKey
  <2> QED BY <1>1, <2>1 DEF Editor
<1>3. SecondKey(e, b) =
        CASE e.pending = "d" /\ b = "d" -> Times(n, YankLines(Snapshot(f), n), "d")
          [] e.pending = "y" /\ b = "y" -> YankLines(f, n)
          [] e.pending = "g" /\ b = "g" -> [f EXCEPT !.cy = 0, !.cx = 0]
          [] e.pending = "Z" /\ b = "Z" -> [f EXCEPT !.save = TRUE, !.quit = TRUE]
          [] OTHER -> f
  BY Zenon DEF SecondKey, NoKey
<1> HIDE DEF f, n
<1>4. Steady(f) /\ Keyed(e, f) /\ EditorOK(f) /\ f.mode = "normal"
  <2>1. Steady(f) /\ Keyed(e, f)
    BY <1>1, <1>2, SameBuffer
  <2> QED BY <1>2, <2>1 DEF Steady
<1>5. Keyed(f, Times(n, YankLines(Snapshot(f), n), "d"))
  <2> DEFINE s == Snapshot(f)
             y == YankLines(s, n)
             d == Times(n, y, "d")
  <2>1. Calm(f, s) /\ Steady(s) /\ EditorOK(s) /\ s.undo # <<>> /\ s.pending = NoKey
    BY <1>2, <1>4, SnapshotIsCalm
  <2> HIDE DEF s
  <2>2. Moved(s, y) /\ Calm(s, y)
    BY <1>1, <2>1, YankFacts, MovedIsCalm
  <2>3. Steady(y) /\ EditorOK(y) /\ y.undo # <<>> /\ y.pending = NoKey
    BY <2>1, <2>2 DEF Moved, Calm, Keyed, Noted
  <2> HIDE DEF y
  <2>4. Edited(y, d)
    <3>1. "d" \in Changes
      BY DEF Changes
    <3> QED BY <1>1, <2>3, <3>1, TimesFacts
  <2>5. Calm(y, d)
    BY <2>3, <2>4, EditedIsCalm
  <2> HIDE DEF d
  <2>6. Keyed(f, s) /\ Keyed(s, y) /\ Keyed(y, d)
    BY <2>1, <2>2, <2>5 DEF Calm
  <2>7. Keyed(f, d)
    BY <2>6, KeyedTwice
  <2> QED BY <2>7 DEF d, y, s
<1>6. Keyed(f, YankLines(f, n))
  BY <1>1, <1>4, YankFacts, MovedIsCalm DEF Calm
<1>7. Keyed(f, [f EXCEPT !.cy = 0, !.cx = 0])
  <2>1. 0 \in 0 .. Len(f.lines) - 1 /\ f.lines \in ViTexts
    <3>1. f.lines \in ViTexts /\ Len(f.lines) \in Nat \ {0}
      BY <1>4, EditorFacts
    <3>2. 0 \in 0 .. Len(f.lines) - 1
      BY <3>1
    <3> QED BY <3>1, <3>2
  <2>2. 0 \in 0 .. LastCol(f.lines[0 + 1])
    <3>1. \A k \in ViTexts : \A y \in 0 .. Len(k) - 1 : 0 \in 0 .. LastCol(k[y + 1])
      BY LineFacts
    <3> QED BY <2>1, <3>1, Zenon
  <2>3. Moved(f, [f EXCEPT !.cy = 0, !.cx = 0])
    BY <1>4, <2>1, <2>2, MovedToLine
  <2> QED BY <1>4, <2>3, MovedIsCalm DEF Calm
<1>8. Keyed(f, [f EXCEPT !.save = TRUE, !.quit = TRUE])
  <2> DEFINE g == [f EXCEPT !.save = TRUE, !.quit = TRUE]
  <2>1. /\ g \in Editor /\ g.lines = f.lines /\ g.cx = f.cx /\ g.cy = f.cy /\ g.undo = f.undo
        /\ g.dirty = f.dirty /\ g.mode = f.mode /\ g.cmd = f.cmd /\ g.pending = f.pending
    BY <1>2 DEF Editor
  <2> HIDE DEF g
  <2>2. Keyed(f, g)
    BY <1>1, <1>2, <1>4, <2>1, SameBuffer
  <2> QED BY <2>2 DEF g
<1>9. SecondKey(e, b) = f \/ Keyed(f, SecondKey(e, b))
  <2>1. CASE e.pending = "d" /\ b = "d"
    BY <1>3, <1>5, <2>1
  <2>2. CASE e.pending = "y" /\ b = "y"
    BY <1>3, <1>6, <2>2
  <2>3. CASE e.pending = "g" /\ b = "g"
    BY <1>3, <1>7, <2>3
  <2>4. CASE e.pending = "Z" /\ b = "Z"
    BY <1>3, <1>8, <2>4
  <2>5. CASE /\ ~(e.pending = "d" /\ b = "d") /\ ~(e.pending = "y" /\ b = "y")
             /\ ~(e.pending = "g" /\ b = "g") /\ ~(e.pending = "Z" /\ b = "Z")
    BY <1>3, <2>5
  <2> QED BY <2>1, <2>2, <2>3, <2>4, <2>5
<1> QED BY <1>4, <1>9, KeyedTwice


(* Normal mode, the other keys. *)
LEMMA NormalFacts ==
  ASSUME NEW e, Steady(e), e.mode = "normal", e.pending = NoKey, NEW b
  PROVE  Calm(e, NormalCommand(e, b))
<1> DEFINE n == CountOf(e)
           f == [e EXCEPT !.count = 0]
           s == Snapshot(f)
<1>1. e \in Editor /\ EditorOK(e) /\ e.cmd = <<>> /\ n \in Nat \ {0} /\ n \in Nat
  <2>1. e \in Editor /\ EditorOK(e) /\ e.cmd = <<>>
    BY DEF Steady, EditorOK
  <2> QED BY <2>1, CountFacts
<1>2. /\ f \in Editor /\ f.lines = e.lines /\ f.cx = e.cx /\ f.cy = e.cy /\ f.undo = e.undo
      /\ f.dirty = e.dirty /\ f.mode = e.mode /\ f.cmd = e.cmd /\ f.pending = e.pending
      /\ f.quit = e.quit
  BY <1>1 DEF Editor
<1>3. NormalCommand(e, b) =
        CASE b \in Moves -> Times(n, f, b)
          [] b \in {"x", "p", "P"} -> Times(n, s, b)
          [] b = "0" -> Home(f)
          [] b = "$" -> End(f)
          [] b = "G" -> ClampX(ClampY([f EXCEPT !.cy = IF e.count > 0 THEN n - 1 ELSE Len(e.lines) - 1]))
          [] b = "u" -> Undo(f)
          [] b = "i" -> [s EXCEPT !.mode = "insert"]
          [] b = "a" -> [s EXCEPT !.mode = "insert", !.cx = IF Line(f) = <<>> THEN @ ELSE @ + 1]
          [] b = "A" -> [s EXCEPT !.mode = "insert", !.cx = Len(Line(f))]
          [] b = "o" -> OpenBelow(s)
          [] b = "O" -> OpenAbove(s)
          [] b \in {"/", "?"} -> [f EXCEPT !.mode = "search", !.fwd = (b = "/"), !.pat = <<>>]
          [] b = "n" -> SearchAgain(f, f.lastFwd)
          [] b = "N" -> SearchAgain(f, ~f.lastFwd)
          [] b = ":" -> [f EXCEPT !.mode = "command", !.cmd = <<>>]
          [] OTHER -> f
  BY DEF NormalCommand
<1> HIDE DEF f, n
<1>4. /\ Steady(f) /\ Calm(e, f) /\ EditorOK(f) /\ f.mode = "normal" /\ f.pending = NoKey
      /\ f.cmd = <<>>
  <2>1. Steady(f) /\ Calm(e, f)
    BY <1>1, <1>2, SameBuffer
  <2> QED BY <1>1, <1>2, <2>1 DEF Steady
<1>5. /\ Calm(f, s) /\ Steady(s) /\ EditorOK(s) /\ s.undo # <<>> /\ s.mode = "normal"
      /\ s.pending = NoKey /\ s.lines = f.lines /\ s.cx = f.cx /\ s.cy = f.cy
  BY <1>4, SnapshotIsCalm
<1> HIDE DEF s
<1>6. /\ f.lines \in ViTexts /\ Len(f.lines) \in Nat \ {0} /\ f.cy \in 0 .. Len(f.lines) - 1
      /\ Line(f) \in Seq(Byte) /\ Len(Line(f)) \in Nat /\ f.cx \in 0 .. LastCol(Line(f))
      /\ LastCol(Line(f)) \in Nat /\ LastCol(Line(f)) <= Len(Line(f))
      /\ Len(Line(f)) > 0 => LastCol(Line(f)) = Len(Line(f)) - 1
  <2>1. Placed(f)
    BY <1>4, EditorFacts
  <2> QED BY <1>4, <2>1, EditorFacts DEF Placed
<1>7. ASSUME NEW g, Calm(s, g) PROVE Calm(e, g)
  BY <1>4, <1>5, <1>7, CalmTwice
<1>8. ASSUME NEW g, Calm(f, g) PROVE Calm(e, g)
  BY <1>4, <1>8, CalmTwice
<1>9. ASSUME NEW g, Moved(f, g) PROVE Calm(e, g)
  BY <1>4, <1>8, <1>9, MovedIsCalm
<1>10. ASSUME NEW g, Edited(s, g) PROVE Calm(e, g)
  BY <1>5, <1>7, <1>10, EditedIsCalm
<1>m. CASE b \in Moves
  <2>1. NormalCommand(e, b) = Times(n, f, b)
    BY <1>3, <1>m DEF Moves
  <2>2. Moved(f, Times(n, f, b))
    BY <1>1, <1>4, <1>m, TimesFacts
  <2> QED BY <1>9, <2>1, <2>2
<1>x. CASE b \in {"x", "p", "P"}
  <2>1. NormalCommand(e, b) = Times(n, s, b)
    BY <1>3, <1>x DEF Moves
  <2>2. b \in Changes
    BY <1>x DEF Changes
  <2>3. Edited(s, Times(n, s, b))
    BY <1>1, <1>5, <2>2, TimesFacts
  <2> QED BY <1>10, <2>1, <2>3
<1>h. CASE b = "0"
  <2>1. NormalCommand(e, b) = Home(f)
    BY <1>3, <1>h DEF Moves
  <2> QED BY <1>4, <1>9, <2>1, PlainMotions
<1>e. CASE b = "$"
  <2>1. NormalCommand(e, b) = End(f)
    BY <1>3, <1>e DEF Moves
  <2> QED BY <1>4, <1>9, <2>1, PlainMotions
<1>g. CASE b = "G"
  <2> DEFINE y == IF e.count > 0 THEN n - 1 ELSE Len(e.lines) - 1
             c == Least(Max0(y), Len(f.lines) - 1)
  <2>1. NormalCommand(e, b) = ClampX(ClampY([f EXCEPT !.cy = y]))
    BY <1>3, <1>g DEF Moves
  <2>2. y \in Int
    BY <1>1, <1>2, <1>6
  <2> HIDE DEF y
  <2>3. c \in 0 .. Len(f.lines) - 1 /\ c \in Int
    BY <1>6, <2>2 DEF Least, Max0
  <2>4. ClampY([f EXCEPT !.cy = y]) = [f EXCEPT !.cy = c]
    BY <1>2, <2>2 DEF ClampY, Editor
  <2> HIDE DEF c
  <2>5. [f EXCEPT !.cy = c] = [f EXCEPT !.cy = c, !.cx = f.cx]
    BY <1>2, <2>3 DEF Editor
  <2>6. f.cx \in Nat
    BY <1>6
  <2>7. Moved(f, ClampX([f EXCEPT !.cy = c, !.cx = f.cx]))
    BY <1>4, <2>3, <2>6, MovedToLine
  <2> QED BY <1>9, <2>1, <2>4, <2>5, <2>7
<1>u. CASE b = "u"
  <2> DEFINE g == Undo(f)
  <2>1. NormalCommand(e, b) = g
    BY <1>3, <1>u DEF Moves
  <2>2. /\ EditorOK(g) /\ g.quit = f.quit /\ g.mode = f.mode /\ g.pending = f.pending
        /\ g.dirty \/ g = f
        /\ \A t : LeadsBack(f, t) => LeadsBack(g, t)
    BY <1>4, UndoFacts
  <2> HIDE DEF g
  <2>3. Steady(g)
    BY <1>4, <2>2 DEF Steady
  <2>4. f.dirty \in BOOLEAN
    BY <1>2 DEF Editor
  <2>5. Calm(f, g)
    BY <2>2, <2>3, <2>4 DEF Calm, Keyed, Noted
  <2> QED BY <1>8, <2>1, <2>5
<1>i. CASE b = "i"
  <2>1. NormalCommand(e, b) = [s EXCEPT !.mode = "insert"]
    BY <1>3, <1>i DEF Moves
  <2>2. s \in Editor
    BY <1>5 DEF EditorOK
  <2>3. [s EXCEPT !.mode = "insert"] = [s EXCEPT !.mode = "insert", !.cx = s.cx]
    BY <2>2 DEF Editor
  <2>4. s.cx \in 0 .. Len(Line(s))
    BY <1>5, EditorFacts
  <2>5. Calm(s, [s EXCEPT !.mode = "insert", !.cx = s.cx])
    BY <1>5, <2>4, StartsInsert
  <2> QED BY <1>7, <2>1, <2>3, <2>5
<1>a. CASE b = "a"
  <2> DEFINE x == IF Line(f) = <<>> THEN s.cx ELSE s.cx + 1
  <2>1. NormalCommand(e, b) = [s EXCEPT !.mode = "insert", !.cx = x]
    <3>1. s \in Editor
      BY <1>5 DEF EditorOK
    <3>2. [s EXCEPT !.mode = "insert", !.cx = IF Line(f) = <<>> THEN @ ELSE @ + 1] =
            [s EXCEPT !.mode = "insert", !.cx = x]
      BY <3>1 DEF Editor
    <3> HIDE DEF x
    <3> QED BY <1>3, <1>a, <3>2 DEF Moves
  <2>2. Line(s) = Line(f)
    BY <1>5 DEF Line
  <2>3. x \in 0 .. Len(Line(s))
    <3>1. CASE Line(f) = <<>>
      BY <1>5, <1>6, <2>2, <3>1
    <3>2. CASE Line(f) # <<>>
      <4>1. Len(Line(f)) > 0
        BY <1>6, <3>2, EmptySeq
      <4>2. LastCol(Line(f)) = Len(Line(f)) - 1
        BY <1>6, <4>1
      <4>3. s.cx + 1 \in 0 .. Len(Line(f))
        BY <1>5, <1>6, <4>2
      <4> QED BY <2>2, <3>2, <4>3
    <3> QED BY <3>1, <3>2
  <2> HIDE DEF x
  <2>4. Calm(s, [s EXCEPT !.mode = "insert", !.cx = x])
    BY <1>5, <2>3, StartsInsert
  <2> QED BY <1>7, <2>1, <2>4
<1>A. CASE b = "A"
  <2>1. NormalCommand(e, b) = [s EXCEPT !.mode = "insert", !.cx = Len(Line(f))]
    BY <1>3, <1>A DEF Moves
  <2>2. Line(s) = Line(f)
    BY <1>5 DEF Line
  <2>3. Len(Line(f)) \in 0 .. Len(Line(s))
    BY <1>6, <2>2
  <2>4. Calm(s, [s EXCEPT !.mode = "insert", !.cx = Len(Line(f))])
    BY <1>5, <2>3, StartsInsert
  <2> QED BY <1>7, <2>1, <2>4
<1>o. CASE b = "o"
  <2>1. NormalCommand(e, b) = OpenBelow(s)
    BY <1>3, <1>o DEF Moves
  <2> QED BY <1>5, <1>10, <2>1, OpenEdits
<1>O. CASE b = "O"
  <2>1. NormalCommand(e, b) = OpenAbove(s)
    BY <1>3, <1>O DEF Moves
  <2> QED BY <1>5, <1>10, <2>1, OpenEdits
<1>s. CASE b \in {"/", "?"}
  <2> DEFINE g == [f EXCEPT !.mode = "search", !.fwd = (b = "/"), !.pat = <<>>]
  <2>1. NormalCommand(e, b) = g
    BY <1>3, <1>s DEF Moves
  <2>2. /\ g \in Editor /\ g.lines = f.lines /\ g.cx = f.cx /\ g.cy = f.cy /\ g.undo = f.undo
        /\ g.dirty = f.dirty /\ g.mode = "search" /\ g.cmd = f.cmd /\ g.pending = f.pending
        /\ g.quit = f.quit
    <3>1. (b = "/") \in BOOLEAN /\ <<>> \in Seq(Byte)
      OBVIOUS
    <3> QED BY <1>2, <3>1 DEF Editor
  <2> HIDE DEF g
  <2>3. Calm(f, g)
    BY <1>4, <2>2, SameBuffer
  <2> QED BY <1>8, <2>1, <2>3
<1>n. CASE b \in {"n", "N"}
  <2>1. f.lastFwd \in BOOLEAN /\ (~f.lastFwd) \in BOOLEAN /\ f.lastPat \in Seq(Byte)
    <3>1. f.lastFwd \in BOOLEAN /\ f.lastPat \in Seq(Byte)
      BY <1>2 DEF Editor
    <3> QED BY <3>1, Zenon
  <2>2. Moved(f, SearchAgain(f, f.lastFwd)) /\ Moved(f, SearchAgain(f, ~f.lastFwd))
    BY <1>4, <2>1, SearchMoves DEF SearchAgain
  <2>3. \/ NormalCommand(e, b) = SearchAgain(f, f.lastFwd)
        \/ NormalCommand(e, b) = SearchAgain(f, ~f.lastFwd)
    BY <1>3, <1>n DEF Moves
  <2> QED BY <1>9, <2>2, <2>3
<1>c. CASE b = ":"
  <2> DEFINE g == [f EXCEPT !.mode = "command", !.cmd = <<>>]
  <2>1. NormalCommand(e, b) = g
    BY <1>3, <1>c DEF Moves
  <2>2. /\ g \in Editor /\ g.lines = f.lines /\ g.cx = f.cx /\ g.cy = f.cy /\ g.undo = f.undo
        /\ g.dirty = f.dirty /\ g.mode = "command" /\ g.pending = f.pending /\ g.quit = f.quit
    <3>1. <<>> \in Seq(Byte)
      OBVIOUS
    <3> QED BY <1>2, <3>1 DEF Editor
  <2> HIDE DEF g
  <2>3. Calm(f, g)
    BY <1>4, <2>2, SameBuffer
  <2> QED BY <1>8, <2>1, <2>3
<1>k. CASE b \notin Moves \cup {"x", "p", "P", "0", "$", "G", "u", "i", "a", "A", "o", "O", "/", "?", "n", "N", ":"}
  <2>1. NormalCommand(e, b) = f
    BY <1>3, <1>k
  <2> QED BY <1>4, <2>1
<1> QED BY <1>m, <1>x, <1>h, <1>e, <1>g, <1>u, <1>i, <1>a, <1>A, <1>o, <1>O, <1>s, <1>n, <1>c, <1>k


LEMMA FeedNormalFacts ==
  ASSUME NEW e, Steady(e), e.mode = "normal", NEW b
  PROVE  /\ Keyed(e, FeedNormal(e, b))
         /\ e.pending = NoKey => FeedNormal(e, b).quit = e.quit
<1> DEFINE digit == b \in DOMAIN Value /\ (b # "0" \/ e.count > 0)
<1>1. e \in Editor /\ EditorOK(e) /\ e.cmd = <<>> /\ e.count \in Nat
  <2>1. e \in Editor /\ EditorOK(e) /\ e.cmd = <<>>
    BY DEF Steady, EditorOK
  <2> QED BY <2>1 DEF Editor
<1>2. FeedNormal(e, b) =
        CASE digit -> [e EXCEPT !.count = @ * 10 + Value[b]]
          [] ~digit /\ e.pending # NoKey -> SecondKey(e, b)
          [] ~digit /\ e.pending = NoKey /\ b \in {"d", "g", "Z", "y"} -> [e EXCEPT !.pending = b]
          [] OTHER -> NormalCommand(e, b)
  BY Zenon DEF FeedNormal, NoKey
<1>3. CASE digit
  <2> DEFINE k == e.count * 10 + Value[b]
             f == [e EXCEPT !.count = k]
  <2>1. Value[b] \in Nat
    <3>1. b \in {"0", "1", "2", "3", "4"}
      BY <1>3 DEF Value
    <3> QED BY <3>1 DEF Value
  <2>2. FeedNormal(e, b) = f
    BY <1>1, <1>2, <1>3 DEF Editor
  <2>3. k \in Nat
    BY <1>1, <2>1
  <2> HIDE DEF k
  <2>4. /\ f \in Editor /\ f.lines = e.lines /\ f.cx = e.cx /\ f.cy = e.cy /\ f.undo = e.undo
        /\ f.dirty = e.dirty /\ f.mode = e.mode /\ f.cmd = e.cmd /\ f.pending = e.pending
        /\ f.quit = e.quit
    BY <1>1, <2>3 DEF Editor
  <2> HIDE DEF f
  <2>5. Keyed(e, f)
    BY <1>1, <2>4, SameBuffer
  <2> QED BY <2>2, <2>4, <2>5
<1> HIDE DEF digit
<1>4. CASE ~digit /\ e.pending # NoKey
  <2>1. FeedNormal(e, b) = SecondKey(e, b)
    BY <1>2, <1>4
  <2> QED BY <1>4, <2>1, SecondKeyFacts
<1>5. CASE ~digit /\ e.pending = NoKey /\ b \in {"d", "g", "Z", "y"}
  <2> DEFINE f == [e EXCEPT !.pending = b]
  <2>1. FeedNormal(e, b) = f
    BY <1>2, <1>5
  <2>2. b \in Byte
    BY <1>5, Zenon DEF Byte
  <2>3. /\ f \in Editor /\ f.lines = e.lines /\ f.cx = e.cx /\ f.cy = e.cy /\ f.undo = e.undo
        /\ f.dirty = e.dirty /\ f.mode = e.mode /\ f.cmd = e.cmd /\ f.quit = e.quit
    BY <1>1, <2>2 DEF Editor
  <2> HIDE DEF f
  <2>4. Keyed(e, f)
    BY <1>1, <2>3, SameBuffer
  <2> QED BY <2>1, <2>3, <2>4
<1>6. CASE ~digit /\ e.pending = NoKey /\ b \notin {"d", "g", "Z", "y"}
  <2>1. FeedNormal(e, b) = NormalCommand(e, b)
    BY <1>2, <1>6
  <2>2. Calm(e, NormalCommand(e, b))
    BY <1>6, NormalFacts
  <2> QED BY <2>1, <2>2 DEF Calm
<1> QED BY <1>3, <1>4, <1>5, <1>6

(* Insert mode, the commands and the searches. *)
LEMMA FeedInsertFacts ==
  ASSUME NEW e, Steady(e), e.mode = "insert", NEW b \in Byte
  PROVE  Calm(e, FeedInsert(e, b))
<1>1. EditorOK(e) /\ e.undo # <<>> /\ e.pending = NoKey
  BY DEF Steady
<1>2. Edited(e, SplitLine(e)) /\ Edited(e, Backspace(e)) /\ Edited(e, InsertRune(e, b))
  BY <1>1, SplitLineEdits, BackspaceEdits, InsertRuneEdits
<1>3. \/ FeedInsert(e, b) = SplitLine(e) \/ FeedInsert(e, b) = Backspace(e)
      \/ FeedInsert(e, b) = InsertRune(e, b)
  BY DEF FeedInsert
<1>4. Edited(e, FeedInsert(e, b))
  BY <1>2, <1>3
<1> QED BY <1>1, <1>4, EditedIsCalm

LEMMA TypedFacts ==
  ASSUME NEW s \in Seq(Byte), NEW b \in Byte
  PROVE  Typed(s, b) \in Seq(Byte)
<1>1. s \o Encoded(b) \in Seq(Byte)
  BY EncodedFacts, JoinFacts
<1>2. s # <<>> => Front(s) \in Seq(Byte)
  <2>1. s # <<>> => Len(s) \in Nat \ {0}
    BY EmptySeq
  <2> QED BY <2>1 DEF Front
<1> QED BY <1>1, <1>2 DEF Typed

LEMMA FeedCommandFacts ==
  ASSUME NEW e, Steady(e), e.mode = "command", NEW b \in Byte
  PROVE  /\ Keyed(e, FeedCommand(e, b))
         /\ FeedCommand(e, b).quit /\ ~e.quit /\ e.cmd = <<"q">> => ~e.dirty
<1>1. e \in Editor /\ EditorOK(e) /\ e.pending = NoKey /\ e.quit \in BOOLEAN /\ e.dirty \in BOOLEAN
      /\ e.cmd \in Seq(Byte)
  <2>1. e \in Editor /\ EditorOK(e) /\ e.pending = NoKey
    BY DEF Steady, EditorOK
  <2> QED BY <2>1 DEF Editor
<1>2. CASE b = "cr"
  <2> DEFINE g == ExCommand(e)
             f == [g EXCEPT !.mode = "normal", !.cmd = <<>>]
  <2>1. FeedCommand(e, b) = f
    BY <1>2 DEF FeedCommand
  <2>2. /\ g \in Editor /\ g.lines = e.lines /\ g.cx = e.cx /\ g.cy = e.cy /\ g.undo = e.undo
        /\ g.dirty = e.dirty /\ g.mode = e.mode /\ g.pending = e.pending
    <3>1. \/ g = [e EXCEPT !.save = TRUE] \/ g = [e EXCEPT !.save = TRUE, !.quit = TRUE]
          \/ g = [e EXCEPT !.quit = ~e.dirty] \/ g = [e EXCEPT !.quit = TRUE] \/ g = e
      <4> DEFINE P == e.cmd = <<"w">>
                 Q == e.cmd \in {<<"w", "q">>, <<"x">>}
                 R == e.cmd = <<"q">>
                 S == e.cmd = <<"q", "!">>
                 g1 == [e EXCEPT !.save = TRUE]
                 g2 == [e EXCEPT !.save = TRUE, !.quit = TRUE]
                 g3 == [e EXCEPT !.quit = ~e.dirty]
                 g4 == [e EXCEPT !.quit = TRUE]
      <4>1. g = CASE P -> g1 [] Q -> g2 [] R -> g3 [] S -> g4 [] OTHER -> e
        BY DEF ExCommand
      <4> HIDE DEF g, P, Q, R, S, g1, g2, g3, g4
      <4>2. g \in {g1, g2, g3, g4, e}
        BY <4>1
      <4> QED BY <4>2 DEF g1, g2, g3, g4
    <3> DEFINE d == ~e.dirty
    <3>2. d \in BOOLEAN
      OBVIOUS
    <3>3. g = [e EXCEPT !.quit = ~e.dirty] => g = [e EXCEPT !.quit = d]
      OBVIOUS
    <3> HIDE DEF g, d
    <3>4. \E p \in BOOLEAN, q \in BOOLEAN : g = [e EXCEPT !.save = p, !.quit = q]
      <4>1. e.save \in BOOLEAN /\ e.quit \in BOOLEAN
        BY <1>1 DEF Editor
      <4>2. /\ [e EXCEPT !.save = TRUE] = [e EXCEPT !.save = TRUE, !.quit = e.quit]
            /\ [e EXCEPT !.quit = d] = [e EXCEPT !.save = e.save, !.quit = d]
            /\ [e EXCEPT !.quit = TRUE] = [e EXCEPT !.save = e.save, !.quit = TRUE]
            /\ e = [e EXCEPT !.save = e.save, !.quit = e.quit]
        BY <1>1, <3>2 DEF Editor
      <4> QED BY <3>1, <3>2, <3>3, <4>1, <4>2, Zenon
    <3> QED BY <1>1, <3>4 DEF Editor
  <2>3. e.cmd = <<"q">> => g.quit = ~e.dirty
    <3>1. ASSUME e.cmd = <<"q">> PROVE g = [e EXCEPT !.quit = ~e.dirty]
      <4>1. /\ <<"q">> # <<"w">> /\ <<"q">> # <<"x">> /\ <<"q">> # <<"w", "q">>
            /\ <<"q">> # <<"q", "!">>
        OBVIOUS
      <4> QED BY <3>1, <4>1, Zenon DEF ExCommand
    <3>2. [e EXCEPT !.quit = ~e.dirty].quit = ~e.dirty
      BY <1>1 DEF Editor
    <3> QED BY <3>1, <3>2
  <2> HIDE DEF g
  <2>4. /\ f \in Editor /\ f.lines = g.lines /\ f.cx = g.cx /\ f.cy = g.cy /\ f.undo = g.undo
        /\ f.dirty = g.dirty /\ f.mode = "normal" /\ f.cmd = <<>> /\ f.quit = g.quit
    <3>1. <<>> \in Seq(Byte)
      OBVIOUS
    <3> QED BY <2>2, <3>1 DEF Editor
  <2> HIDE DEF f
  <2>5. Keyed(e, f)
    BY <2>2, <2>4, SameBuffer
  <2>6. f.quit /\ e.cmd = <<"q">> => ~e.dirty
    BY <2>3, <2>4
  <2> QED BY <2>1, <2>5, <2>6
<1>3. CASE b # "cr"
  <2> DEFINE c == Typed(e.cmd, b)
             f == [e EXCEPT !.cmd = c]
  <2>1. FeedCommand(e, b) = f
    BY <1>3 DEF FeedCommand
  <2>2. c \in Seq(Byte)
    BY <1>1, TypedFacts
  <2> HIDE DEF c
  <2>3. /\ f \in Editor /\ f.lines = e.lines /\ f.cx = e.cx /\ f.cy = e.cy /\ f.undo = e.undo
        /\ f.dirty = e.dirty /\ f.mode = e.mode /\ f.pending = e.pending /\ f.quit = e.quit
    BY <1>1, <2>2 DEF Editor
  <2> HIDE DEF f
  <2>4. Keyed(e, f)
    BY <1>1, <2>3, SameBuffer
  <2> QED BY <2>1, <2>3, <2>4
<1> QED BY <1>2, <1>3

LEMMA FeedSearchFacts ==
  ASSUME NEW e, Steady(e), e.mode = "search", NEW b \in Byte
  PROVE  Calm(e, FeedSearch(e, b))
<1>1. e \in Editor /\ EditorOK(e) /\ e.pending = NoKey /\ e.cmd = <<>>
      /\ e.pat \in Seq(Byte) /\ e.fwd \in BOOLEAN
  <2>1. e \in Editor /\ EditorOK(e) /\ e.pending = NoKey /\ e.cmd = <<>>
    BY DEF Steady, EditorOK
  <2> QED BY <2>1 DEF Editor
<1>2. CASE b = "cr"
  <2> DEFINE g == [e EXCEPT !.mode = "normal", !.lastPat = e.pat, !.lastFwd = e.fwd]
             h == Search(g, e.pat, e.fwd)
             f == [h EXCEPT !.pat = <<>>]
  <2>1. FeedSearch(e, b) = f
    BY <1>2 DEF FeedSearch
  <2>2. /\ g \in Editor /\ g.lines = e.lines /\ g.cx = e.cx /\ g.cy = e.cy /\ g.undo = e.undo
        /\ g.dirty = e.dirty /\ g.mode = "normal" /\ g.cmd = e.cmd /\ g.quit = e.quit
    BY <1>1 DEF Editor
  <2> HIDE DEF g
  <2>3. Calm(e, g) /\ Steady(g) /\ EditorOK(g)
    <3>1. Calm(e, g) /\ Steady(g)
      BY <1>1, <2>2, SameBuffer
    <3> QED BY <3>1 DEF Steady
  <2>4. Moved(g, h) /\ Calm(g, h)
    BY <1>1, <2>3, SearchMoves, MovedIsCalm
  <2>5. h \in Editor /\ Steady(h) /\ h.mode = "normal" /\ h.cmd = <<>>
    BY <2>2, <2>4 DEF Moved, Calm, Keyed, Noted, Steady, EditorOK
  <2> HIDE DEF h
  <2>6. /\ f \in Editor /\ f.lines = h.lines /\ f.cx = h.cx /\ f.cy = h.cy /\ f.undo = h.undo
        /\ f.dirty = h.dirty /\ f.mode = h.mode /\ f.cmd = h.cmd /\ f.quit = h.quit
    <3>1. <<>> \in Seq(Byte)
      OBVIOUS
    <3> QED BY <2>5, <3>1 DEF Editor
  <2> HIDE DEF f
  <2>7. Calm(h, f)
    BY <2>5, <2>6, SameBuffer
  <2>8. Calm(e, f)
    BY <2>3, <2>4, <2>7, CalmTwice
  <2> QED BY <2>1, <2>8
<1>3. CASE b # "cr"
  <2> DEFINE c == Typed(e.pat, b)
             f == [e EXCEPT !.pat = c]
  <2>1. FeedSearch(e, b) = f
    BY <1>3 DEF FeedSearch
  <2>2. c \in Seq(Byte)
    BY <1>1, TypedFacts
  <2> HIDE DEF c
  <2>3. /\ f \in Editor /\ f.lines = e.lines /\ f.cx = e.cx /\ f.cy = e.cy /\ f.undo = e.undo
        /\ f.dirty = e.dirty /\ f.mode = e.mode /\ f.cmd = e.cmd /\ f.pending = e.pending
        /\ f.quit = e.quit
    BY <1>1, <2>2 DEF Editor
  <2> HIDE DEF f
  <2>4. Calm(e, f)
    BY <1>1, <2>3, SameBuffer
  <2> QED BY <2>1, <2>4
<1> QED BY <1>2, <1>3

LEMMA DispatchFacts ==
  ASSUME NEW e, Steady(e), NEW b \in Byte
  PROVE  /\ Keyed(e, Dispatch(e, b))
         /\ Dispatch(e, b).quit /\ ~e.quit /\ e.cmd = <<"q">> => ~e.dirty
         /\ e.mode = "normal" /\ e.pending = NoKey => Dispatch(e, b).quit = e.quit
<1>1. e.mode \in {"normal", "insert", "command", "search"} /\ (e.mode # "command" => e.cmd = <<>>)
  <2>1. EditorOK(e) /\ e \in Editor
    BY DEF Steady, EditorOK
  <2> QED BY <2>1 DEF EditorOK, Editor
<1>2. <<"q">> # <<>>
  OBVIOUS
<1>3. CASE e.mode = "normal"
  <2>1. Dispatch(e, b) = FeedNormal(e, b)
    BY <1>3 DEF Dispatch
  <2> QED BY <1>1, <1>2, <1>3, <2>1, FeedNormalFacts
<1>4. CASE e.mode = "insert"
  <2>1. Dispatch(e, b) = FeedInsert(e, b)
    BY <1>4 DEF Dispatch
  <2> QED BY <1>1, <1>2, <1>4, <2>1, FeedInsertFacts DEF Calm
<1>5. CASE e.mode = "command"
  <2>1. Dispatch(e, b) = FeedCommand(e, b)
    BY <1>5 DEF Dispatch
  <2> QED BY <1>5, <2>1, FeedCommandFacts
<1>6. CASE e.mode = "search"
  <2>1. Dispatch(e, b) = FeedSearch(e, b)
    BY <1>6 DEF Dispatch
  <2> QED BY <1>1, <1>2, <1>6, <2>1, FeedSearchFacts DEF Calm
<1> QED BY <1>1, <1>3, <1>4, <1>5, <1>6


(* Escape sequences. *)
LEMMA HandleEscFacts ==
  ASSUME NEW e, Steady(e)
  PROVE  LET f == HandleEsc(e) IN
         /\ Calm(e, f) /\ Steady(f) /\ f.mode = "normal" /\ f.dirty = e.dirty
         /\ e.mode # "normal" => f.pending = NoKey
         /\ e.mode = "normal" => f = e
<1> DEFINE f == HandleEsc(e)
<1>1. /\ e \in Editor /\ EditorOK(e) /\ e.mode \in {"normal", "insert", "command", "search"}
      /\ (e.mode # "command" => e.cmd = <<>>) /\ (e.mode # "normal" => e.pending = NoKey)
      /\ e.dirty \in BOOLEAN
  <2>1. EditorOK(e) /\ e \in Editor /\ (e.mode # "normal" => e.pending = NoKey)
    BY DEF Steady, EditorOK
  <2> QED BY <2>1 DEF EditorOK, Editor
<1>2. <<>> \in Seq(Byte)
  OBVIOUS
<1>3. CASE e.mode = "normal"
  <2>1. f = e
    BY <1>3 DEF HandleEsc
  <2> HIDE DEF f
  <2>2. Moved(e, e)
    BY <1>1, StaysMoved
  <2> QED BY <1>3, <2>1, <2>2, MovedIsCalm DEF f
<1>4. CASE e.mode = "insert"
  <2> DEFINE x == Max0(e.cx - 1)
  <2>1. f = [e EXCEPT !.mode = "normal", !.cx = x]
    <3>1. [e EXCEPT !.mode = "normal", !.cx = Max0(@ - 1)] = [e EXCEPT !.mode = "normal", !.cx = x]
      BY <1>1 DEF Editor
    <3> HIDE DEF x
    <3> QED BY <1>4, <3>1 DEF HandleEsc
  <2>2. /\ e.lines # <<>> /\ e.cy \in 0 .. Len(e.lines) - 1 /\ x \in 0 .. LastCol(Line(e))
        /\ x \in Int
    <3>1. /\ e.lines # <<>> /\ e.cy \in 0 .. Len(e.lines) - 1 /\ e.cx \in 0 .. Len(Line(e))
          /\ Len(Line(e)) \in Nat
      BY <1>1, EditorFacts
    <3> QED BY <3>1 DEF Max0, LastCol
  <2> HIDE DEF x
  <2>3. /\ f \in Editor /\ f.lines = e.lines /\ f.cx = x /\ f.cy = e.cy /\ f.undo = e.undo
        /\ f.dirty = e.dirty /\ f.mode = "normal" /\ f.cmd = e.cmd /\ f.pending = e.pending
        /\ f.quit = e.quit
    BY <1>1, <2>1, <2>2 DEF Editor
  <2> HIDE DEF f
  <2>4. Placed(f)
    BY <2>2, <2>3 DEF Placed, Line
  <2>5. EditorOK(f)
    BY <1>1, <1>4, <2>3, <2>4, PlacedIsOK
  <2>6. Steady(f)
    BY <2>3, <2>5 DEF Steady
  <2>7. \A t : LeadsBack(e, t) => LeadsBack(f, t)
    BY <2>3 DEF LeadsBack
  <2>8. Calm(e, f)
    BY <1>1, <2>3, <2>6, <2>7 DEF Calm, Keyed, Noted
  <2> QED BY <1>1, <1>4, <2>3, <2>6, <2>8 DEF f
<1>5. CASE e.mode \in {"command", "search"}
  <2>1. /\ f \in Editor /\ f.lines = e.lines /\ f.cx = e.cx /\ f.cy = e.cy /\ f.undo = e.undo
        /\ f.dirty = e.dirty /\ f.mode = "normal" /\ f.cmd = <<>> /\ f.pending = e.pending
        /\ f.quit = e.quit
    <3>1. CASE e.mode = "command"
      <4>1. f = [e EXCEPT !.mode = "normal", !.cmd = <<>>]
        BY <3>1 DEF HandleEsc
      <4> QED BY <1>1, <1>2, <4>1 DEF Editor
    <3>2. CASE e.mode = "search"
      <4>1. f = [e EXCEPT !.mode = "normal", !.pat = <<>>]
        BY <3>2 DEF HandleEsc
      <4> QED BY <1>1, <1>2, <3>2, <4>1 DEF Editor
    <3> QED BY <1>5, <3>1, <3>2
  <2> HIDE DEF f
  <2>2. Steady(f) /\ Calm(e, f)
    BY <1>5, <2>1, SameBuffer
  <2> QED BY <1>1, <1>5, <2>1, <2>2 DEF f
<1> QED BY <1>1, <1>3, <1>4, <1>5

LEMMA ArrowMoves ==
  ASSUME NEW e, EditorOK(e), NEW b PROVE Moved(e, Arrow(e, b))
<1>1. \/ Arrow(e, b) = Up(e) \/ Arrow(e, b) = Down(e) \/ Arrow(e, b) = Right(e)
      \/ Arrow(e, b) = Left(e) \/ Arrow(e, b) = Home(e) \/ Arrow(e, b) = End(e) \/ Arrow(e, b) = e
  BY DEF Arrow
<1> QED BY <1>1, PlainMotions, StaysMoved

(* Delete takes no snapshot, so that u cannot restore what it removes. *)
LEMMA DeleteIsNoted ==
  ASSUME NEW e, Steady(e) PROVE Noted(e, DeleteRune(e)) /\ DeleteRune(e).quit = e.quit
<1> DEFINE f == DeleteRune(e)
<1>1. e \in Editor /\ EditorOK(e)
  BY DEF Steady, EditorOK
<1>2. Edited(e, f)
  BY <1>1, DeletionsEdit
<1>3. f.mode = e.mode
  BY <1>1 DEF DeleteRune, ClampX, SetLine, Editor
<1> HIDE DEF f
<1>4. Steady(f)
  BY <1>2, <1>3 DEF Edited, Steady
<1>5. Noted(e, f) /\ f.quit = e.quit
  BY <1>2, <1>4 DEF Edited, Noted
<1> QED BY <1>5 DEF f

LEMMA DecodeFacts ==
  ASSUME NEW e, Steady(e), NEW b
  PROVE  LET f == DecodeCSI(e, b) IN
         /\ Noted(e, f) /\ f.quit = e.quit /\ (b # "~" => Keyed(e, f))
<1>1. EditorOK(e)
  BY DEF Steady
<1>2. \A f : Moved(e, f) => Noted(e, f) /\ f.quit = e.quit /\ Keyed(e, f)
  BY MovedIsCalm DEF Calm, Keyed
<1>3. Moved(e, Arrow(e, b)) /\ Moved(e, Home(e)) /\ Moved(e, End(e)) /\ Moved(e, e)
  BY <1>1, ArrowMoves, PlainMotions, StaysMoved
<1>4. CASE b # "~"
  <2>1. DecodeCSI(e, b) = Arrow(e, b)
    BY <1>4 DEF DecodeCSI
  <2> QED BY <1>2, <1>3, <2>1
<1>5. CASE b = "~"
  <2>1. \/ DecodeCSI(e, b) = Home(e) \/ DecodeCSI(e, b) = End(e)
        \/ DecodeCSI(e, b) = DeleteRune(e) \/ DecodeCSI(e, b) = e
    <3> DEFINE P == e.csi \in {<<"1">>, <<"7">>}
               Q == e.csi \in {<<"4">>, <<"8">>}
               R == e.csi = <<"3">>
    <3>1. DecodeCSI(e, b) = CASE b # "~"     -> Arrow(e, b)
                              [] b = "~" /\ P -> Home(e)
                              [] b = "~" /\ Q -> End(e)
                              [] b = "~" /\ R -> DeleteRune(e)
                              [] OTHER -> e
      BY DEF DecodeCSI
    <3> HIDE DEF P, Q, R
    <3> QED BY <1>5, <3>1
  <2> QED BY <1>2, <1>3, <1>5, <2>1, DeleteIsNoted
<1> QED BY <1>4, <1>5

(* Only what a sequence has gathered changes. *)
LEMMA Gathers ==
  ASSUME NEW e, Steady(e), NEW s \in {"none", "esc", "csi", "ss3"}, NEW c \in Seq(Byte)
  PROVE  LET f == [e EXCEPT !.esc = s, !.csi = c] IN
         /\ Calm(e, f) /\ Steady(f) /\ f.mode = e.mode /\ f.pending = e.pending
         /\ f.cmd = e.cmd /\ f.dirty = e.dirty
<1> DEFINE f == [e EXCEPT !.esc = s, !.csi = c]
<1>1. e \in Editor /\ EditorOK(e) /\ (e.mode # "command" => e.cmd = <<>>)
      /\ (e.mode # "normal" => e.pending = NoKey)
  BY DEF Steady, EditorOK
<1>2. /\ f \in Editor /\ f.lines = e.lines /\ f.cx = e.cx /\ f.cy = e.cy /\ f.undo = e.undo
      /\ f.dirty = e.dirty /\ f.mode = e.mode /\ f.cmd = e.cmd /\ f.pending = e.pending
      /\ f.quit = e.quit
  BY <1>1 DEF Editor
<1> HIDE DEF f
<1>3. Steady(f) /\ Calm(e, f)
  BY <1>1, <1>2, SameBuffer
<1> QED BY <1>2, <1>3 DEF f

LEMMA FeedByteFacts ==
  ASSUME NEW e, Steady(e), NEW b \in Byte
  PROVE  LET f == FeedByte(e, b) IN
         /\ Noted(e, f) /\ (b # "~" => Keyed(e, f))
         /\ f.quit /\ ~e.quit /\ e.cmd = <<"q">> => ~e.dirty
<1> DEFINE f == [e EXCEPT !.esc = "none"]
           g == FeedByte(e, b)
<1>1. /\ e \in Editor /\ EditorOK(e) /\ e.csi \in Seq(Byte) /\ e.quit \in BOOLEAN
      /\ e.esc \in {"none", "esc", "csi", "ss3"} /\ (e.mode # "command" => e.cmd = <<>>)
  <2>1. EditorOK(e) /\ e \in Editor
    BY DEF Steady, EditorOK
  <2> QED BY <2>1 DEF EditorOK, Editor
<1>2. /\ f = [e EXCEPT !.esc = "none", !.csi = e.csi]
      /\ [e EXCEPT !.esc = "ss3"] = [e EXCEPT !.esc = "ss3", !.csi = e.csi]
      /\ [e EXCEPT !.esc = "esc"] = [e EXCEPT !.esc = "esc", !.csi = e.csi]
      /\ \A c : [e EXCEPT !.csi = c] = [e EXCEPT !.esc = e.esc, !.csi = c]
  BY <1>1 DEF Editor
<1>3. g =
        CASE e.esc = "esc" /\ b = "[" -> [e EXCEPT !.esc = "csi", !.csi = <<>>]
          [] e.esc = "esc" /\ b = "O" -> [e EXCEPT !.esc = "ss3"]
          [] e.esc = "esc" /\ b \notin {"[", "O"} -> Dispatch(HandleEsc(f), b)
          [] e.esc = "csi" /\ b \notin Inner -> [DecodeCSI(f, b) EXCEPT !.csi = <<>>]
          [] e.esc = "csi" /\ b \in Inner -> [e EXCEPT !.csi = Append(@, b)]
          [] e.esc = "ss3" -> Arrow(f, b)
          [] e.esc = "none" /\ b = Esc -> [e EXCEPT !.esc = "esc"]
          [] e.esc = "none" /\ b # Esc -> Dispatch(e, b)
  BY DEF FeedByte
<1>4. [e EXCEPT !.csi = Append(@, b)] = [e EXCEPT !.csi = Append(e.csi, b)]
  BY <1>1 DEF Editor
<1> HIDE DEF f, g
<1>5. /\ Calm(e, f) /\ Steady(f) /\ EditorOK(f) /\ f.mode = e.mode /\ f.pending = e.pending
      /\ f.cmd = e.cmd /\ f.dirty = e.dirty /\ f.quit = e.quit
  <2>1. /\ Calm(e, f) /\ Steady(f) /\ f.mode = e.mode /\ f.pending = e.pending /\ f.cmd = e.cmd
        /\ f.dirty = e.dirty
    <3> DEFINE h == [e EXCEPT !.esc = "none", !.csi = e.csi]
    <3>1. /\ Calm(e, h) /\ Steady(h) /\ h.mode = e.mode /\ h.pending = e.pending /\ h.cmd = e.cmd
          /\ h.dirty = e.dirty
      BY <1>1, Gathers
    <3>2. f = h
      BY <1>2
    <3> HIDE DEF h
    <3> QED BY <3>1, <3>2
  <2> QED BY <2>1 DEF Steady, Calm
<1>6. <<>> \in Seq(Byte) /\ Append(e.csi, b) \in Seq(Byte)
  BY <1>1, AppendFacts
<1>7. \A h : Calm(e, h) => Noted(e, h) /\ Keyed(e, h) /\ h.quit = e.quit
  BY DEF Calm, Keyed
<1>8. CASE e.esc = "esc" /\ b \in {"[", "O"}
  <2>1. g = [e EXCEPT !.esc = "csi", !.csi = <<>>] \/ g = [e EXCEPT !.esc = "ss3", !.csi = e.csi]
    BY <1>2, <1>3, <1>8
  <2>2. /\ Calm(e, [e EXCEPT !.esc = "csi", !.csi = <<>>])
        /\ Calm(e, [e EXCEPT !.esc = "ss3", !.csi = e.csi])
    BY <1>1, <1>6, Gathers
  <2>3. Calm(e, g)
    BY <2>1, <2>2
  <2> QED BY <1>7, <2>3 DEF g
<1>9. CASE e.esc = "esc" /\ b \notin {"[", "O"}
  <2> DEFINE h == HandleEsc(f)
  <2>1. g = Dispatch(h, b)
    BY <1>3, <1>9
  <2>2. /\ Calm(f, h) /\ Steady(h) /\ h.mode = "normal" /\ h.dirty = f.dirty
        /\ f.mode # "normal" => h.pending = NoKey
    BY <1>5, HandleEscFacts
  <2> HIDE DEF h
  <2>3. Keyed(h, g) /\ (h.pending = NoKey => g.quit = h.quit)
    BY <2>1, <2>2, DispatchFacts
  <2>4. Keyed(e, g)
    <3>1. Calm(e, h)
      BY <1>5, <2>2, CalmTwice
    <3> QED BY <2>3, <3>1, KeyedTwice DEF Calm
  <2>5. e.cmd = <<"q">> => g.quit = e.quit
    <3>1. e.cmd = <<"q">> => f.mode # "normal"
      BY <1>1, <1>5
    <3>2. h.quit = e.quit
      BY <1>5, <2>2 DEF Calm
    <3> QED BY <2>2, <2>3, <3>1, <3>2
  <2> QED BY <2>4, <2>5 DEF Keyed, g
<1>10. CASE e.esc = "csi" /\ b \notin Inner
  <2> DEFINE h == DecodeCSI(f, b)
  <2>1. g = [h EXCEPT !.csi = <<>>]
    BY <1>3, <1>10
  <2>2. Noted(f, h) /\ h.quit = f.quit /\ (b # "~" => Keyed(f, h))
    BY <1>5, DecodeFacts
  <2> HIDE DEF h
  <2>3. Steady(h) /\ h \in Editor /\ h.esc \in {"none", "esc", "csi", "ss3"}
    <3>1. Steady(h) /\ h \in Editor
      BY <2>2 DEF Noted, Steady, EditorOK
    <3> QED BY <3>1 DEF Editor
  <2>4. g = [h EXCEPT !.esc = h.esc, !.csi = <<>>]
    BY <2>1, <2>3 DEF Editor
  <2>5. Calm(h, g)
    BY <1>6, <2>3, <2>4, Gathers
  <2>6. Noted(e, g) /\ (b # "~" => Keyed(e, g)) /\ g.quit = e.quit
    <3>1. Noted(e, f) /\ Keyed(e, f) /\ Noted(h, g) /\ Keyed(h, g) /\ g.quit = h.quit
      BY <1>5, <2>5 DEF Calm, Keyed
    <3>2. Noted(e, h) /\ (b # "~" => Keyed(e, h))
      BY <2>2, <3>1, NotedTwice, KeyedTwice
    <3>3. Noted(e, g)
      BY <3>1, <3>2, NotedTwice
    <3>4. b # "~" => Keyed(e, g)
      BY <3>1, <3>2, KeyedTwice
    <3> QED BY <1>5, <2>2, <3>1, <3>3, <3>4
  <2> QED BY <2>6 DEF g
<1>11. CASE e.esc = "csi" /\ b \in Inner
  <2>1. g = [e EXCEPT !.esc = e.esc, !.csi = Append(e.csi, b)]
    BY <1>2, <1>3, <1>4, <1>11
  <2>2. Calm(e, g)
    BY <1>1, <1>6, <2>1, Gathers
  <2> QED BY <1>7, <2>2 DEF g
<1>12. CASE e.esc = "ss3"
  <2>1. g = Arrow(f, b)
    BY <1>3, <1>12
  <2>2. Calm(f, Arrow(f, b))
    BY <1>5, ArrowMoves, MovedIsCalm
  <2>3. Calm(e, g)
    BY <1>5, <2>1, <2>2, CalmTwice
  <2> QED BY <1>7, <2>3 DEF g
<1>13. CASE e.esc = "none" /\ b = Esc
  <2>1. g = [e EXCEPT !.esc = "esc", !.csi = e.csi]
    BY <1>2, <1>3, <1>13
  <2>2. Calm(e, g)
    BY <1>1, <2>1, Gathers
  <2> QED BY <1>7, <2>2 DEF g
<1>14. CASE e.esc = "none" /\ b # Esc
  <2>1. g = Dispatch(e, b)
    BY <1>3, <1>14
  <2> QED BY <2>1, DispatchFacts DEF Keyed, g
<1> QED BY <1>1, <1>8, <1>9, <1>10, <1>11, <1>12, <1>13, <1>14


LEMMA FlushFacts ==
  ASSUME NEW e, Steady(e)
  PROVE  FlushKeys(e).quit = e.quit
<1>1. EditorOK(e) /\ e \in Editor
  BY DEF Steady, EditorOK
<1> DEFINE g == IF e.esc = "esc" THEN HandleEsc(e) ELSE e
<1>2. g \in Editor /\ g.quit = e.quit
  <2>1. CASE e.esc = "esc"
    <3>1. Calm(e, HandleEsc(e)) /\ Steady(HandleEsc(e))
      BY HandleEscFacts
    <3>2. HandleEsc(e) \in Editor /\ HandleEsc(e).quit = e.quit
      BY <3>1 DEF Calm, Steady, EditorOK
    <3> QED BY <2>1, <3>2
  <2>2. CASE e.esc # "esc"
    BY <1>1, <2>2
  <2> QED BY <2>1, <2>2
<1>3. FlushKeys(e) = [g EXCEPT !.esc = "none"]
  BY DEF FlushKeys
<1> HIDE DEF g
<1>4. [g EXCEPT !.esc = "none"].quit = g.quit
  BY <1>2 DEF Editor
<1> QED BY <1>2, <1>3, <1>4

LEMMA NewEditorFacts ==
  ASSUME NEW ls \in ViTexts
  PROVE  LET f == NewEditor(ls) IN
         /\ Steady(f) /\ f.undo = <<>> /\ f.quit = FALSE /\ f.lines \in ViTexts
<1> DEFINE k == IF ls = <<>> THEN << <<>> >> ELSE ls
           f == NewEditor(ls)
<1>1. k \in ViTexts /\ k # <<>> /\ Len(k) \in Nat \ {0}
  <2>1. << <<>> >> \in Seq(Seq(Byte)) /\ << <<>> >> # <<>>
    <3>1. <<>> \in Seq(Byte)
      OBVIOUS
    <3> QED BY <3>1
  <2>2. k \in ViTexts /\ k # <<>>
    BY <2>1, Zenon DEF ViTexts
  <2> HIDE DEF k
  <2> QED BY <2>2, EmptySeq DEF ViTexts
<1>2. f =
  [lines |-> k, cx |-> 0, cy |-> 0,
   mode |-> "normal", pending |-> NoKey, count |-> 0, cmd |-> <<>>,
   pat |-> <<>>, fwd |-> FALSE, lastPat |-> <<>>, lastFwd |-> FALSE,
   reg |-> <<>>, undo |-> <<>>, dirty |-> FALSE, quit |-> FALSE, save |-> FALSE,
   esc |-> "none", csi |-> <<>>]
  BY Zenon DEF NewEditor, NoKey
<1> HIDE DEF k, f
<1>3. NoKey \in Byte /\ <<>> \in Seq(Byte) /\ <<>> \in ViTexts
  <2>1. NoKey \in Byte
    BY Zenon DEF NoKey, Byte
  <2>2. <<>> \in Seq(Byte) /\ <<>> \in Seq(Seq(Byte))
    OBVIOUS
  <2> QED BY <2>1, <2>2 DEF ViTexts
<1>4. <<>> \in Seq([lines : ViTexts, cx : Int, cy : Int])
  OBVIOUS
<1>5. f \in Editor
  BY <1>1, <1>2, <1>3, <1>4 DEF Editor
<1>6. /\ f.lines = k /\ f.cx = 0 /\ f.cy = 0 /\ f.mode = "normal" /\ f.pending = NoKey
      /\ f.cmd = <<>> /\ f.undo = <<>> /\ f.quit = FALSE
  BY <1>2
<1>7. InBuffer(f.lines, f.cx, f.cy, f.mode = "insert")
  <2>1. 0 \in 0 .. Len(k) - 1
    BY <1>1
  <2>2. 0 \in 0 .. LastCol(k[0 + 1])
    <3>1. \A y \in 0 .. Len(k) - 1 : 0 \in 0 .. LastCol(k[y + 1])
      BY <1>1, LineFacts
    <3> QED BY <2>1, <3>1, Zenon
  <2>3. InBuffer(k, 0, 0, FALSE)
    BY <1>1, <2>1, <2>2 DEF InBuffer
  <2> QED BY <1>6, <2>3
<1>8. \A i \in DOMAIN f.undo : InBuffer(f.undo[i].lines, f.undo[i].cx, f.undo[i].cy, FALSE)
  BY <1>6
<1>9. EditorOK(f)
  BY <1>5, <1>6, <1>7, <1>8 DEF EditorOK
<1>10. Steady(f)
  BY <1>6, <1>9 DEF Steady
<1> QED BY <1>1, <1>6, <1>10 DEF f

-----------------------------------------------------------------------------
(* The session.  While it goes on the editor is in order, a buffer that is *)
(* not marked as changed is what was loaded, and u leads back to that as   *)
(* long as Delete was not pressed.                                         *)
ViIInv ==
  /\ vkeys \subseteq Byte
  /\ vpc = "editing" =>
       /\ Steady(vi) /\ Marked(vi, Loaded) /\ vfile = vtext
       /\ "~" \notin vkeys => LeadsBack(vi, Loaded)
  /\ vpc = "unwritten" => vfile = vtext

LEMMA TextsOfBytes ==
  ASSUME NEW x \in Texts, NEW k \in Keyboards
  PROVE  x.lines \in ViTexts /\ k \subseteq Byte
<1>1. \A s \in Seq(STRING) : s \in Seq(Byte)
  <2>1. STRING \subseteq Byte
    BY Zenon DEF Byte
  <2> DEFINE S == STRING
  <2>2. S \subseteq Byte
    BY <2>1
  <2> HIDE DEF S
  <2>3. \A s \in Seq(S) : s \in Seq(Byte)
    BY <2>2
  <2> QED BY <2>3 DEF S
<1>2. x.lines \in Seq(Seq(STRING)) /\ k \subseteq STRING
  BY KeyAssumption
<1>3. x.lines \in ViTexts
  <2> DEFINE S == Seq(STRING)
             T == Seq(Byte)
  <2>1. x.lines \in Seq(S) /\ \A s \in S : s \in T
    BY <1>1, <1>2
  <2> HIDE DEF S, T
  <2>2. x.lines \in Seq(T)
    BY <2>1
  <2> QED BY <2>2 DEF T, ViTexts
<1>4. k \subseteq Byte
  BY <1>2, Zenon DEF Byte
<1> QED BY <1>3, <1>4

LEMMA ViStep ==
  ASSUME ViIInv, [ViNext]_vivars
  PROVE  ViIInv' /\ (vi'.quit /\ ~vi.quit /\ vi.cmd = <<"q">> => vi.lines = Loaded)
<1> USE DEF ViIInv
<1>1. CASE Open
  <2>1. /\ vtext' \in Texts /\ vfile' = vtext' /\ vkeys' \in Keyboards
        /\ (vpc' = "editing" /\ vi' = NewEditor(vtext'.lines)) \/ (vpc' = "failed" /\ vi' = vi)
    BY <1>1 DEF Open
  <2>2. vtext'.lines \in ViTexts /\ vkeys' \subseteq Byte
    BY <2>1, TextsOfBytes
  <2>3. CASE vpc' = "editing" /\ vi' = NewEditor(vtext'.lines)
    <3>1. /\ Steady(NewEditor(vtext'.lines)) /\ NewEditor(vtext'.lines).undo = <<>>
          /\ NewEditor(vtext'.lines).quit = FALSE
      BY <2>2, NewEditorFacts
    <3>2. Loaded' = NewEditor(vtext'.lines).lines
      BY DEF Loaded
    <3>3. Steady(vi)' /\ Marked(vi, Loaded)' /\ LeadsBack(vi, Loaded)' /\ vi'.quit = FALSE
      <4>1. Steady(vi') /\ vi'.lines = Loaded' /\ vi'.undo = <<>> /\ vi'.quit = FALSE
        BY <2>3, <3>1, <3>2
      <4> QED BY <4>1 DEF Steady, EditorOK, Marked, LeadsBack
    <3> QED BY <2>1, <2>2, <2>3, <3>3
  <2>4. CASE vpc' = "failed" /\ vi' = vi
    BY <2>1, <2>2, <2>4
  <2> QED BY <2>1, <2>3, <2>4
<1>2. ASSUME NEW b \in vkeys, Feed(b)
      PROVE  ViIInv' /\ (vi'.quit /\ ~vi.quit /\ vi.cmd = <<"q">> => vi.lines = Loaded)
  <2>1. /\ vpc = "editing" /\ vpc' = vpc /\ vtext' = vtext /\ vfile' = vfile /\ vkeys' = vkeys
        /\ vi' = FeedByte(vi, b)
    BY <1>2 DEF Feed
  <2>2. Steady(vi) /\ b \in Byte /\ Loaded' = Loaded
    BY <2>1 DEF Loaded
  <2>3. /\ Noted(vi, vi') /\ (b # "~" => Keyed(vi, vi'))
        /\ vi'.quit /\ ~vi.quit /\ vi.cmd = <<"q">> => ~vi.dirty
    BY <2>1, <2>2, FeedByteFacts
  <2>4. Steady(vi)'
    BY <2>3 DEF Noted, Steady, EditorOK
  <2>5. Marked(vi', Loaded)
    BY <2>1, <2>3 DEF Noted, Marked
  <2>6. "~" \notin vkeys => LeadsBack(vi', Loaded)
    BY <2>1, <2>3 DEF Keyed
  <2>7. vi'.quit /\ ~vi.quit /\ vi.cmd = <<"q">> => vi.lines = Loaded
    BY <2>1, <2>3 DEF Marked
  <2>8. Marked(vi, Loaded)' /\ ("~" \notin vkeys' => LeadsBack(vi, Loaded)')
    BY <2>1, <2>2, <2>5, <2>6 DEF Marked, LeadsBack
  <2> QED BY <2>1, <2>4, <2>7, <2>8
<1>3. CASE Close
  <2>1. /\ vpc = "editing" /\ vi' = FlushKeys(vi) /\ vtext' = vtext /\ vkeys' = vkeys
        /\ vpc' \in {"unwritten", "written", "failed"} /\ (vpc' = "unwritten" => vfile' = vfile)
    BY <1>3 DEF Close
  <2>2. vi'.quit = vi.quit
    BY <2>1, FlushFacts
  <2> QED BY <2>1, <2>2
<1>4. CASE UNCHANGED vivars
  <2>1. vi' = vi /\ vpc' = vpc /\ vtext' = vtext /\ vfile' = vfile /\ vkeys' = vkeys
    BY <1>4 DEF vivars
  <2> QED BY <2>1 DEF Loaded, Steady, EditorOK, Marked, LeadsBack
<1> QED BY <1>1, <1>2, <1>3, <1>4 DEF ViNext

LEMMA ViStart == ViInit => ViIInv
  BY DEF ViInit, ViIInv

LEMMA ViInvariance == ViSpec => []ViIInv
<1>1. ViIInv /\ [ViNext]_vivars => ViIInv'
  BY ViStep
<1> QED BY <1>1, ViStart, PTL DEF ViSpec

(* No sequence of keys takes vi's cursor out of the buffer, whatever the   *)
(* file held and however long the session is.                              *)
THEOREM CursorStaysInside == ViSpec => []CursorInside
<1>1. ViIInv => CursorInside
  BY DEF ViIInv, CursorInside, Steady, EditorOK
<1> QED BY <1>1, ViInvariance, PTL

(* u leads back to what the file held, a buffer not marked as changed is   *)
(* what it held, and :q ends vi only then.                                 *)
THEOREM EditsAreKept == ViSpec => NothingIsLost
<1>1. ViIInv => NoLoss
  BY DEF ViIInv, NoLoss, Marked, LeadsBack
<1>2. ViIInv /\ [ViNext]_vivars => [vi'.quit /\ ~vi.quit /\ vi.cmd = <<"q">> => vi.lines = Loaded]_vivars
  BY ViStep
<1> QED BY <1>1, <1>2, ViInvariance, PTL DEF ViSpec, NothingIsLost, QuitAsks

-----------------------------------------------------------------------------
(* add-shell and remove-shell. *)

(* A set with the empty sequence that each append stays in has them all.   *)
LEMMA AppendInduction ==
  ASSUME NEW T, NEW Q, <<>> \in Q, \A s \in Seq(T) : s \in Q => \A x \in T : Append(s, x) \in Q
  PROVE  Seq(T) \subseteq Q
<1> SUFFICES ASSUME NEW s \in Seq(T) PROVE s \in Q
  OBVIOUS
<1> DEFINE N == Len(s)
           Pre(j) == SubSeq(s, 1, j)
           P == {j \in 0 .. N : Pre(j) \in Q}
<1>1. N \in Nat /\ Pre(0) = <<>>
  OBVIOUS
<1>2. \A j \in 1 .. N :
        Pre(j) = Append(Pre(j - 1), s[j]) /\ s[j] \in T /\ Pre(j - 1) \in Seq(T)
  BY <1>1
<1> HIDE DEF Pre
<1>3. 0 \in P /\ \A j \in 1 .. N : j - 1 \in P => j \in P
  <2>1. 0 \in 0 .. N /\ Pre(0) \in Q
    <3>1. 0 \in 0 .. N
      BY <1>1
    <3> QED BY <1>1, <3>1, Zenon
  <2>2. ASSUME NEW j \in 1 .. N, j - 1 \in P PROVE j \in P
    <3>1. Pre(j) \in Q
      BY <1>2, <2>2
    <3> QED BY <3>1
  <2> QED BY <2>1, <2>2
<1> HIDE DEF P
<1>4. N \in P
  <2>1. 0 .. N \subseteq P
    BY <1>1, <1>3, UpTo
  <2> QED BY <1>1, <2>1
<1>5. SubSeq(s, 1, N) = s
  OBVIOUS
<1> QED BY <1>4, <1>5 DEF P, Pre

(* The lines that name none of the shells to drop, one line after another. *)
OneByOne(f, l, D) ==
  /\ f[0] = <<>>
  /\ \A j \in 1 .. Len(l) : f[j] = IF l[j] \in D THEN f[j - 1] ELSE Append(f[j - 1], l[j])

LEMMA UnnamedSteps ==
  ASSUME NEW T, NEW l \in Seq(T), NEW D
  PROVE  \E f \in [0 .. Len(l) -> Seq(T)] : Unnamed(l, D) = f[Len(l)] /\ OneByOne(f, l, D)
<1> DEFINE N == Len(l)
           Q == Seq(T)
           nil == <<>>
           Ext(s, j) == IF l[j] \in D THEN s ELSE Append(s, l[j])
           G == [z \in Q \X (1 .. N) |-> Ext(z[1], z[2])]
<1>1. N \in Nat /\ nil \in Q /\ \A s \in Q : \A j \in 1 .. N : Ext(s, j) \in Q
  OBVIOUS
<1> HIDE DEF N, Q, Ext, nil
<1>2. PICK f : Steps(f, Q, N, nil, G)
  <2>1. G \in [Q \X (1 .. N) -> Q]
    BY <1>1
  <2> HIDE DEF G
  <2> QED BY <1>1, <2>1, RecursionExists
<1>3. f \in [0 .. N -> Q] /\ f[0] = nil /\ \A j \in 1 .. N : f[j] = Ext(f[j - 1], j)
  <2>1. f \in [0 .. N -> Q] /\ f[0] = nil /\ \A j \in 1 .. N : f[j] = G[<<f[j - 1], j>>]
    BY <1>2, Zenon DEF Steps
  <2>2. ASSUME NEW j \in 1 .. N PROVE f[j] = Ext(f[j - 1], j)
    <3>1. f[j - 1] \in Q
      BY <1>1, <2>1
    <3> QED BY <2>1, <3>1
  <2> QED BY <2>1, <2>2
<1> DEFINE Fix(h) == h = [j \in 0 .. N |-> IF j = 0 THEN nil ELSE Ext(h[j - 1], j)]
           t == CHOOSE h : Fix(h)
<1>4. Fix(f)
  BY <1>1, <1>3
<1>5. Fix(t)
  <2> HIDE DEF Fix
  <2> QED BY <1>4
<1>6. Unnamed(l, D) = t[N]
  BY DEF Unnamed, N, Ext, nil
<1>7. \A h : Fix(h) => /\ h[0] = nil /\ \A j \in 1 .. N : h[j] = Ext(h[j - 1], j)
                       /\ h = [j \in 0 .. N |-> h[j]]
  <2>1. 0 \in 0 .. N /\ \A j \in 1 .. N : j \in 0 .. N /\ j # 0
    BY <1>1
  <2> QED BY <2>1, Zenon
<1> HIDE DEF Fix, t
<1>8. \A j \in 0 .. N : t[j] \in Q
  <2> DEFINE P == {j \in 0 .. N : t[j] \in Q}
  <2>1. 0 \in P /\ \A j \in 1 .. N : j - 1 \in P => j \in P
    BY <1>1, <1>5, <1>7
  <2> HIDE DEF P
  <2>2. 0 .. N \subseteq P
    BY <1>1, <2>1, UpTo
  <2> QED BY <2>2 DEF P
<1>9. t \in [0 .. N -> Q]
  BY <1>5, <1>7, <1>8
<1>10. t[0] = <<>> /\ \A j \in 1 .. Len(l) : t[j] = IF l[j] \in D THEN t[j - 1] ELSE Append(t[j - 1], l[j])
  BY <1>5, <1>7, Zenon DEF N, Ext, nil
<1> QED BY <1>6, <1>9, <1>10, Zenon DEF OneByOne, N, Q

LEMMA UnnamedType ==
  ASSUME NEW T, NEW l \in Seq(T), NEW D PROVE Unnamed(l, D) \in Seq(T)
<1>1. PICK f \in [0 .. Len(l) -> Seq(T)] : Unnamed(l, D) = f[Len(l)]
  BY UnnamedSteps
<1>2. Len(l) \in 0 .. Len(l)
  OBVIOUS
<1> QED BY <1>1, <1>2

LEMMA UnnamedEmpty == ASSUME NEW D PROVE Unnamed(<<>>, D) = <<>>
<1>1. PICK l \in Seq({}) : l = <<>>
  <2>1. <<>> \in Seq({})
    BY EmptySeq
  <2> QED BY <2>1, Zenon
<1>2. PICK f \in [0 .. Len(l) -> Seq({})] : Unnamed(l, D) = f[Len(l)] /\ OneByOne(f, l, D)
  BY UnnamedSteps
<1>3. Unnamed(l, D) = f[0]
  BY <1>1, <1>2
<1> QED BY <1>1, <1>2, <1>3, Zenon DEF OneByOne

LEMMA UnnamedAppend ==
  ASSUME NEW T, NEW l \in Seq(T), NEW x \in T, NEW D
  PROVE  Unnamed(Append(l, x), D) = IF x \in D THEN Unnamed(l, D) ELSE Append(Unnamed(l, D), x)
<1> DEFINE N == Len(l)
           m == Append(l, x)
<1>1. /\ N \in Nat /\ m \in Seq(T) /\ Len(m) = N + 1 /\ m[N + 1] = x
      /\ \A j \in 1 .. N : m[j] = l[j]
  BY AppendFacts
<1> HIDE DEF m
<1>2. PICK f \in [0 .. Len(l) -> Seq(T)] : Unnamed(l, D) = f[Len(l)] /\ OneByOne(f, l, D)
  BY UnnamedSteps
<1>3. PICK g \in [0 .. Len(m) -> Seq(T)] : Unnamed(m, D) = g[Len(m)] /\ OneByOne(g, m, D)
  BY <1>1, UnnamedSteps
<1> DEFINE P == {j \in 0 .. N : g[j] = f[j]}
<1>4. 0 .. N \subseteq P
  <2>1. 0 \in P
    BY <1>1, <1>2, <1>3 DEF OneByOne
  <2>2. ASSUME NEW j \in 1 .. N, j - 1 \in P PROVE j \in P
    <3>1. j \in 1 .. Len(m) /\ m[j] = l[j] /\ g[j - 1] = f[j - 1]
      BY <1>1, <2>2
    <3>2. /\ f[j] = IF l[j] \in D THEN f[j - 1] ELSE Append(f[j - 1], l[j])
          /\ g[j] = IF m[j] \in D THEN g[j - 1] ELSE Append(g[j - 1], m[j])
      BY <1>2, <1>3, <3>1, Zenon DEF OneByOne
    <3>3. g[j] = f[j]
      BY <3>1, <3>2, Zenon
    <3> QED BY <3>3
  <2> HIDE DEF P
  <2> QED BY <1>1, <2>1, <2>2, UpTo
<1>5. g[N] = f[N] /\ N + 1 \in 1 .. Len(m) /\ N + 1 - 1 = N
  BY <1>1, <1>4
<1>6. g[N + 1] = IF x \in D THEN g[N] ELSE Append(g[N], x)
  <2>1. PICK k \in 1 .. Len(m) : k = N + 1 /\ k - 1 = N
    BY <1>1, <1>5
  <2>2. g[k] = IF m[k] \in D THEN g[k - 1] ELSE Append(g[k - 1], m[k])
    BY <1>3, Zenon DEF OneByOne
  <2>3. m[k] = x
    BY <1>1, <2>1
  <2> QED BY <2>1, <2>2, <2>3
<1>7. Unnamed(l, D) = f[N] /\ Unnamed(m, D) = g[N + 1]
  BY <1>1, <1>2, <1>3
<1>8. Unnamed(m, D) = IF x \in D THEN Unnamed(l, D) ELSE Append(Unnamed(l, D), x)
  BY <1>5, <1>6, <1>7, Zenon
<1> QED BY <1>8 DEF m

(* What is unnamed of two lists, of a list of named lines, and of what is  *)
(* kept already.                                                           *)
LEMMA UnnamedJoin ==
  ASSUME NEW T, NEW l \in Seq(T), NEW m \in Seq(T), NEW D
  PROVE  Unnamed(l \o m, D) = Unnamed(l, D) \o Unnamed(m, D)
<1> DEFINE U(s) == Unnamed(s, D)
           Q == {s \in Seq(T) : U(l \o s) = U(l) \o U(s)}
<1>1. /\ U(<<>>) = <<>>
      /\ \A s \in Seq(T) : U(s) \in Seq(T)
      /\ \A s \in Seq(T), x \in T : U(Append(s, x)) = IF x \in D THEN U(s) ELSE Append(U(s), x)
  BY UnnamedEmpty, UnnamedType, UnnamedAppend
<1> HIDE DEF U
<1>2. <<>> \in Q
  <2>1. l \o <<>> = l /\ U(l) \o <<>> = U(l) /\ <<>> \in Seq(T)
    BY <1>1
  <2> QED BY <1>1, <2>1, Zenon
<1>3. ASSUME NEW s \in Seq(T), s \in Q, NEW x \in T PROVE Append(s, x) \in Q
  <2>1. /\ l \o Append(s, x) = Append(l \o s, x) /\ l \o s \in Seq(T)
        /\ Append(s, x) \in Seq(T) /\ U(l) \o Append(U(s), x) = Append(U(l) \o U(s), x)
    BY <1>1
  <2>2. /\ U(Append(l \o s, x)) = IF x \in D THEN U(l \o s) ELSE Append(U(l \o s), x)
        /\ U(Append(s, x)) = IF x \in D THEN U(s) ELSE Append(U(s), x)
    BY <1>1, <2>1
  <2>3. U(l \o s) = U(l) \o U(s)
    BY <1>3
  <2>4. U(l \o Append(s, x)) = U(l) \o U(Append(s, x))
    BY <2>1, <2>2, <2>3, Zenon
  <2> QED BY <2>1, <2>4
<1> HIDE DEF Q
<1>4. m \in Q
  BY <1>2, <1>3, AppendInduction
<1> QED BY <1>4 DEF Q, U

LEMMA UnnamedNone ==
  ASSUME NEW T, NEW l \in Seq(T), NEW D, \A i \in 1 .. Len(l) : l[i] \in D
  PROVE  Unnamed(l, D) = <<>>
<1> DEFINE U(s) == Unnamed(s, D)
           nil == <<>>
           InD(s) == \A i \in 1 .. Len(s) : s[i] \in D
           Q == {s \in Seq(T) : InD(s) => U(s) = nil}
<1>1. /\ U(nil) = nil
      /\ \A s \in Seq(T), x \in T : U(Append(s, x)) = IF x \in D THEN U(s) ELSE Append(U(s), x)
  BY UnnamedEmpty, UnnamedAppend
<1>2. nil \in Seq(T) /\ \A s \in Seq(T), x \in T : Append(s, x) \in Seq(T)
  OBVIOUS
<1>3. \A s \in Seq(T), x \in T : InD(Append(s, x)) => InD(s) /\ x \in D
  <2> SUFFICES ASSUME NEW s \in Seq(T), NEW x \in T, InD(Append(s, x)) PROVE InD(s) /\ x \in D
    OBVIOUS
  <2>1. /\ Len(s) \in Nat /\ Len(Append(s, x)) = Len(s) + 1 /\ Append(s, x)[Len(s) + 1] = x
        /\ \A i \in 1 .. Len(s) : Append(s, x)[i] = s[i]
    BY AppendFacts
  <2>2. Len(s) + 1 \in 1 .. Len(Append(s, x)) /\ \A i \in 1 .. Len(s) : i \in 1 .. Len(Append(s, x))
    BY <2>1
  <2> QED BY <2>1, <2>2
<1>4. InD(l)
  OBVIOUS
<1> HIDE DEF U, InD, nil
<1>5. nil \in Q
  BY <1>1, <1>2
<1>6. ASSUME NEW s \in Seq(T), s \in Q, NEW x \in T PROVE Append(s, x) \in Q
  BY <1>1, <1>2, <1>3, <1>6
<1> HIDE DEF Q
<1>7. l \in Q
  BY <1>5, <1>6, AppendInduction DEF nil
<1> QED BY <1>4, <1>7 DEF Q, U, nil

LEMMA UnnamedTwice ==
  ASSUME NEW T, NEW l \in Seq(T), NEW D, NEW E, D \subseteq E
  PROVE  Unnamed(Unnamed(l, D), E) = Unnamed(l, E)
<1> DEFINE U(s) == Unnamed(s, D)
           V(s) == Unnamed(s, E)
           Q == {s \in Seq(T) : V(U(s)) = V(s)}
<1>1. /\ U(<<>>) = <<>> /\ \A s \in Seq(T) : U(s) \in Seq(T)
      /\ \A s \in Seq(T), x \in T : U(Append(s, x)) = IF x \in D THEN U(s) ELSE Append(U(s), x)
      /\ \A s \in Seq(T), x \in T : V(Append(s, x)) = IF x \in E THEN V(s) ELSE Append(V(s), x)
  BY UnnamedEmpty, UnnamedType, UnnamedAppend
<1> HIDE DEF U, V
<1>2. <<>> \in Seq(T) /\ \A s \in Seq(T), x \in T : Append(s, x) \in Seq(T)
  OBVIOUS
<1>3. <<>> \in Q
  BY <1>1, <1>2, Zenon
<1>4. ASSUME NEW s \in Seq(T), s \in Q, NEW x \in T PROVE Append(s, x) \in Q
  <2>1. V(U(s)) = V(s) /\ U(s) \in Seq(T)
    BY <1>1, <1>4
  <2>2. CASE x \in D
    <3>1. x \in E
      BY <2>2
    <3>2. U(Append(s, x)) = U(s) /\ V(Append(s, x)) = V(s)
      BY <1>1, <2>2, <3>1, Zenon
    <3> QED BY <1>2, <2>1, <3>2
  <2>3. CASE x \notin D
    <3>1. U(Append(s, x)) = Append(U(s), x)
      BY <1>1, <2>3, Zenon
    <3>2. /\ V(Append(U(s), x)) = IF x \in E THEN V(U(s)) ELSE Append(V(U(s)), x)
          /\ V(Append(s, x)) = IF x \in E THEN V(s) ELSE Append(V(s), x)
      BY <1>1, <2>1, Zenon
    <3>3. V(U(Append(s, x))) = V(Append(s, x))
      BY <2>1, <3>1, <3>2, Zenon
    <3> QED BY <1>2, <3>3
  <2> QED BY <2>2, <2>3
<1> HIDE DEF Q
<1>5. l \in Q
  BY <1>3, <1>4, AppendInduction
<1> QED BY <1>5 DEF Q, U, V

(* Lists without repetitions.                                              *)
LEMMA LongerInjective ==
  ASSUME NEW T, NEW s \in Seq(T), NEW x \in T
  PROVE  /\ IsInjective(Append(s, x)) <=> IsInjective(s) /\ x \notin ToSet(s)
         /\ ToSet(Append(s, x)) = ToSet(s) \cup {x}
<1> DEFINE n == Len(s)
           t == Append(s, x)
<1>1. /\ n \in Nat /\ DOMAIN s = 1 .. n /\ DOMAIN t = 1 .. n + 1 /\ t[n + 1] = x
      /\ \A i \in 1 .. n : t[i] = s[i]
  BY AppendFacts
<1> HIDE DEF n, t
<1>2. 1 .. n + 1 = (1 .. n) \cup {n + 1} /\ n + 1 \notin 1 .. n
  BY <1>1
<1>3. ToSet(t) = ToSet(s) \cup {x}
  BY <1>1, <1>2 DEF ToSet
<1>4. IsInjective(t) => IsInjective(s) /\ x \notin ToSet(s)
  BY <1>1, <1>2 DEF ToSet, IsInjective
<1>5. IsInjective(s) /\ x \notin ToSet(s) => IsInjective(t)
  BY <1>1, <1>2 DEF ToSet, IsInjective
<1> QED BY <1>3, <1>4, <1>5 DEF t

LEMMA UnnamedInjective ==
  ASSUME NEW T, NEW l \in Seq(T), IsInjective(l), NEW D
  PROVE  IsInjective(Unnamed(l, D)) /\ ToSet(Unnamed(l, D)) \subseteq ToSet(l)
<1> DEFINE U(s) == Unnamed(s, D)
           nil == <<>>
           Fine(s) == /\ IsInjective(s) => IsInjective(U(s))
                      /\ ToSet(U(s)) \subseteq ToSet(s)
           Q == {s \in Seq(T) : Fine(s)}
<1>1. /\ U(nil) = nil /\ \A s \in Seq(T) : U(s) \in Seq(T)
      /\ \A s \in Seq(T), x \in T : U(Append(s, x)) = IF x \in D THEN U(s) ELSE Append(U(s), x)
  BY UnnamedEmpty, UnnamedType, UnnamedAppend
<1>2. nil \in Seq(T) /\ \A s \in Seq(T), x \in T : Append(s, x) \in Seq(T)
  OBVIOUS
<1> HIDE DEF U, nil
<1>3. nil \in Q
  BY <1>1, <1>2
<1>4. ASSUME NEW s \in Seq(T), s \in Q, NEW x \in T PROVE Append(s, x) \in Q
  <2>1. Fine(s) /\ U(s) \in Seq(T) /\ Append(s, x) \in Seq(T)
    BY <1>1, <1>2, <1>4
  <2>2. /\ IsInjective(Append(s, x)) <=> IsInjective(s) /\ x \notin ToSet(s)
        /\ ToSet(Append(s, x)) = ToSet(s) \cup {x}
        /\ IsInjective(Append(U(s), x)) <=> IsInjective(U(s)) /\ x \notin ToSet(U(s))
        /\ ToSet(Append(U(s), x)) = ToSet(U(s)) \cup {x}
    BY <2>1, LongerInjective
  <2>3. CASE x \in D
    <3>1. U(Append(s, x)) = U(s)
      BY <1>1, <2>3, Zenon
    <3> QED BY <2>1, <2>2, <3>1
  <2>4. CASE x \notin D
    <3>1. U(Append(s, x)) = Append(U(s), x)
      BY <1>1, <2>4, Zenon
    <3> QED BY <2>1, <2>2, <3>1
  <2> QED BY <2>3, <2>4
<1> HIDE DEF Q, Fine
<1>5. l \in Q
  BY <1>3, <1>4, AppendInduction DEF nil
<1>6. Fine(l)
  BY <1>5 DEF Q
<1> QED BY <1>6 DEF Fine, U

(* What add-shell adds: names it was given, none that is listed and none   *)
(* twice.                                                                  *)
LEMMA ToAddFacts ==
  ASSUME NEW T, list \in Seq(T), NEW names \in Seq(T)
  PROVE  /\ ToAdd(names) \in Seq(T) /\ ToSet(ToAdd(names)) \subseteq ToSet(names)
         /\ IsInjective(list) => IsInjective(list \o ToAdd(names))
<1> DEFINE N == Len(names)
           Q == Seq(T)
           nil == <<>>
           Ext(s, j) == IF names[j] \in ToSet(list \o s) THEN s ELSE Append(s, names[j])
           Fix(h) == h = [j \in 0 .. N |-> IF j = 0 THEN nil ELSE Ext(h[j - 1], j)]
           t == CHOOSE h : Fix(h)
           Fine(s) == /\ s \in Q /\ ToSet(s) \subseteq ToSet(names)
                      /\ IsInjective(list) => IsInjective(list \o s)
           G == [z \in Q \X (1 .. N) |-> Ext(z[1], z[2])]
<1>1. N \in Nat /\ nil \in Q /\ \A s \in Q : \A j \in 1 .. N : Ext(s, j) \in Q
  OBVIOUS
<1>2. ToAdd(names) = t[N]
  BY DEF ToAdd
<1>3. Fine(nil)
  <2>1. ToSet(nil) = {} /\ list \o nil = list
    BY DEF ToSet
  <2> QED BY <1>1, <2>1
<1>4. ASSUME NEW s \in Q, Fine(s), NEW j \in 1 .. N PROVE Fine(Ext(s, j))
  <2> DEFINE x == names[j]
  <2>1. CASE x \in ToSet(list \o s)
    BY <1>4, <2>1
  <2>2. CASE x \notin ToSet(list \o s)
    <3>1. /\ x \in T /\ x \in ToSet(names) /\ list \o s \in Seq(T) /\ Append(s, x) \in Q
          /\ list \o Append(s, x) = Append(list \o s, x)
      BY DEF ToSet
    <3> HIDE DEF x
    <3>2. /\ IsInjective(Append(list \o s, x)) <=> IsInjective(list \o s) /\ x \notin ToSet(list \o s)
          /\ ToSet(Append(s, x)) = ToSet(s) \cup {x}
      BY <3>1, LongerInjective
    <3>3. Fine(Append(s, x))
      BY <1>4, <2>2, <3>1, <3>2
    <3>4. Ext(s, j) = Append(s, x)
      BY <2>2 DEF x
    <3> QED BY <3>3, <3>4, Zenon
  <2> QED BY <2>1, <2>2
<1> HIDE DEF N, Q, Ext, nil, Fine
<1>5. PICK f : Steps(f, Q, N, nil, G)
  <2>1. G \in [Q \X (1 .. N) -> Q]
    BY <1>1
  <2> HIDE DEF G
  <2> QED BY <1>1, <2>1, RecursionExists
<1>6. Fix(f)
  <2>1. f \in [0 .. N -> Q] /\ f[0] = nil /\ \A j \in 1 .. N : f[j] = G[<<f[j - 1], j>>]
    BY <1>5, Zenon DEF Steps
  <2>2. ASSUME NEW j \in 1 .. N PROVE f[j] = Ext(f[j - 1], j)
    <3>1. f[j - 1] \in Q
      BY <1>1, <2>1
    <3> QED BY <2>1, <3>1
  <2> QED BY <1>1, <2>1, <2>2
<1>7. Fix(t)
  <2> HIDE DEF Fix
  <2> QED BY <1>6
<1>8. \A h : Fix(h) => h[0] = nil /\ \A j \in 1 .. N : h[j] = Ext(h[j - 1], j)
  <2>1. 0 \in 0 .. N /\ \A j \in 1 .. N : j \in 0 .. N /\ j # 0
    BY <1>1
  <2> QED BY <2>1, Zenon
<1> HIDE DEF Fix, t
<1>9. Fine(t[N])
  <2> DEFINE P == {j \in 0 .. N : t[j] \in Q /\ Fine(t[j])}
  <2>1. t[0] = nil /\ \A j \in 1 .. N : t[j] = Ext(t[j - 1], j)
    BY <1>7, <1>8, Zenon
  <2>2. 0 \in P
    BY <1>1, <1>3, <2>1
  <2>3. ASSUME NEW j \in 1 .. N, j - 1 \in P PROVE j \in P
    <3>1. t[j - 1] \in Q /\ Fine(t[j - 1]) /\ t[j] = Ext(t[j - 1], j) /\ j \in 0 .. N
      BY <1>1, <2>1, <2>3
    <3>2. t[j] \in Q /\ Fine(t[j])
      BY <1>1, <1>4, <3>1
    <3> QED BY <3>1, <3>2
  <2> HIDE DEF P
  <2>4. N \in P
    <3>1. 0 .. N \subseteq P
      BY <1>1, <2>2, <2>3, UpTo
    <3> QED BY <1>1, <3>1
  <2> QED BY <2>4 DEF P
<1> QED BY <1>2, <1>9 DEF Fine, Q

(* A line that is written at an offset no further than the end.            *)
LEMMA LinePut ==
  ASSUME NEW T, NEW l \in Seq(T), NEW x \in T, NEW n \in 1 .. Len(l) + 1
  PROVE  /\ PutLine(l, n, x) \in Seq(T) /\ n <= Len(PutLine(l, n, x))
         /\ \A i \in n + 1 .. Len(PutLine(l, n, x)) : i \in n .. Len(l) /\ PutLine(l, n, x)[i] = l[i]
         /\ SubSeq(PutLine(l, n, x), 1, n) = Append(SubSeq(l, 1, n - 1), x)
         /\ n = Len(l) + 1 => PutLine(l, n, x) = Append(l, x)
<1> DEFINE k == IF n > Len(l) THEN n ELSE Len(l)
           m == PutLine(l, n, x)
<1>1. /\ Len(l) \in Nat /\ n \in Nat /\ k \in Nat /\ n <= k /\ Len(l) <= k
      /\ DOMAIN l = 1 .. Len(l) /\ \A i \in 1 .. k : i = n \/ i \in 1 .. Len(l)
      /\ \A i \in n + 1 .. k : i \in n .. Len(l)
  OBVIOUS
<1>2. m = [i \in 1 .. k |-> IF i = n THEN x ELSE IF i \in DOMAIN l THEN l[i] ELSE Hole]
  BY DEF PutLine
<1> HIDE DEF k
<1>3. m = [i \in 1 .. k |-> IF i = n THEN x ELSE l[i]]
  BY <1>1, <1>2
<1>4. m \in Seq(T) /\ Len(m) = k /\ \A i \in 1 .. k : m[i] = IF i = n THEN x ELSE l[i]
  <2>1. \A i \in 1 .. k : i # n => l[i] \in T
    BY <1>1
  <2> QED BY <1>1, <1>3, <2>1
<1> HIDE DEF m
<1>5. SubSeq(m, 1, n) = Append(SubSeq(l, 1, n - 1), x)
  BY <1>1, <1>4
<1>6. n = Len(l) + 1 => m = Append(l, x)
  <2> SUFFICES ASSUME n = Len(l) + 1 PROVE m = Append(l, x)
    OBVIOUS
  <2>1. k = n
    BY DEF k
  <2> QED BY <1>1, <1>4, <2>1
<1>7. \A i \in n + 1 .. k : m[i] = l[i]
  BY <1>1, <1>4
<1> QED BY <1>1, <1>4, <1>5, <1>6, <1>7 DEF m

(* The sequences of the proof and their parts.                             *)
LEMMA HeadMoves ==
  ASSUME NEW T, NEW l \in Seq(T), NEW r \in Seq(T), r # <<>>
  PROVE  /\ Head(r) \in T /\ Tail(r) \in Seq(T) /\ Append(l, Head(r)) \o Tail(r) = l \o r
         /\ Head(r) \in ToSet(r) /\ ToSet(Tail(r)) \subseteq ToSet(r)
<1>1. Head(r) \in T /\ Tail(r) \in Seq(T) /\ Append(l, Head(r)) \o Tail(r) = l \o r
  OBVIOUS
<1>2. /\ Len(r) \in Nat \ {0} /\ Head(r) = r[1] /\ DOMAIN r = 1 .. Len(r)
      /\ DOMAIN Tail(r) = 1 .. Len(r) - 1 /\ \A i \in 1 .. Len(r) - 1 : Tail(r)[i] = r[i + 1]
  OBVIOUS
<1>3. Head(r) \in ToSet(r)
  BY <1>2 DEF ToSet
<1>4. ToSet(Tail(r)) \subseteq ToSet(r)
  <2>1. \A i \in 1 .. Len(r) - 1 : i + 1 \in 1 .. Len(r)
    BY <1>2
  <2> QED BY <1>2, <2>1 DEF ToSet
<1> QED BY <1>1, <1>3, <1>4

LEMMA PartInjective ==
  ASSUME NEW T, NEW l \in Seq(T), NEW r \in Seq(T), IsInjective(l \o r)
  PROVE  IsInjective(l) /\ IsInjective(r)
<1>1. /\ Len(l) \in Nat /\ Len(r) \in Nat /\ DOMAIN l = 1 .. Len(l) /\ DOMAIN r = 1 .. Len(r)
      /\ DOMAIN (l \o r) = 1 .. Len(l) + Len(r)
      /\ \A i \in 1 .. Len(l) : (l \o r)[i] = l[i]
      /\ \A i \in 1 .. Len(r) : (l \o r)[Len(l) + i] = r[i]
  OBVIOUS
<1>2. \A i \in 1 .. Len(l) : i \in 1 .. Len(l) + Len(r)
  BY <1>1
<1>3. \A i \in 1 .. Len(r) : Len(l) + i \in 1 .. Len(l) + Len(r)
  BY <1>1
<1>4. \A i, j \in 1 .. Len(r) : Len(l) + i = Len(l) + j => i = j
  BY <1>1
<1>5. IsInjective(l)
  BY <1>1, <1>2 DEF IsInjective
<1>6. IsInjective(r)
  <2> SUFFICES ASSUME NEW i \in 1 .. Len(r), NEW j \in 1 .. Len(r), r[i] = r[j] PROVE i = j
    BY <1>1 DEF IsInjective
  <2>1. (l \o r)[Len(l) + i] = (l \o r)[Len(l) + j]
    BY <1>1
  <2>2. Len(l) + i = Len(l) + j
    BY <1>1, <1>3, <2>1, Zenon DEF IsInjective
  <2> QED BY <1>4, <2>2
<1> QED BY <1>5, <1>6

-----------------------------------------------------------------------------
ListLine == Shell \cup {Hole}
ShellTypes ==
  /\ list \in Seq(ListLine) /\ sjob \in [ShellProcs -> ShellJobs \cup {NoShellJob}]
  /\ sh \in [ShellProcs -> {"new", "read", "write", "done", "killed"}]
  /\ pending \in [ShellProcs -> Seq(ListLine)] /\ offset \in [ShellProcs -> Nat]

(* How far an invocation is.                                               *)
ShellPhase(p) ==
  /\ sh[p] = "new" => sjob[p] = NoShellJob /\ offset[p] = 0 /\ pending[p] = <<>>
  /\ sh[p] # "new" => sjob[p] \in ShellJobs
  /\ sh[p] = "read" => offset[p] = 0 \/ (offset[p] = 1 /\ sjob[p].op = "remove")
  /\ sh[p] = "write" => pending[p] # <<>>
  /\ sh[p] = "write" /\ sjob[p].op = "remove" => offset[p] > 0
  /\ sjob[p].op = "add" => ToSet(pending[p]) \subseteq Named(p)
ShellPhases == \A p \in ShellProcs : ShellPhase(p)

(* An invocation that is alone has a list without repetitions, and will    *)
(* have one once it has written all it means to.                           *)
WillList(s, op, o, r, l) ==
  /\ s = "read" /\ o = 1 => IsInjective(r)
  /\ s = "write" => IsInjective(l \o r)
  /\ s = "write" /\ op = "remove" => o = Len(l) + 1
AloneAtWork ==
  ~overlap =>
    /\ \A p, q \in ShellProcs : AtWork(p) /\ AtWork(q) => p = q
    /\ IsInjective(list)
    /\ \A p \in ShellProcs : WillList(sh[p], sjob[p].op, offset[p], pending[p], list)

(* Without the shells that somebody names, a list is what it was at first; *)
(* one remover writes such a list over what others append meanwhile.       *)
NamedByAny == UNION {Named(p) : p \in ShellProcs}
LikeFirst(l, A) == \A S : A \subseteq S => Unnamed(l, S) = Unnamed(ListedFirst, S)
Rewrites(s, o, r, l, A) ==
  /\ s \in {"read", "done"} => LikeFirst(l, A)
  /\ s = "read" /\ o = 1 => LikeFirst(r, A)
  /\ s = "write" =>
       /\ o <= Len(l) + 1 /\ \A i \in o .. Len(l) : l[i] \in A
       /\ LikeFirst(SubSeq(l, 1, o - 1) \o r, A)
OneRewrites ==
  (\A p, q \in Removers : p = q) =>
    /\ Removers = {} => LikeFirst(list, NamedByAny)
    /\ \A p \in Removers : Rewrites(sh[p], offset[p], pending[p], list, NamedByAny)

ShellIInv == ShellTypes /\ ShellPhases /\ AloneAtWork /\ OneRewrites

LEMMA ShellJobFacts ==
  /\ \A j \in ShellJobs : j.op \in {"add", "remove"} /\ j.names \in Seq(ListLine) /\ ToSet(j.names) \subseteq Shell
  /\ NoShellJob.op = "none" /\ ToSet(NoShellJob.names) = {}
  /\ ListedFirst \in Seq(ListLine) /\ IsInjective(ListedFirst)
<1>1. \A j \in ShellJobs : j.names \in Seq(Shell) => j.names \in Seq(ListLine) /\ ToSet(j.names) \subseteq Shell
  <2> SUFFICES ASSUME NEW s \in Seq(Shell) PROVE s \in Seq(ListLine) /\ ToSet(s) \subseteq Shell
    OBVIOUS
  <2>1. ToSet(s) \subseteq Shell
    BY DEF ToSet
  <2> HIDE DEF Shell
  <2>2. s \in Seq(ListLine)
    BY DEF ListLine
  <2> QED BY <2>1, <2>2
<1>2. ListedFirst \in Seq(ListLine)
  <2>1. ListedFirst \in Seq(Shell)
    BY ShellListAssumption
  <2> QED BY <2>1 DEF ListLine
<1>3. NoShellJob.op = "none" /\ ToSet(NoShellJob.names) = {}
  BY DEF NoShellJob, ToSet
<1> QED BY <1>1, <1>2, <1>3, ShellListAssumption

LEMMA ShellBegins == ShellListInit => ShellIInv
<1> SUFFICES ASSUME ShellListInit PROVE ShellIInv
  OBVIOUS
<1>1. list = ListedFirst /\ \A p \in ShellProcs :
        sh[p] = "new" /\ sjob[p] = NoShellJob /\ pending[p] = <<>> /\ offset[p] = 0
  BY DEF ShellListInit
<1>2. ShellTypes
  <2>1. <<>> \in Seq(ListLine)
    OBVIOUS
  <2> QED BY <2>1, ShellJobFacts DEF ShellListInit, ShellTypes
<1>3. ShellPhases
  <2>1. \A p \in ShellProcs : sjob[p].op # "add" /\ sh[p] # "read" /\ sh[p] # "write"
    BY <1>1, ShellJobFacts
  <2> QED BY <1>1, <2>1 DEF ShellPhases, ShellPhase
<1>4. AloneAtWork
  BY <1>1, ShellJobFacts DEF AloneAtWork, AtWork, WillList
<1>5. OneRewrites
  <2>1. Removers = {} /\ LikeFirst(list, NamedByAny)
    BY <1>1, ShellJobFacts DEF Removers, LikeFirst
  <2> QED BY <2>1 DEF OneRewrites
<1> QED BY <1>2, <1>3, <1>4, <1>5 DEF ShellIInv

(* What an invocation at work may rely on.                                 *)
LEMMA ShellHeld ==
  ASSUME ShellIInv, NEW p \in ShellProcs, sh[p] \in {"read", "write"}
  PROVE  /\ list \in Seq(ListLine) /\ pending[p] \in Seq(ListLine) /\ offset[p] \in Nat
         /\ sjob[p] \in ShellJobs /\ sjob[p].op \in {"add", "remove"}
         /\ sjob[p].names \in Seq(ListLine) /\ Named(p) \subseteq NamedByAny
         /\ ShellPhase(p) /\ AtWork(p)
         /\ p \in Removers <=> sjob[p].op = "remove"
         /\ ~overlap => /\ \A q \in ShellProcs : AtWork(q) => q = p
                        /\ IsInjective(list)
                        /\ WillList(sh[p], sjob[p].op, offset[p], pending[p], list)
<1>1. ShellPhase(p) /\ AtWork(p) /\ sjob[p] \in ShellJobs
  BY DEF ShellIInv, ShellPhases, ShellPhase, AtWork
<1>2. /\ list \in Seq(ListLine) /\ pending[p] \in Seq(ListLine) /\ offset[p] \in Nat
  BY DEF ShellIInv, ShellTypes
<1>3. ~overlap => /\ \A q \in ShellProcs : AtWork(q) => q = p
                  /\ IsInjective(list)
                  /\ WillList(sh[p], sjob[p].op, offset[p], pending[p], list)
  BY <1>1 DEF ShellIInv, AloneAtWork
<1> QED BY <1>1, <1>2, <1>3, ShellJobFacts DEF NamedByAny, Removers

(* The steps by which an invocation p goes on: its own phase and what it   *)
(* means to write are what is to be looked at.                             *)
LEMMA ShellGoesOn ==
  ASSUME ShellIInv, NEW p \in ShellProcs, sh[p] \in {"read", "write"},
         NEW s \in {"read", "write", "done", "killed"}, NEW o \in Nat, NEW r \in Seq(ListLine),
         sjob' = sjob, overlap' = overlap, list' \in Seq(ListLine),
         sh' = [sh EXCEPT ![p] = s], offset' = [offset EXCEPT ![p] = o],
         pending' = [pending EXCEPT ![p] = r],
         s = "read" => o = 0 \/ (o = 1 /\ sjob[p].op = "remove"),
         s = "write" => r # <<>>,
         s = "write" /\ sjob[p].op = "remove" => o > 0,
         sjob[p].op = "add" => ToSet(r) \subseteq Named(p),
         ~overlap => IsInjective(list') /\ WillList(s, sjob[p].op, o, r, list'),
         sjob[p].op = "remove" /\ Rewrites(sh[p], offset[p], pending[p], list, NamedByAny) =>
           Rewrites(s, o, r, list', NamedByAny),
         sjob[p].op = "add" =>
           \/ list' = list
           \/ \E x \in NamedByAny \cap ListLine : list' = Append(list, x)
  PROVE  ShellIInv'
<1>1. /\ sh'[p] = s /\ offset'[p] = o /\ pending'[p] = r /\ sjob'[p] = sjob[p]
      /\ \A q \in ShellProcs \ {p} : /\ sh'[q] = sh[q] /\ offset'[q] = offset[q]
                                     /\ pending'[q] = pending[q] /\ sjob'[q] = sjob[q]
  BY DEF ShellIInv, ShellTypes
<1>2. ShellTypes'
  BY DEF ShellIInv, ShellTypes
<1>3. ShellPhases'
  <2>1. ShellPhase(p)'
    BY <1>1, ShellHeld DEF ShellPhase, Named
  <2>2. ASSUME NEW q \in ShellProcs \ {p} PROVE ShellPhase(q)'
    BY <1>1, <2>2 DEF ShellIInv, ShellPhases, ShellPhase, Named
  <2> QED BY <2>1, <2>2 DEF ShellPhases
<1>4. AloneAtWork'
  <2> SUFFICES ASSUME ~overlap PROVE
        /\ \A q1, q2 \in ShellProcs : AtWork(q1)' /\ AtWork(q2)' => q1 = q2
        /\ IsInjective(list')
        /\ \A q \in ShellProcs : WillList(sh'[q], sjob'[q].op, offset'[q], pending'[q], list')
    BY DEF AloneAtWork
  <2>1. \A q \in ShellProcs \ {p} : sh[q] \notin {"read", "write"}
    BY ShellHeld DEF AtWork
  <2>2. \A q \in ShellProcs : AtWork(q)' => q = p
    BY <1>1, <2>1 DEF AtWork
  <2>3. WillList(sh'[p], sjob'[p].op, offset'[p], pending'[p], list')
    BY <1>1
  <2>4. ASSUME NEW q \in ShellProcs \ {p}
        PROVE  WillList(sh'[q], sjob'[q].op, offset'[q], pending'[q], list')
    BY <1>1, <2>1, <2>4 DEF WillList
  <2> QED BY <2>2, <2>3, <2>4
<1>5. OneRewrites'
  <2>1. Removers' = Removers /\ NamedByAny' = NamedByAny
    BY DEF Removers, NamedByAny, Named
  <2> DEFINE A == NamedByAny
  <2> SUFFICES ASSUME \A q1, q2 \in Removers : q1 = q2
               PROVE  /\ Removers = {} => LikeFirst(list', A)
                      /\ \A q \in Removers : Rewrites(sh'[q], offset'[q], pending'[q], list', A)
    BY <2>1 DEF OneRewrites
  <2>2. /\ Removers = {} => LikeFirst(list, A)
        /\ \A q \in Removers : Rewrites(sh[q], offset[q], pending[q], list, A)
    BY DEF ShellIInv, OneRewrites
  <2>3. CASE sjob[p].op = "remove"
    <3>1. Removers = {p}
      BY <2>3 DEF Removers
    <3>2. Rewrites(s, o, r, list', A)
      BY <2>2, <2>3, <3>1
    <3> QED BY <1>1, <3>1, <3>2
  <2>4. CASE sjob[p].op = "add"
    <3>1. p \notin Removers
      BY <2>4 DEF Removers
    <3>2. \A q \in Removers : sh'[q] = sh[q] /\ offset'[q] = offset[q] /\ pending'[q] = pending[q]
      BY <1>1, <3>1 DEF Removers
    <3>3. CASE list' = list
      BY <2>2, <3>2, <3>3
    <3>4. ASSUME NEW x \in NamedByAny \cap ListLine, list' = Append(list, x)
          PROVE  /\ Removers = {} => LikeFirst(list', A)
                 /\ \A q \in Removers : Rewrites(sh'[q], offset'[q], pending'[q], list', A)
      <4>1. list \in Seq(ListLine) /\ Len(list') = Len(list) + 1 /\ Len(list) \in Nat
            /\ \A i \in 1 .. Len(list) : list'[i] = list[i]
            /\ list'[Len(list) + 1] = x
        BY <3>4, AppendFacts DEF ShellIInv, ShellTypes
      <4>2. LikeFirst(list, A) => LikeFirst(list', A)
        <5>1. \A S : A \subseteq S => Unnamed(list', S) = Unnamed(list, S)
          BY <3>4, <4>1, UnnamedAppend
        <5> QED BY <5>1 DEF LikeFirst
      <4>3. ASSUME NEW q \in Removers PROVE Rewrites(sh'[q], offset'[q], pending'[q], list', A)
        <5>1. Rewrites(sh[q], offset[q], pending[q], list, A) /\ offset[q] \in Nat /\ ShellPhase(q)
              /\ sjob[q].op = "remove"
          BY <2>2 DEF ShellIInv, ShellTypes, ShellPhases, Removers
        <5>2. CASE sh[q] = "write"
          <6> DEFINE n == offset[q]
          <6>1. n \in Nat \ {0} /\ n <= Len(list) + 1
            BY <5>1, <5>2 DEF ShellPhase, Rewrites
          <6>2. SubSeq(list', 1, n - 1) = SubSeq(list, 1, n - 1)
            BY <3>4, <4>1, <6>1
          <6>3. \A i \in n .. Len(list') : list'[i] \in A
            <7>1. \A i \in n .. Len(list) + 1 : i \in n .. Len(list) \/ i = Len(list) + 1
              BY <4>1, <6>1
            <7>2. \A i \in n .. Len(list) : i \in 1 .. Len(list) /\ list[i] \in A
              BY <4>1, <5>1, <5>2, <6>1 DEF Rewrites
            <7> QED BY <4>1, <7>1, <7>2, <3>4
          <6>4. n <= Len(list') + 1
            BY <4>1, <6>1
          <6> QED BY <3>2, <5>1, <5>2, <6>2, <6>3, <6>4 DEF Rewrites
        <5>3. CASE sh[q] # "write"
          BY <3>2, <4>2, <5>1, <5>3 DEF Rewrites
        <5> QED BY <5>2, <5>3
      <4> QED BY <2>2, <4>2, <4>3
    <3> QED BY <2>4, <3>3, <3>4
  <2> QED BY <2>3, <2>4, ShellHeld
<1> QED BY <1>2, <1>3, <1>4, <1>5 DEF ShellIInv

LEMMA ShellStartKeeps == ASSUME ShellIInv, NEW p \in ShellProcs, ShellStart(p) PROVE ShellIInv'
<1>1. PICK j \in ShellJobs : sjob' = [sjob EXCEPT ![p] = j]
  BY DEF ShellStart
<1>2. /\ sh[p] = "new" /\ sjob[p] = NoShellJob /\ offset[p] = 0 /\ pending[p] = <<>>
      /\ sh' = [sh EXCEPT ![p] = "read"] /\ list' = list /\ pending' = pending /\ offset' = offset
      /\ overlap' = (overlap \/ \E q \in ShellProcs \ {p} : AtWork(q))
  BY DEF ShellStart, ShellIInv, ShellPhases, ShellPhase
<1>3. /\ sh'[p] = "read" /\ sjob'[p] = j
      /\ \A q \in ShellProcs \ {p} : sh'[q] = sh[q] /\ sjob'[q] = sjob[q]
  BY <1>1, <1>2 DEF ShellIInv, ShellTypes
<1>4. ShellTypes'
  BY <1>1, <1>2 DEF ShellIInv, ShellTypes
<1>5. ShellPhases'
  <2>1. ToSet(<<>>) = {}
    BY DEF ToSet
  <2>2. ShellPhase(p)'
    BY <1>2, <1>3, <2>1 DEF ShellPhase
  <2>3. ASSUME NEW q \in ShellProcs \ {p} PROVE ShellPhase(q)'
    BY <1>2, <1>3, <2>3 DEF ShellIInv, ShellPhases, ShellPhase, Named
  <2> QED BY <2>2, <2>3 DEF ShellPhases
<1>6. AloneAtWork'
  <2> SUFFICES ASSUME ~overlap, \A q \in ShellProcs \ {p} : ~AtWork(q) PROVE
        /\ \A q1, q2 \in ShellProcs : AtWork(q1)' /\ AtWork(q2)' => q1 = q2
        /\ IsInjective(list')
        /\ \A q \in ShellProcs : WillList(sh'[q], sjob'[q].op, offset'[q], pending'[q], list')
    BY <1>2 DEF AloneAtWork
  <2>1. \A q \in ShellProcs \ {p} : sh'[q] \notin {"read", "write"}
    BY <1>3 DEF AtWork
  <2>2. \A q \in ShellProcs : AtWork(q)' => q = p
    BY <2>1 DEF AtWork
  <2>3. WillList(sh'[p], sjob'[p].op, offset'[p], pending'[p], list')
    BY <1>2, <1>3 DEF WillList
  <2>4. ASSUME NEW q \in ShellProcs \ {p}
        PROVE  WillList(sh'[q], sjob'[q].op, offset'[q], pending'[q], list')
    BY <2>1, <2>4 DEF WillList
  <2>5. IsInjective(list')
    BY <1>2 DEF ShellIInv, AloneAtWork
  <2> QED BY <2>2, <2>3, <2>4, <2>5
<1>7. OneRewrites'
  <2> DEFINE A == NamedByAny
             B == NamedByAny'
  <2>1. A \subseteq B
    <3>1. \A q \in ShellProcs : Named(q) \subseteq Named(q)'
      BY <1>2, <1>3, ShellJobFacts DEF Named
    <3> QED BY <3>1 DEF NamedByAny
  <2>2. p \notin Removers /\ Removers \subseteq Removers'
        /\ \A q \in Removers' : q \in Removers \/ (q = p /\ p \in Removers')
    BY <1>2, <1>3, ShellJobFacts DEF Removers
  <2> HIDE DEF A, B
  <2> SUFFICES ASSUME \A q1, q2 \in Removers' : q1 = q2
               PROVE  /\ Removers' = {} => LikeFirst(list, B)
                      /\ \A q \in Removers' : Rewrites(sh'[q], offset[q], pending[q], list, B)
    BY <1>2 DEF OneRewrites, B
  <2>3. /\ Removers = {} => LikeFirst(list, A)
        /\ \A q \in Removers : Rewrites(sh[q], offset[q], pending[q], list, A)
    BY <2>2 DEF ShellIInv, OneRewrites, A
  <2>4. \A l : LikeFirst(l, A) => LikeFirst(l, B)
    BY <2>1 DEF LikeFirst
  <2>5. CASE p \in Removers'
    <3>1. Removers' = {p} /\ Removers = {}
      BY <2>2, <2>5
    <3>2. LikeFirst(list, B)
      BY <2>3, <2>4, <3>1
    <3>3. Rewrites(sh'[p], offset[p], pending[p], list, B)
      BY <1>2, <1>3, <3>2 DEF Rewrites
    <3> QED BY <3>1, <3>3
  <2>6. CASE p \notin Removers'
    <3>1. Removers' = Removers
      BY <2>2, <2>6
    <3>2. ASSUME NEW q \in Removers PROVE Rewrites(sh'[q], offset[q], pending[q], list, B)
      <4>1. sh'[q] = sh[q] /\ Rewrites(sh[q], offset[q], pending[q], list, A)
        BY <1>3, <2>2, <2>3 DEF Removers
      <4> QED BY <2>1, <2>4, <4>1 DEF Rewrites
    <3> QED BY <2>3, <2>4, <3>1, <3>2
  <2> QED BY <2>5, <2>6
<1> QED BY <1>4, <1>5, <1>6, <1>7 DEF ShellIInv

LEMMA ReadForAddKeeps == ASSUME ShellIInv, NEW p \in ShellProcs, ReadForAdd(p) PROVE ShellIInv'
<1> DEFINE r == ToAdd(sjob[p].names)
           s == IF r = <<>> THEN "done" ELSE "write"
<1>1. sh[p] = "read" /\ sjob[p].op = "add" /\ sjob[p].op # "remove"
  BY DEF ReadForAdd
<1>2. /\ list \in Seq(ListLine) /\ sjob[p].names \in Seq(ListLine) /\ offset[p] \in Nat
      /\ pending[p] \in Seq(ListLine) /\ offset[p] = 0
      /\ ~overlap => IsInjective(list)
  BY <1>1, ShellHeld DEF ShellPhase
<1>3. /\ r \in Seq(ListLine) /\ ToSet(r) \subseteq Named(p)
      /\ IsInjective(list) => IsInjective(list \o r)
  BY <1>2, ToAddFacts DEF Named
<1>4. /\ pending' = [pending EXCEPT ![p] = r] /\ list' = list /\ sjob' = sjob /\ overlap' = overlap
      /\ sh' = [sh EXCEPT ![p] = s] /\ offset' = [offset EXCEPT ![p] = offset[p]]
  <2>1. pending'[p] = r /\ offset' = [offset EXCEPT ![p] = offset[p]]
    BY DEF ReadForAdd, ShellIInv, ShellTypes
  <2> QED BY <2>1 DEF ReadForAdd
<1>5. s \in {"read", "write", "done", "killed"} /\ s # "read" /\ (s = "write" => r # <<>>)
  OBVIOUS
<1> HIDE DEF r, s
<1>6. ~overlap => IsInjective(list') /\ WillList(s, sjob[p].op, offset[p], r, list')
  BY <1>1, <1>2, <1>3, <1>4, <1>5 DEF WillList
<1> QED BY <1>1, <1>2, <1>3, <1>4, <1>5, <1>6, ShellGoesOn

LEMMA WriteAddedKeeps == ASSUME ShellIInv, NEW p \in ShellProcs, WriteAdded(p) PROVE ShellIInv'
<1> DEFINE x == Head(pending[p])
           r == Tail(pending[p])
           s == IF r = <<>> THEN "done" ELSE "write"
<1>1. sh[p] = "write" /\ sjob[p].op = "add" /\ sjob[p].op # "remove"
  BY DEF WriteAdded
<1>2. /\ list \in Seq(ListLine) /\ offset[p] \in Nat /\ pending[p] \in Seq(ListLine) /\ pending[p] # <<>>
      /\ ToSet(pending[p]) \subseteq Named(p) /\ Named(p) \subseteq NamedByAny
      /\ ~overlap => IsInjective(list \o pending[p])
  BY <1>1, ShellHeld DEF ShellPhase, WillList
<1>3. /\ r \in Seq(ListLine) /\ ToSet(r) \subseteq Named(p) /\ x \in NamedByAny \cap ListLine
      /\ Append(list, x) \in Seq(ListLine) /\ Append(list, x) \o r = list \o pending[p]
  <2>1. /\ x \in ListLine /\ r \in Seq(ListLine) /\ Append(list, x) \o r = list \o pending[p]
        /\ x \in ToSet(pending[p]) /\ ToSet(r) \subseteq ToSet(pending[p])
    BY <1>2, HeadMoves
  <2> HIDE DEF x, r
  <2>2. Append(list, x) \in Seq(ListLine)
    BY <1>2, <2>1
  <2> QED BY <1>2, <2>1, <2>2
<1>4. /\ pending' = [pending EXCEPT ![p] = r] /\ list' = Append(list, x) /\ sjob' = sjob
      /\ overlap' = overlap /\ sh' = [sh EXCEPT ![p] = s]
      /\ offset' = [offset EXCEPT ![p] = offset[p]]
  <2>1. pending'[p] = r /\ offset' = [offset EXCEPT ![p] = offset[p]]
    BY DEF WriteAdded, ShellIInv, ShellTypes
  <2> QED BY <2>1 DEF WriteAdded
<1>5. s \in {"read", "write", "done", "killed"} /\ s # "read" /\ (s = "write" => r # <<>>)
  OBVIOUS
<1> HIDE DEF r, s, x
<1>6. ~overlap => IsInjective(list') /\ WillList(s, sjob[p].op, offset[p], r, list')
  <2>1. ~overlap => IsInjective(Append(list, x) \o r)
    BY <1>2, <1>3
  <2>2. ~overlap => IsInjective(Append(list, x))
    BY <1>3, <2>1, PartInjective
  <2> QED BY <1>1, <1>4, <1>5, <2>1, <2>2 DEF WillList
<1> QED BY <1>1, <1>2, <1>3, <1>4, <1>5, <1>6, ShellGoesOn

LEMMA ReadForRemoveKeeps ==
  ASSUME ShellIInv, NEW p \in ShellProcs, ReadForRemove(p) PROVE ShellIInv'
<1> DEFINE r == Unnamed(list, Named(p))
<1>1. sh[p] = "read" /\ sjob[p].op = "remove" /\ sjob[p].op # "add"
  BY DEF ReadForRemove
<1>2. /\ list \in Seq(ListLine) /\ Named(p) \subseteq NamedByAny /\ (~overlap => IsInjective(list))
  BY <1>1, ShellHeld
<1>3. r \in Seq(ListLine) /\ (IsInjective(list) => IsInjective(r))
  BY <1>2, UnnamedType, UnnamedInjective
<1>4. /\ pending' = [pending EXCEPT ![p] = r] /\ list' = list /\ sjob' = sjob /\ overlap' = overlap
      /\ sh' = [sh EXCEPT ![p] = "read"] /\ offset' = [offset EXCEPT ![p] = 1]
  BY <1>1 DEF ReadForRemove, ShellIInv, ShellTypes
<1>5. LikeFirst(list, NamedByAny) => LikeFirst(r, NamedByAny)
  <2>1. \A S : NamedByAny \subseteq S => Unnamed(r, S) = Unnamed(list, S)
    BY <1>2, UnnamedTwice
  <2> HIDE DEF r
  <2> QED BY <2>1 DEF LikeFirst
<1> HIDE DEF r
<1>6. ~overlap => IsInjective(list') /\ WillList("read", sjob[p].op, 1, r, list')
  BY <1>2, <1>3, <1>4 DEF WillList
<1>7. Rewrites(sh[p], offset[p], pending[p], list, NamedByAny) => Rewrites("read", 1, r, list', NamedByAny)
  BY <1>1, <1>4, <1>5 DEF Rewrites
<1> QED BY <1>1, <1>2, <1>3, <1>4, <1>6, <1>7, ShellGoesOn

LEMMA TruncateKeeps ==
  ASSUME ShellIInv, NEW p \in ShellProcs, TruncateList(p) PROVE ShellIInv'
<1> DEFINE r == pending[p]
           nil == <<>>
           s == IF r = nil THEN "done" ELSE "write"
<1>1. sh[p] = "read" /\ offset[p] = 1
  BY DEF TruncateList
<1>2. /\ sjob[p].op = "remove" /\ sjob[p].op # "add" /\ r \in Seq(ListLine)
      /\ ~overlap => IsInjective(r)
  BY <1>1, ShellHeld DEF ShellPhase, WillList
<1>3. /\ pending' = [pending EXCEPT ![p] = r] /\ list' = nil /\ sjob' = sjob /\ overlap' = overlap
      /\ sh' = [sh EXCEPT ![p] = s] /\ offset' = [offset EXCEPT ![p] = 1]
  BY <1>1 DEF TruncateList, ShellIInv, ShellTypes
<1>4. s \in {"read", "write", "done", "killed"} /\ s # "read"
      /\ (s = "write" => r # <<>>) /\ (s = "done" => r = nil)
  OBVIOUS
<1>5. /\ nil \in Seq(ListLine) /\ Len(nil) = 0 /\ IsInjective(nil) /\ nil \o r = r
      /\ SubSeq(nil, 1, 1 - 1) \o r = r
  <2>1. nil \in Seq(ListLine) /\ Len(nil) = 0 /\ SubSeq(nil, 1, 1 - 1) = nil /\ DOMAIN nil = {}
    BY <1>2
  <2>2. nil \o r = r
    BY <1>2
  <2> QED BY <2>1, <2>2 DEF IsInjective
<1> HIDE DEF r, s, nil
<1>6. ~overlap => IsInjective(list') /\ WillList(s, sjob[p].op, 1, r, list')
  BY <1>2, <1>3, <1>4, <1>5 DEF WillList
<1>7. Rewrites(sh[p], offset[p], pending[p], list, NamedByAny) => Rewrites(s, 1, r, list', NamedByAny)
  <2>1. Rewrites(sh[p], offset[p], pending[p], list, NamedByAny) => LikeFirst(r, NamedByAny)
    BY <1>1 DEF Rewrites, r
  <2>2. LikeFirst(r, NamedByAny) => Rewrites(s, 1, r, nil, NamedByAny)
    <3> SUFFICES ASSUME LikeFirst(r, NamedByAny) PROVE Rewrites(s, 1, r, nil, NamedByAny)
      OBVIOUS
    <3>1. LikeFirst(SubSeq(nil, 1, 1 - 1) \o r, NamedByAny)
      BY <1>5, Zenon
    <3>2. s = "done" => LikeFirst(nil, NamedByAny)
      BY <1>4, Zenon
    <3>3. 1 <= Len(nil) + 1 /\ \A i \in 1 .. Len(nil) : nil[i] \in NamedByAny
      BY <1>5
    <3> QED BY <1>4, <3>1, <3>2, <3>3 DEF Rewrites
  <2> QED BY <1>3, <2>1, <2>2
<1>8. list' \in Seq(ListLine) /\ 1 \in Nat /\ 1 > 0
  BY <1>3, <1>5
<1> QED BY <1>1, <1>2, <1>3, <1>4, <1>6, <1>7, <1>8, ShellGoesOn

(* A line that remover puts at its offset, wherever the file ends.         *)
LEMMA PutType ==
  ASSUME NEW l \in Seq(ListLine), NEW n \in Nat, NEW x \in ListLine PROVE PutLine(l, n, x) \in Seq(ListLine)
<1> DEFINE k == IF n > Len(l) THEN n ELSE Len(l)
           At(i) == IF i = n THEN x ELSE IF i \in DOMAIN l THEN l[i] ELSE Hole
<1>1. k \in Nat /\ \A i \in DOMAIN l : l[i] \in ListLine
  OBVIOUS
<1>2. Hole \in ListLine
  BY DEF ListLine
<1>3. \A i \in 1 .. k : At(i) \in ListLine
  BY <1>1, <1>2
<1>4. PutLine(l, n, x) = [i \in 1 .. k |-> At(i)]
  BY DEF PutLine
<1> HIDE DEF k, At
<1> QED BY <1>1, <1>3, <1>4

LEMMA WriteKeptKeeps == ASSUME ShellIInv, NEW p \in ShellProcs, WriteKept(p) PROVE ShellIInv'
<1> DEFINE x == Head(pending[p])
           r == Tail(pending[p])
           n == offset[p]
           l == PutLine(list, n, x)
           s == IF r = <<>> THEN "done" ELSE "write"
           A == NamedByAny
<1>1. sh[p] = "write" /\ sjob[p].op = "remove" /\ sjob[p].op # "add"
  BY DEF WriteKept
<1>2. /\ list \in Seq(ListLine) /\ n \in Nat \ {0} /\ pending[p] \in Seq(ListLine) /\ pending[p] # <<>>
      /\ ~overlap => IsInjective(list \o pending[p]) /\ n = Len(list) + 1
  BY <1>1, ShellHeld DEF ShellPhase, WillList
<1>3. /\ r \in Seq(ListLine) /\ x \in ListLine /\ \A m \in Seq(ListLine) : Append(m, x) \o r = m \o pending[p]
  BY <1>2, HeadMoves
<1>4. /\ pending' = [pending EXCEPT ![p] = r] /\ list' = l /\ sjob' = sjob
      /\ overlap' = overlap /\ sh' = [sh EXCEPT ![p] = s] /\ offset' = [offset EXCEPT ![p] = n + 1]
  <2>1. pending'[p] = r
    BY DEF WriteKept, ShellIInv, ShellTypes
  <2> QED BY <2>1 DEF WriteKept
<1>5. s \in {"read", "write", "done", "killed"} /\ s # "read"
      /\ (s = "write" => r # <<>>) /\ (s = "done" => r = <<>>)
  OBVIOUS
<1>6. l \in Seq(ListLine)
  BY <1>2, <1>3, PutType
<1>7. n <= Len(list) + 1 =>
        /\ n <= Len(l) /\ \A i \in n + 1 .. Len(l) : i \in n .. Len(list) /\ l[i] = list[i]
        /\ SubSeq(l, 1, n) = Append(SubSeq(list, 1, n - 1), x)
        /\ n = Len(list) + 1 => l = Append(list, x)
  <2> SUFFICES ASSUME n <= Len(list) + 1 PROVE
        /\ n <= Len(l) /\ \A i \in n + 1 .. Len(l) : i \in n .. Len(list) /\ l[i] = list[i]
        /\ SubSeq(l, 1, n) = Append(SubSeq(list, 1, n - 1), x)
        /\ n = Len(list) + 1 => l = Append(list, x)
    OBVIOUS
  <2>1. n \in 1 .. Len(list) + 1
    BY <1>2
  <2> HIDE DEF n, x
  <2> QED BY <1>2, <1>3, <2>1, LinePut
<1> HIDE DEF x, r, n, l, s, A
<1>8. ~overlap => IsInjective(list') /\ WillList(s, sjob[p].op, n + 1, r, list')
  <2> SUFFICES ASSUME ~overlap PROVE IsInjective(l) /\ WillList(s, sjob[p].op, n + 1, r, l)
    BY <1>4
  <2>1. l = Append(list, x) /\ l \o r = list \o pending[p] /\ Len(l) = Len(list) + 1 /\ n = Len(list) + 1
    <3>1. n = Len(list) + 1 /\ n <= Len(list) + 1
      BY <1>2
    <3>2. l = Append(list, x)
      BY <1>7, <3>1, Zenon
    <3>3. Append(list, x) \o r = list \o pending[p]
      BY <1>2, <1>3, Zenon
    <3>4. Len(Append(list, x)) = Len(list) + 1
      BY <1>2, <1>3, AppendFacts, Zenon
    <3> QED BY <3>1, <3>2, <3>3, <3>4, Zenon
  <2>2. IsInjective(l \o r)
    BY <1>2, <2>1
  <2>3. IsInjective(l)
    BY <1>3, <1>6, <2>2, PartInjective
  <2> QED BY <1>5, <2>1, <2>2, <2>3 DEF WillList
<1>9. Rewrites(sh[p], offset[p], pending[p], list, A) => Rewrites(s, n + 1, r, list', A)
  <2> SUFFICES ASSUME Rewrites(sh[p], n, pending[p], list, A) PROVE Rewrites(s, n + 1, r, l, A)
    BY <1>4 DEF n
  <2>1. /\ n <= Len(list) + 1 /\ \A i \in n .. Len(list) : list[i] \in A
        /\ LikeFirst(SubSeq(list, 1, n - 1) \o pending[p], A)
    BY <1>1 DEF Rewrites
  <2>2. /\ n + 1 <= Len(l) + 1 /\ \A i \in n + 1 .. Len(l) : l[i] \in A
    <3>1. /\ n <= Len(l)
          /\ \A i \in n + 1 .. Len(l) : i \in n .. Len(list) /\ l[i] = list[i]
      BY <1>7, <2>1, Zenon
    <3>2. \A i \in n + 1 .. Len(l) : l[i] \in A
      BY <2>1, <3>1, Zenon
    <3>3. Len(l) \in Nat
      BY <1>6
    <3> QED BY <1>2, <3>1, <3>2, <3>3
  <2>3. SubSeq(l, 1, (n + 1) - 1) \o r = SubSeq(list, 1, n - 1) \o pending[p]
    <3>1. (n + 1) - 1 = n
      BY <1>2
    <3>2. \A i \in 1 .. n - 1 : i \in 1 .. Len(list) /\ list[i] \in ListLine
      BY <1>2, <2>1
    <3>3. 1 \in Int /\ n - 1 \in Int
      BY <1>2
    <3>4. SubSeq(list, 1, n - 1) \in Seq(ListLine)
      BY <3>2, <3>3, SubSeqProperties, Zenon
    <3>5. Append(SubSeq(list, 1, n - 1), x) \o r = SubSeq(list, 1, n - 1) \o pending[p]
      BY <1>3, <3>4, Zenon
    <3> QED BY <1>7, <2>1, <3>1, <3>5, Zenon
  <2>4. LikeFirst(SubSeq(l, 1, (n + 1) - 1) \o r, A)
    BY <2>1, <2>3
  <2>5. s = "done" => LikeFirst(l, A)
    <3> SUFFICES ASSUME s = "done" PROVE LikeFirst(l, A)
      OBVIOUS
    <3> DEFINE a == SubSeq(l, 1, n)
               b == SubSeq(l, n + 1, Len(l))
    <3>1. /\ a \in Seq(ListLine) /\ b \in Seq(ListLine) /\ l = a \o b
          /\ \A i \in 1 .. Len(b) : i + n \in n + 1 .. Len(l) /\ b[i] = l[i + n]
      <4>1. n \in 1 .. Len(l) /\ Len(l) \in Nat /\ \A i \in 1 .. Len(l) : l[i] \in ListLine
        BY <1>2, <1>6, <1>7, <2>1
      <4>2. \A i \in 1 .. n : l[i] \in ListLine
        BY <4>1
      <4>3. \A i \in n + 1 .. Len(l) : l[i] \in ListLine
        BY <4>1
      <4>4. 1 \in Int /\ n \in Int /\ n + 1 \in Int /\ Len(l) \in Int
        BY <4>1
      <4>5. a \in Seq(ListLine)
        BY <4>2, <4>4, SubSeqProperties, Zenon
      <4>6. /\ b \in Seq(ListLine)
            /\ \A i \in 1 .. Len(l) - (n + 1) + 1 : b[i] = l[n + 1 + i - 1]
            /\ Len(b) = IF n + 1 <= Len(l) THEN Len(l) - (n + 1) + 1 ELSE 0
        <5> DEFINE m == n + 1
                   k == Len(l)
        <5>1. m \in Int /\ k \in Int /\ \A i \in m .. k : l[i] \in ListLine
          BY <4>3, <4>4
        <5> HIDE DEF m, k
        <5>2. /\ SubSeq(l, m, k) \in Seq(ListLine)
              /\ \A i \in 1 .. k - m + 1 : SubSeq(l, m, k)[i] = l[m + i - 1]
              /\ Len(SubSeq(l, m, k)) = IF m <= k THEN k - m + 1 ELSE 0
          BY <5>1, SubSeqProperties
        <5> QED BY <5>2 DEF m, k
      <4>7. a \o b = SubSeq(l, 1, Len(l))
        <5>1. 1 \in 1 .. Len(l) + 1 /\ n \in 1 - 1 .. Len(l) /\ Len(l) \in n .. Len(l)
          BY <4>1
        <5> QED BY <1>6, <5>1, ConcatAdjacentSubSeq, Zenon
      <4>8. l = a \o b
        BY <1>6, <4>7, SubSeqFull, Zenon
      <4> HIDE DEF a, b
      <4>9. Len(b) = Len(l) - n
        BY <4>1, <4>6
      <4>10. ASSUME NEW i \in 1 .. Len(b) PROVE i + n \in n + 1 .. Len(l) /\ b[i] = l[i + n]
        <5>1. i \in 1 .. Len(l) - (n + 1) + 1 /\ n + 1 + i - 1 = i + n /\ i + n \in n + 1 .. Len(l)
          BY <4>1, <4>9
        <5> QED BY <4>6, <5>1, Zenon
      <4> QED BY <4>5, <4>6, <4>8, <4>10, Zenon
    <3>2. LikeFirst(a, A)
      <4>1. (n + 1) - 1 = n /\ r = <<>> /\ a \o <<>> = a
        BY <1>2, <1>5, <3>1
      <4> QED BY <2>4, <4>1
    <3> HIDE DEF a, b
    <3>3. ASSUME NEW S, A \subseteq S PROVE Unnamed(l, S) = Unnamed(a, S)
      <4>1. \A i \in 1 .. Len(b) : b[i] \in S
        BY <2>2, <3>1, <3>3
      <4>2. Unnamed(b, S) = <<>>
        BY <3>1, <4>1, UnnamedNone
      <4>3. Unnamed(l, S) = Unnamed(a, S) \o Unnamed(b, S) /\ Unnamed(a, S) \in Seq(ListLine)
        <5>1. Unnamed(a \o b, S) = Unnamed(a, S) \o Unnamed(b, S) /\ Unnamed(a, S) \in Seq(ListLine)
          <6>1. a \in Seq(ListLine) /\ b \in Seq(ListLine)
            BY <3>1
          <6>2. Unnamed(a \o b, S) = Unnamed(a, S) \o Unnamed(b, S)
            BY <6>1, UnnamedJoin
          <6>3. Unnamed(a, S) \in Seq(ListLine)
            BY <6>1, UnnamedType
          <6> QED BY <6>2, <6>3
        <5> QED BY <3>1, <5>1, Zenon
      <4> QED BY <4>2, <4>3
    <3> QED BY <3>2, <3>3 DEF LikeFirst
  <2> DEFINE o == n + 1
  <2>6. o <= Len(l) + 1 /\ (\A i \in o .. Len(l) : l[i] \in A) /\ LikeFirst(SubSeq(l, 1, o - 1) \o r, A)
    <3>1. o <= Len(l) + 1
      BY <2>2
    <3>2. \A i \in o .. Len(l) : l[i] \in A
      BY <2>2
    <3>3. LikeFirst(SubSeq(l, 1, o - 1) \o r, A)
      BY <2>4, Zenon
    <3> QED BY <3>1, <3>2, <3>3
  <2> HIDE DEF o
  <2>7. Rewrites(s, o, r, l, A)
    BY <1>5, <2>5, <2>6, Zenon DEF Rewrites
  <2> QED BY <2>7 DEF o
<1>10. n + 1 \in Nat /\ n + 1 > 0 /\ list' \in Seq(ListLine)
  BY <1>2, <1>4, <1>6
<1> QED BY <1>1, <1>2, <1>3, <1>4, <1>5, <1>8, <1>9, <1>10, ShellGoesOn DEF A

LEMMA ShellKilledKeeps == ASSUME ShellIInv, NEW p \in ShellProcs, ShellKilled(p) PROVE ShellIInv'
<1>1. sh[p] \in {"read", "write"}
  BY DEF ShellKilled, AtWork
<1>2. /\ list \in Seq(ListLine) /\ offset[p] \in Nat /\ pending[p] \in Seq(ListLine)
      /\ sjob[p].op = "add" => ToSet(pending[p]) \subseteq Named(p)
      /\ ~overlap => IsInjective(list)
  BY <1>1, ShellHeld DEF ShellPhase
<1>3. /\ pending' = [pending EXCEPT ![p] = pending[p]] /\ list' = list /\ sjob' = sjob /\ overlap' = overlap
      /\ sh' = [sh EXCEPT ![p] = "killed"] /\ offset' = [offset EXCEPT ![p] = offset[p]]
  BY DEF ShellKilled, ShellIInv, ShellTypes
<1>4. ~overlap => IsInjective(list') /\ WillList("killed", sjob[p].op, offset[p], pending[p], list')
  BY <1>2, <1>3 DEF WillList
<1>5. Rewrites("killed", offset[p], pending[p], list', NamedByAny)
  BY DEF Rewrites
<1> QED BY <1>1, <1>2, <1>3, <1>4, <1>5, ShellGoesOn

LEMMA ShellKeeps == ShellIInv /\ [ShellListNext]_shvars => ShellIInv'
<1>1. CASE UNCHANGED shvars
  <2> SUFFICES ASSUME ShellIInv, UNCHANGED shvars PROVE ShellIInv'
    BY <1>1
  <2>1. list' = list /\ sjob' = sjob /\ sh' = sh /\ pending' = pending /\ offset' = offset /\ overlap' = overlap
    BY DEF shvars
  <2>2. Removers' = Removers /\ NamedByAny' = NamedByAny
    BY <2>1 DEF Removers, NamedByAny, Named
  <2>3. ShellTypes'
    BY <2>1 DEF ShellIInv, ShellTypes
  <2>4. ShellPhases'
    BY <2>1 DEF ShellIInv, ShellPhases, ShellPhase, Named
  <2>5. AloneAtWork'
    BY <2>1 DEF ShellIInv, AloneAtWork, AtWork
  <2>6. OneRewrites'
    BY <2>1, <2>2, Zenon DEF ShellIInv, OneRewrites
  <2> QED BY <2>3, <2>4, <2>5, <2>6 DEF ShellIInv
<1> QED
  BY <1>1, ShellStartKeeps, ReadForAddKeeps, WriteAddedKeeps, ShellKilledKeeps,
     ReadForRemoveKeeps, TruncateKeeps, WriteKeptKeeps DEF ShellListNext, ShellStep

LEMMA ShellInvariance == ShellListSpec => []ShellIInv
  BY ShellBegins, ShellKeeps, PTL DEF ShellListSpec

(* Commands that do not overlap leave each shell listed once, wherever one *)
(* of them is killed; and whatever overlaps, as long as one command at     *)
(* most removes and completes, shells that nobody names stay listed in     *)
(* their order.                                                            *)
THEOREM ShellsAreKept == ShellListSpec => []ShellsKept
<1>1. ShellIInv => ListedOnce
  BY DEF ShellIInv, AloneAtWork, ListedOnce
<1>2. ShellIInv => Untouched
  <2> SUFFICES ASSUME ShellIInv, \A p \in ShellProcs : ~AtWork(p),
                      \A p, q \in Removers : p = q, \A p \in Removers : sh[p] = "done"
               PROVE  Unnamed(list, NamedByAny) = Unnamed(ListedFirst, NamedByAny)
    BY DEF Untouched, NamedByAny
  <2>1. LikeFirst(list, NamedByAny)
    <3>1. CASE Removers = {}
      BY <3>1 DEF ShellIInv, OneRewrites
    <3>2. ASSUME NEW p \in Removers PROVE LikeFirst(list, NamedByAny)
      BY DEF ShellIInv, OneRewrites, Rewrites
    <3> QED BY <3>1, <3>2
  <2> QED BY <2>1 DEF LikeFirst
<1> QED BY <1>1, <1>2, ShellInvariance, PTL DEF ShellsKept
==============================================================================
