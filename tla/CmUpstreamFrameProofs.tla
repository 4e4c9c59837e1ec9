------------------------ MODULE CmUpstreamFrameProofs ------------------------
(***************************************************************************)
(* Which bytes the upstream of the cable modem sends in which frame, and   *)
(* what follows for its pipelines and staging queues, for every frame, MAP *)
(* and minislot size, every delay, rate and burst, every grant a MAP may   *)
(* give and every packet size.                                             *)
(***************************************************************************)
EXTENDS CmUpstreamProofs

-----------------------------------------------------------------------------
(* Which bytes are sent in which frame.                                    *)

\* Bytes of a pipeline whose time comes from t to u, and the bytes that the
\* frames of a flow from t on send before u.
Within(t, u) == [g \in Grants |-> IF t <= g.in /\ g.in <= u THEN g.bytes ELSE 0]
FramesOf(f) == {e \in FramesDue : e.arg.sfid = f}
SentWithin(f, t, u) ==
  [e \in Events |-> IF e \in FramesOf(f) /\ t <= e.in /\ e.in < u
                    THEN MinislotsToBytes(e.arg.n) ELSE 0]

\* When the grants of a MAP are done: when they are dumped, and at any time
\* that is later than all that is scheduled.
Horizon == ProcTicks + MapInterval
DumpsOf(f) == {e \in DumpsDue : e.arg.sfid = f}
Closings(list, f) ==
  {u \in Nat : u >= Horizon \/ \E i \in 1 .. Len(list) : list[i] \in DumpsOf(f) /\ list[i].in = u}

\* From any time on, the frames before a closing have room for the bytes of the
\* grants whose time comes by then, and for those prepared already.
Backs(list, granted, prepared, f) ==
  \A t \in Nat : \A u \in Closings(list, f) :
    TotalWeight(prepared, Within(t, u)) + TotalWeight(granted, Within(t, u))
      <= TotalWeight(list, SentWithin(f, t, u))

\* Bursts are prepared in the order of their frames.
Ascending(pipe) ==
  \A i, j \in 1 .. Len(pipe) :
    pipe[i].in <= PrepTicks /\ (i < j => pipe[i].in <= pipe[j].in)

\* A burst is prepared before its frame sends, also if there is no time between.
InTurn(list, f) ==
  \A i, j \in 1 .. Len(list) :
    i < j /\ list[i] \in FramesOf(f) /\ list[j] \in BurstsOf(f) => list[i].in < Counts(list[j])

\* Windows are weights.
LEMMA WindowFacts ==
  ASSUME NEW t, NEW u
  PROVE  /\ Within(t, u) \in [Grants -> Nat]
         /\ \A g \in Grants : Within(t, u)[g] = IF t <= g.in /\ g.in <= u THEN g.bytes ELSE 0
<1>1. \A g \in Grants : g.bytes \in Nat
  BY DEF Grants
<1> QED BY <1>1 DEF Within

\* So are the bytes that frames send.
LEMMA SentFrameFacts ==
  ASSUME NEW f, NEW t, NEW u
  PROVE  /\ SentWithin(f, t, u) \in [Events -> Nat]
         /\ \A e \in Events :
              SentWithin(f, t, u)[e] = IF e \in FramesOf(f) /\ t <= e.in /\ e.in < u
                                       THEN MinislotsToBytes(e.arg.n) ELSE 0
<1>1. ASSUME NEW e \in FramesOf(f) PROVE MinislotsToBytes(e.arg.n) \in Nat
  <2>1. e.arg.n \in Nat
    BY DEF FramesOf, FramesDue, EventsOf, FlowArgs
  <2> QED BY <2>1, MinislotFacts
<1> QED BY <1>1 DEF SentWithin

\* What frames, bursts and dumps of a flow are.
LEMMA KindFacts ==
  ASSUME NEW e \in Events, NEW f
  PROVE  /\ e \in FramesOf(f) <=> e.event = "SendFrame" /\ e.arg.sfid = f
         /\ e \in DumpsOf(f) <=> e.event = "DumpGrant" /\ e.arg.sfid = f
         /\ e \in BurstsOf(f) <=> e.event = "PrepareBurst" /\ e.arg.sfid = f
<1>1. /\ e.event = "SendFrame" <=> e \in FramesDue
      /\ e.event = "DumpGrant" <=> e \in DumpsDue
      /\ e.event = "PrepareBurst" <=> e \in BurstsDue
  BY EventFacts DEF FramesDue, DumpsDue, BurstsDue, EventsOf
<1> QED BY <1>1 DEF FramesOf, DumpsOf, BurstsOf

\* Two lists with the same weights, each by its own measure.
WeighSame(r, v, s, w) ==
  Len(r) = Len(s) /\ \A i \in 1 .. Len(s) : v[r[i]] = w[s[i]]

\* Their total is the same.
LEMMA WeightMapped ==
  ASSUME NEW S, NEW s \in Seq(S), NEW r \in Seq(S), NEW w, NEW v, WeighSame(r, v, s, w)
  PROVE  TotalWeight(r, v) = TotalWeight(s, w)
<1>1. DOMAIN s = 1 .. Len(s) /\ DOMAIN r = 1 .. Len(s)
  BY LenProperties DEF WeighSame
<1>2. Weights(r, v) = Weights(s, w)
  BY <1>1 DEF Weights, WeighSame
<1> QED BY <1>2 DEF TotalWeight

\* A measure that weighs every element of a list more.
LEMMA WeightLess ==
  ASSUME NEW S, NEW s \in Seq(S), NEW w \in [S -> Nat], NEW v \in [S -> Nat],
         \A i \in 1 .. Len(s) : v[s[i]] <= w[s[i]]
  PROVE  TotalWeight(s, v) <= TotalWeight(s, w)
<1> DEFINE x == Weights(s, v)
           y == Weights(s, w)
<1>1. /\ x \in Seq(Nat) /\ y \in Seq(Nat) /\ Len(x) = Len(s) /\ Len(y) = Len(s)
      /\ \A i \in 1 .. Len(s) : x[i] = v[s[i]] /\ y[i] = w[s[i]]
  BY WeightFacts
<1> HIDE DEF x, y
<1>2. SumSeq(x) <= SumSeq(y)
  BY <1>1, SumMonotone
<1> QED BY <1>2 DEF x, y, TotalWeight

\* While bytes are left to take, what is in front is ready.
LEMMA FrontIsReady ==
  ASSUME NEW pipe \in Seq(Grants), Ascending(pipe), NEW P,
         Sums(Weights(pipe, GrantBytes), P), NEW k \in 1 .. Len(pipe),
         P[k - 1] < GetEligible(pipe)
  PROVE  pipe[k].in = 0
<1> DEFINE n == Len(pipe)
           all == Weights(pipe, GrantBytes)
           ready == [i \in DOMAIN pipe |-> IF pipe[i].in <= 0 THEN pipe[i].bytes ELSE 0]
<1>1. /\ n \in Nat /\ DOMAIN pipe = 1..n
      /\ \A i \in 1..n : pipe[i] \in Grants /\ pipe[i].bytes \in Nat /\ pipe[i].in \in Nat
  <2>1. n \in Nat /\ DOMAIN pipe = 1..n /\ \A i \in 1..n : pipe[i] \in Grants
    BY LenProperties, ElementOfSeq
  <2> QED BY <2>1 DEF Grants
<1>2. Len(all) = n /\ \A i \in 1..n : all[i] = pipe[i].bytes
  BY <1>1, BytesAreWeights, WeightFacts
<1>3. ready \in Seq(Nat) /\ Len(ready) = n
  <2>1. ready \in [1..n -> Nat]
    BY <1>1
  <2> HIDE DEF ready, n
  <2>2. ready \in Seq(Nat)
    BY <1>1, <2>1, SeqDef
  <2>3. DOMAIN ready = 1..n
    BY <2>1
  <2> QED BY <1>1, <2>1, <2>2, <2>3, LenProperties
<1>4. PICK R : Sums(ready, R) /\ SumSeq(ready) = R[n]
  <2> HIDE DEF ready
  <2> QED BY <1>3, SumsExist
<1>5. /\ R \in [0..n -> Nat] /\ R[0] = 0
      /\ \A i \in 1..n : R[i] = R[i - 1] + (IF pipe[i].in <= 0 THEN pipe[i].bytes ELSE 0)
  <2>1. \A i \in 1..n : ready[i] = IF pipe[i].in <= 0 THEN pipe[i].bytes ELSE 0
    BY <1>1
  <2> HIDE DEF ready
  <2> QED BY <1>3, <1>4, <2>1 DEF Sums
<1>6. P \in [0..n -> Nat] /\ P[0] = 0 /\ \A i \in 1..n : P[i] = P[i - 1] + pipe[i].bytes
  <2> HIDE DEF all
  <2> QED BY <1>2 DEF Sums, all
<1>7. R[n] = GetEligible(pipe)
  BY <1>4 DEF GetEligible
<1> SUFFICES ASSUME pipe[k].in # 0 PROVE FALSE
  OBVIOUS
<1>8. \A i \in 1..n : k <= i => pipe[i].in > 0
  BY <1>1 DEF Ascending
<1> HIDE DEF n, all, ready
<1> DEFINE T == {j \in 0..n : (j < k => R[j] <= P[j]) /\ (k <= j => R[j] <= P[k - 1])}
<1>9. k \in 1..n /\ k - 1 \in 0..n
  BY <1>1 DEF n
<1>10. 0 \in T
  BY <1>1, <1>5, <1>6, <1>9
<1>11. ASSUME NEW j \in 1..n, j - 1 \in T PROVE j \in T
  <2>1. j \in 0..n /\ j - 1 \in 0..n
    BY <1>1
  <2>2. R[j] \in Nat /\ R[j - 1] \in Nat /\ P[j] \in Nat /\ P[j - 1] \in Nat /\ P[k - 1] \in Nat
    BY <1>5, <1>6, <1>9, <2>1
  <2> DEFINE x == R[j]
             y == R[j - 1]
             b == pipe[j].bytes
  <2>5. b \in Nat /\ x = y + (IF pipe[j].in <= 0 THEN b ELSE 0)
    BY <1>1, <1>5
  <2>6. P[j] = P[j - 1] + b
    BY <1>6
  <2> HIDE DEF x, y, b
  <2>7. x \in Nat /\ y \in Nat
    BY <2>2 DEF x, y
  <2>3. CASE j < k
    <3>1. R[j - 1] <= P[j - 1]
      BY <1>11, <2>3
    <3>2. x <= y + b
      BY <2>5, <2>7
    <3>3. y <= P[j - 1]
      BY <3>1 DEF y
    <3>4. x <= P[j]
      BY <2>2, <2>5, <2>6, <2>7, <3>2, <3>3
    <3> QED BY <2>1, <2>3, <3>4 DEF x
  <2>4. CASE k <= j
    <3>0. pipe[j].in > 0 /\ pipe[j].in \in Nat
      BY <1>1, <1>8, <2>4
    <3>3. x = y
      BY <2>5, <2>7, <3>0
    <3>1. R[j] = R[j - 1]
      BY <3>3 DEF x, y
    <3>2. R[j - 1] <= P[k - 1]
      <4>1. CASE j = k
        BY <1>11, <4>1
      <4>2. CASE j # k
        BY <1>11, <2>4, <4>2
      <4> QED BY <4>1, <4>2
    <3> QED BY <2>1, <2>4, <3>1, <3>2
  <2> QED BY <2>3, <2>4
<1>12. n \in T
  <2> HIDE DEF T
  <2>1. \A j \in 0..n : j \in T
    BY <1>1, <1>10, <1>11, CountUp DEF n
  <2> QED BY <1>1, <2>1 DEF n
<1>13. R[n] <= P[k - 1]
  BY <1>9, <1>12
<1>14. R[n] \in Nat /\ P[k - 1] \in Nat
  <2>1. n \in 0..n
    BY <1>1
  <2> QED BY <1>5, <1>6, <1>9, <2>1
<1> QED BY <1>7, <1>13, <1>14

\* A measure that counts all bytes that are ready, or none of them.
Counting(w, all) ==
  /\ w \in [Grants -> Nat]
  /\ \A g \in Grants : g.in = 0 => w[g] = IF all THEN g.bytes ELSE 0

\* What is taken from the front is what is ready.
LEMMA RemoveWeight ==
  ASSUME NEW pipe \in Seq(Grants), NEW value \in 0 .. GetEligible(pipe), Ascending(pipe),
         NEW w, NEW all \in BOOLEAN, Counting(w, all)
  PROVE  TotalWeight(RemoveBytes(pipe, value), w) + (IF all THEN value ELSE 0)
           = TotalWeight(pipe, w)
<1> DEFINE n == Len(pipe)
           bs == Weights(pipe, GrantBytes)
           ws == Weights(pipe, w)
<1>1. /\ value \in Nat /\ TotalOf(pipe) \in Nat /\ TotalOf(pipe) = TotalWeight(pipe, GrantBytes)
      /\ GetEligible(pipe) \in Nat /\ GetEligible(pipe) <= TotalOf(pipe) /\ value <= GetEligible(pipe)
  BY TotalFacts
<1>2. PICK acc : Removed(pipe, value, acc) /\ RemoveBytes(pipe, value) = acc[n].out
  BY <1>1, RemoveSteps
<1>3. w \in [Grants -> Nat]
  BY DEF Counting
<1>4. /\ bs \in Seq(Nat) /\ Len(bs) = n /\ \A k \in 1..n : bs[k] = GrantBytes[pipe[k]]
      /\ ws \in Seq(Nat) /\ Len(ws) = n /\ \A k \in 1..n : ws[k] = w[pipe[k]]
  BY <1>3, BytesAreWeights, WeightFacts
<1>5. PICK P : Sums(bs, P) /\ TotalWeight(pipe, GrantBytes) = P[n]
  <2>1. \E P : Sums(bs, P) /\ SumSeq(bs) = P[Len(bs)]
    <3> HIDE DEF bs
    <3> QED BY <1>4, SumsExist
  <2> QED BY <2>1, <1>4 DEF TotalWeight
<1>6. PICK W : Sums(ws, W) /\ TotalWeight(pipe, w) = W[n]
  <2>1. \E W : Sums(ws, W) /\ SumSeq(ws) = W[Len(ws)]
    <3> HIDE DEF ws
    <3> QED BY <1>4, SumsExist
  <2> QED BY <2>1, <1>4 DEF TotalWeight
<1>7. n \in Nat /\ \A k \in 1..n : pipe[k] \in Grants /\ pipe[k].bytes \in Nat /\ w[pipe[k]] \in Nat
  <2>1. n \in Nat /\ \A k \in 1..n : pipe[k] \in Grants
    BY LenProperties, ElementOfSeq
  <2> QED BY <2>1, <1>3 DEF Grants
<1>8. /\ P \in [0..n -> Nat] /\ P[0] = 0 /\ \A k \in 1..n : P[k] = P[k - 1] + pipe[k].bytes
      /\ W \in [0..n -> Nat] /\ W[0] = 0 /\ \A k \in 1..n : W[k] = W[k - 1] + w[pipe[k]]
  <2>1. \A k \in 1..n : bs[k] = pipe[k].bytes
    BY <1>4, <1>7, BytesAreWeights
  <2> HIDE DEF bs, ws
  <2> QED BY <1>4, <1>5, <1>6, <2>1 DEF Sums
<1>9. /\ acc[0] = [left |-> value, out |-> <<>>]
      /\ \A k \in 0..n : acc[k] \in [left : Nat, out : Seq(Grants)]
      /\ \A k \in 1..n : acc[k] = TakeFrom(acc[k - 1], pipe[k])
  BY <1>2 DEF Removed
<1>10. ASSUME NEW k \in 1..n, P[k - 1] < value PROVE pipe[k].in = 0
  <2>1. P[k - 1] \in Nat
    <3>1. k - 1 \in 0..n /\ P \in [0..n -> Nat]
      BY <1>7, <1>8
    <3> QED BY <3>1
  <2>2. P[k - 1] < GetEligible(pipe)
    BY <1>1, <1>10, <2>1
  <2> QED BY <1>5, <2>2, FrontIsReady
<1> HIDE DEF n, bs, ws
<1> DEFINE Out(k) == TotalWeight(acc[k].out, w)
           Gone(x) == IF all THEN x ELSE 0
           Good == {k \in 0..n : /\ Out(k) + Gone(value - acc[k].left) = W[k]
                                 /\ acc[k].left # 0 => /\ acc[k].out = <<>>
                                                       /\ value = P[k] + acc[k].left}
<1>11. ASSUME NEW k \in 0..n
       PROVE  acc[k].left \in Nat /\ acc[k].out \in Seq(Grants) /\ Out(k) \in Nat
  <2>1. acc[k].left \in Nat /\ acc[k].out \in Seq(Grants)
    BY <1>9
  <2> QED BY <1>3, <2>1, WeightFacts
<1>12. TotalWeight(<<>>, w) = 0
  <2>1. <<>> \in Seq(Grants) /\ \A i \in 1 .. Len(<<>>) : w[<<>>[i]] = 0
    OBVIOUS
  <2> QED BY <1>3, <2>1, WeightZero
<1>13. 0 \in Good
  <2>1. acc[0].left = value /\ acc[0].out = <<>>
    BY <1>9
  <2>2. Out(0) = 0
    BY <2>1, <1>12
  <2> HIDE DEF Out
  <2> QED BY <2>1, <2>2, <1>1, <1>7, <1>8
<1>14. ASSUME NEW k \in 1..n, k - 1 \in Good PROVE k \in Good
  <2> DEFINE a == acc[k - 1]
             e == pipe[k]
             l == a.left
             b == e.bytes
             x == Out(k - 1)
             y == Out(k)
             p == P[k - 1]
             q == W[k - 1]
  <2>1. k - 1 \in 0..n /\ k \in 0..n
    BY <1>7
  <2>2. a.out \in Seq(Grants) /\ l \in Nat /\ x \in Nat /\ acc[k].left \in Nat /\ y \in Nat
    BY <1>11, <2>1
  <2>3. e \in Grants /\ b \in Nat /\ w[e] \in Nat /\ p \in Nat /\ q \in Nat
        /\ P[k] = p + b /\ W[k] = q + w[e]
    BY <1>7, <1>8, <2>1
  <2>4. x + Gone(value - l) = q /\ (l # 0 => a.out = <<>> /\ value = p + l)
    BY <1>14
  <2>5. acc[k] = TakeFrom(a, e)
    BY <1>9
  <2>6. l # 0 => e.in = 0 /\ x = 0 /\ w[e] = Gone(b)
    <3> SUFFICES ASSUME l # 0 PROVE e.in = 0 /\ x = 0 /\ w[e] = Gone(b)
      OBVIOUS
    <3>1. p < value
      <4>1. value = p + l
        BY <2>4
      <4>2. l \in Nat \ {0} /\ p \in Nat
        BY <2>2, <2>3
      <4> HIDE DEF p, l
      <4> QED BY <4>1, <4>2
    <3>2. e.in = 0
      BY <1>10, <3>1
    <3>3. x = 0
      BY <1>12, <2>4
    <3> QED BY <2>3, <3>2, <3>3 DEF Counting
  <2>7. a \in [left : Nat, out : Seq(Grants)]
    BY <1>9, <2>1
  <2>8. x = TotalWeight(a.out, w) /\ y = TotalWeight(acc[k].out, w)
    OBVIOUS
  <2> HIDE DEF a, e, x, y, p, q, Out
  <2>9. CASE l = 0 \/ b > l
    <3> DEFINE rest == [e EXCEPT !.bytes = @ - l]
    <3>1. b - l \in Nat \ {0}
      <4>1. b # 0
        BY <2>3 DEF Grants
      <4> QED BY <2>2, <2>3, <2>9, <4>1
    <3>2. rest \in Grants /\ rest.bytes = b - l /\ rest.in = e.in /\ (l = 0 => rest = e)
      <4>1. rest = [bytes |-> b - l, in |-> e.in]
        BY <2>3 DEF Grants
      <4>2. l = 0 => b - l = b
        BY <2>3
      <4>3. e = [bytes |-> b, in |-> e.in]
        BY <2>3 DEF Grants
      <4> QED BY <2>3, <3>1, <4>1, <4>2, <4>3 DEF Grants
    <3> HIDE DEF rest
    <3>3. TakeFrom(a, e) = [left |-> 0, out |-> Append(a.out, rest)]
      BY <2>9 DEF TakeFrom, rest
    <3>4. acc[k].left = 0 /\ acc[k].out = Append(a.out, rest)
      BY <2>5, <3>3
    <3>5. y = x + w[rest] /\ w[rest] \in Nat
      BY <1>3, <2>2, <2>8, <3>2, <3>4, WeightAppend
    <3>6. y + Gone(value - 0) = q + w[e]
      <4>1. CASE l = 0
        <5>1. w[rest] = w[e]
          BY <3>2, <4>1
        <5>2. x + Gone(value - 0) = q
          BY <2>4, <4>1
        <5>3. Gone(value - 0) \in Nat
          BY <1>1
        <5> HIDE DEF Gone
        <5> QED BY <2>2, <2>3, <3>5, <5>1, <5>2, <5>3
      <4>2. CASE l # 0
        <5>1. w[rest] = Gone(b - l)
          BY <2>6, <3>2, <4>2 DEF Counting
        <5>2. y = Gone(b - l) /\ w[e] = Gone(b) /\ Gone(value - l) = q
          BY <2>2, <2>3, <2>4, <2>6, <3>5, <4>2, <5>1
        <5> HIDE DEF l, b
        <5> QED BY <1>1, <2>2, <2>3, <5>2
      <4> QED BY <4>1, <4>2
    <3> QED BY <2>1, <2>3, <3>4, <3>6 DEF y
  <2>10. CASE ~ (l = 0 \/ b > l)
    <3>1. TakeFrom(a, e) = [a EXCEPT !.left = @ - b]
      BY <2>10 DEF TakeFrom
    <3>2. acc[k].left = l - b /\ acc[k].out = a.out
      BY <2>5, <2>7, <3>1
    <3>3. y = 0 /\ w[e] = Gone(b) /\ Gone(value - l) = q /\ a.out = <<>> /\ value = p + l
      BY <2>2, <2>3, <2>4, <2>6, <2>8, <2>10, <3>2
    <3> HIDE DEF l, b
    <3>4. y + Gone(value - (l - b)) = q + w[e] /\ value = (p + b) + (l - b)
      BY <1>1, <2>2, <2>3, <3>3
    <3> QED BY <2>1, <2>3, <3>2, <3>3, <3>4 DEF y
  <2> QED BY <2>9, <2>10
<1>15. n \in Good
  <2> HIDE DEF Good
  <2>1. \A k \in 0..n : k \in Good
    BY <1>7, <1>13, <1>14, CountUp
  <2> QED BY <1>7, <2>1
<1>16. acc[n].left \in Nat /\ Out(n) \in Nat /\ P[n] \in Nat
  BY <1>7, <1>8, <1>11
<1>17. acc[n].left = 0
  BY <1>1, <1>5, <1>15, <1>16
<1>18. Out(n) + Gone(value) = W[n]
  BY <1>1, <1>15, <1>17
<1> QED BY <1>2, <1>6, <1>18

\* All that is left of a pipeline is for frames that it was for.
TimesOf(out, pipe) == \A i \in 1 .. Len(out) : \E j \in 1 .. Len(pipe) : out[i].in = pipe[j].in

\* What is left after bytes are taken keeps its order and its times.
LEMMA AscendingRemoved ==
  ASSUME NEW pipe \in Seq(Grants), NEW value \in Nat, Ascending(pipe)
  PROVE  /\ Ascending(RemoveBytes(pipe, value)) /\ TimesOf(RemoveBytes(pipe, value), pipe)
         /\ RemoveBytes(pipe, value) \in Seq(Grants)
<1> DEFINE n == Len(pipe)
<1>1. PICK acc : Removed(pipe, value, acc) /\ RemoveBytes(pipe, value) = acc[n].out
  BY RemoveSteps
<1>2. n \in Nat /\ \A k \in 1..n : pipe[k] \in Grants /\ pipe[k].in \in Nat
  <2>1. n \in Nat /\ \A k \in 1..n : pipe[k] \in Grants
    BY LenProperties, ElementOfSeq
  <2> QED BY <2>1 DEF Grants
<1>3. /\ acc[0] = [left |-> value, out |-> <<>>]
      /\ \A k \in 0..n : acc[k] \in [left : Nat, out : Seq(Grants)]
      /\ \A k \in 1..n : acc[k] = TakeFrom(acc[k - 1], pipe[k])
  BY <1>1 DEF Removed
<1>4. PrepTicks \in Nat /\ \A i, j \in 1..n : pipe[i].in <= PrepTicks /\ (i <= j => pipe[i].in <= pipe[j].in)
  <2>1. \A i, j \in 1..n : i <= j => i = j \/ i < j
    BY <1>2
  <2> QED BY <1>2, <2>1, ConstantFacts DEF Ascending
<1> HIDE DEF n
<1> DEFINE Below(out, k) == \A i \in 1 .. Len(out) : \E j \in 1..k : out[i].in = pipe[j].in
           Good == {k \in 0..n : Ascending(acc[k].out) /\ Below(acc[k].out, k)}
<1>5. 0 \in Good
  <2>1. acc[0].out = <<>> /\ 0 \in 0..n
    BY <1>2, <1>3
  <2>2. Len(<<>>) = 0 /\ \A i \in 1..0 : FALSE
    OBVIOUS
  <2> QED BY <2>1, <2>2 DEF Ascending
<1>6. ASSUME NEW k \in 1..n, k - 1 \in Good PROVE k \in Good
  <2> DEFINE a == acc[k - 1]
             e == pipe[k]
             rest == [e EXCEPT !.bytes = @ - a.left]
  <2>1. k - 1 \in 0..n /\ k \in 0..n /\ k \in Nat
    BY <1>2
  <2>2. a \in [left : Nat, out : Seq(Grants)] /\ acc[k] = TakeFrom(a, e)
    BY <1>3, <2>1
  <2>3. Ascending(a.out) /\ Below(a.out, k - 1)
    BY <1>6
  <2>4. e \in Grants /\ e.in \in Nat
    BY <1>2
  <2>5. rest.in = e.in
    BY <2>4 DEF Grants
  <2>6. a.out \in Seq(Grants) /\ Len(a.out) \in Nat
    BY <2>2, LenProperties
  <2> HIDE DEF a, rest
  <2>7. CASE acc[k].out = a.out
    <3>1. Below(a.out, k)
      <4>1. \A j \in 1 .. k - 1 : j \in 1..k
        BY <2>1
      <4> QED BY <2>3, <4>1
    <3> QED BY <2>1, <2>3, <2>7, <3>1
  <2>8. CASE acc[k].out = Append(a.out, rest)
    <3> DEFINE s == a.out
               t == Append(s, rest)
               m == Len(s)
    <3>1. m \in Nat /\ Len(t) = m + 1 /\ t[m + 1] = rest /\ \A i \in 1..m : t[i] = s[i]
      BY <2>6, AppendProperties
    <3>2. \A i \in 1..m : s[i].in <= e.in
      <4> SUFFICES ASSUME NEW i \in 1..m PROVE s[i].in <= e.in
        OBVIOUS
      <4>1. PICK j \in 1 .. k - 1 : s[i].in = pipe[j].in
        BY <2>3
      <4>2. j \in 1..n /\ k \in 1..n /\ j <= k
        BY <1>2, <2>1
      <4> QED BY <1>4, <4>1, <4>2
    <3>3. \A i, j \in 1..m : s[i].in <= PrepTicks /\ (i < j => s[i].in <= s[j].in)
      BY <2>3 DEF Ascending
    <3>4. e.in <= PrepTicks
      BY <1>4
    <3>5. Below(s, k - 1)
      BY <2>3
    <3> HIDE DEF s, t, m, e
    <3>6. \A i \in 1 .. m + 1 : i \in 1..m \/ i = m + 1
      BY <3>1
    <3>7. Below(t, k)
      <4> SUFFICES ASSUME NEW i \in 1 .. m + 1 PROVE \E j \in 1..k : t[i].in = pipe[j].in
        BY <3>1
      <4>1. CASE i \in 1..m
        <5>1. PICK j \in 1 .. k - 1 : s[i].in = pipe[j].in
          BY <3>1, <3>5, <4>1 DEF m
        <5>2. j \in 1..k /\ t[i] = s[i]
          BY <2>1, <3>1, <4>1
        <5> QED BY <5>1, <5>2
      <4>2. CASE i = m + 1
        <5>1. k \in 1..k /\ t[i].in = pipe[k].in
          BY <2>1, <2>5, <3>1, <4>2 DEF e
        <5> QED BY <5>1
      <4> QED BY <3>6, <4>1, <4>2
    <3>8. Ascending(t)
      <4> SUFFICES ASSUME NEW i \in 1 .. m + 1, NEW j \in 1 .. m + 1
                   PROVE  t[i].in <= PrepTicks /\ (i < j => t[i].in <= t[j].in)
        BY <3>1 DEF Ascending
      <4>1. CASE i \in 1..m /\ j \in 1..m
        BY <3>1, <3>3, <4>1
      <4>2. CASE i \in 1..m /\ j = m + 1
        BY <2>5, <3>1, <3>2, <3>3, <4>2
      <4>3. CASE i = m + 1
        <5>1. ~ (i < j)
          BY <3>1, <4>3
        <5> QED BY <2>5, <3>1, <3>4, <4>3, <5>1
      <4> QED BY <3>6, <4>1, <4>2, <4>3
    <3> QED BY <2>1, <2>8, <3>7, <3>8 DEF s, t
  <2> QED BY <2>2, <2>7, <2>8 DEF TakeFrom, rest
<1>7. n \in Good
  <2> HIDE DEF Good
  <2>1. \A k \in 0..n : k \in Good
    BY <1>2, <1>5, <1>6, CountUp
  <2> QED BY <1>2, <2>1
<1>8. RemoveBytes(pipe, value) \in Seq(Grants)
  BY RemoveTyped
<1>9. TimesOf(acc[n].out, pipe)
  BY <1>7 DEF TimesOf, n
<1> QED BY <1>1, <1>7, <1>8, <1>9

\* A burst is put behind those prepared before.
LEMMA AscendingAppend ==
  ASSUME NEW pipe \in Seq(Grants), Ascending(pipe), NEW g \in Grants, g.in = PrepTicks
  PROVE  Append(pipe, g) \in Seq(Grants) /\ Ascending(Append(pipe, g))
<1> DEFINE m == Len(pipe)
           t == Append(pipe, g)
<1>1. /\ m \in Nat /\ Len(t) = m + 1 /\ t[m + 1] = g /\ \A i \in 1..m : t[i] = pipe[i]
      /\ t \in Seq(Grants)
  BY AppendProperties, LenProperties
<1>2. \A i, j \in 1..m : pipe[i].in <= PrepTicks /\ (i < j => pipe[i].in <= pipe[j].in)
  BY DEF Ascending
<1>3. PrepTicks \in Nat
  BY ConstantFacts
<1> HIDE DEF m, t
<1>4. \A i \in 1 .. m + 1 : i \in 1..m \/ i = m + 1
  BY <1>1
<1>5. Ascending(t)
  <2> SUFFICES ASSUME NEW i \in 1 .. m + 1, NEW j \in 1 .. m + 1
               PROVE  t[i].in <= PrepTicks /\ (i < j => t[i].in <= t[j].in)
    BY <1>1 DEF Ascending
  <2>1. CASE i \in 1..m /\ j \in 1..m
    BY <1>1, <1>2, <2>1
  <2>2. CASE i \in 1..m /\ j = m + 1
    BY <1>1, <1>2, <1>3, <2>2
  <2>3. CASE i = m + 1
    <3>1. ~ (i < j)
      BY <1>1, <2>3
    <3> QED BY <1>1, <1>3, <2>3, <3>1
  <2> QED BY <1>4, <2>1, <2>2, <2>3
<1> QED BY <1>1, <1>5 DEF t

\* What time does to the times of a pipeline.
LEMMA AgedTimes ==
  ASSUME NEW pipe \in Seq(Grants), NEW ticks \in Nat
  PROVE  /\ Aged(pipe, ticks) \in Seq(Grants) /\ Len(Aged(pipe, ticks)) = Len(pipe)
         /\ \A i \in 1 .. Len(pipe) :
              /\ pipe[i] \in Grants /\ Aged(pipe, ticks)[i] \in Grants
              /\ Aged(pipe, ticks)[i].bytes = pipe[i].bytes
              /\ Aged(pipe, ticks)[i].in = IF pipe[i].in <= ticks THEN 0 ELSE pipe[i].in - ticks
<1> DEFINE n == Len(pipe)
           aged == Aged(pipe, ticks)
<1>1. n \in Nat /\ DOMAIN pipe = 1..n /\ \A i \in 1..n : pipe[i] \in Grants
  BY LenProperties, ElementOfSeq
<1>2. aged \in Seq(Grants) /\ Len(aged) = n /\ \A i \in 1..n : aged[i].bytes = pipe[i].bytes
  BY AgedFacts
<1>3. \A i \in 1..n : aged[i] \in Grants
  BY <1>2, ElementOfSeq
<1>4. aged = [i \in 1..n |-> [pipe[i] EXCEPT !.in = Max({@ - ticks, 0})]]
  BY <1>1 DEF Aged
<1> HIDE DEF n, aged
<1>5. ASSUME NEW i \in 1..n
      PROVE  aged[i].in = IF pipe[i].in <= ticks THEN 0 ELSE pipe[i].in - ticks
  <2> DEFINE left == pipe[i].in - ticks
  <2>1. aged[i] = [pipe[i] EXCEPT !.in = Max({pipe[i].in - ticks, 0})]
    BY <1>4
  <2>2. pipe[i] \in Grants /\ pipe[i].in \in Nat
    BY <1>1 DEF Grants
  <2>3. aged[i].in = Max({left, 0})
    BY <2>1, <2>2 DEF Grants
  <2>4. left \in Int /\ 0 \in Int
    BY <2>2
  <2>5. (pipe[i].in <= ticks => left <= 0) /\ (~ (pipe[i].in <= ticks) => left > 0)
    BY <2>2
  <2> HIDE DEF left
  <2>6. Max({left, 0}) \in {left, 0} /\ Max({left, 0}) >= left /\ Max({left, 0}) >= 0
    BY <2>4, MaxOfTwo
  <2>7. Max({left, 0}) = IF pipe[i].in <= ticks THEN 0 ELSE left
    BY <2>4, <2>5, <2>6
  <2> QED BY <2>3, <2>7 DEF left
<1> QED BY <1>1, <1>2, <1>3, <1>5 DEF n, aged

\* Time keeps the order.
LEMMA AscendingAged ==
  ASSUME NEW pipe \in Seq(Grants), NEW ticks \in Nat, Ascending(pipe)
  PROVE  Ascending(Aged(pipe, ticks))
<1> DEFINE aged == Aged(pipe, ticks)
           n == Len(pipe)
<1>1. /\ Len(aged) = n
      /\ \A i \in 1..n :
           /\ pipe[i].in \in Nat
           /\ aged[i].in = IF pipe[i].in <= ticks THEN 0 ELSE pipe[i].in - ticks
  <2>1. \A g \in Grants : g.in \in Nat
    BY DEF Grants
  <2> QED BY <2>1, AgedTimes
<1> HIDE DEF aged
<1>2. PrepTicks \in Nat
  BY ConstantFacts
<1> SUFFICES ASSUME NEW i \in 1..n, NEW j \in 1..n
             PROVE  aged[i].in <= PrepTicks /\ (i < j => aged[i].in <= aged[j].in)
  BY <1>1 DEF Ascending, aged
<1>3. pipe[i].in <= PrepTicks /\ (i < j => pipe[i].in <= pipe[j].in)
  BY DEF Ascending
<1> DEFINE x == pipe[i].in
           y == pipe[j].in
<1>4. x \in Nat /\ y \in Nat
  BY <1>1
<1> HIDE DEF x, y
<1>5. /\ aged[i].in = (IF x <= ticks THEN 0 ELSE x - ticks)
      /\ aged[j].in = (IF y <= ticks THEN 0 ELSE y - ticks)
  BY <1>1 DEF x, y
<1>6. x <= PrepTicks /\ (i < j => x <= y)
  BY <1>3 DEF x, y
<1> QED BY <1>2, <1>4, <1>5, <1>6

-----------------------------------------------------------------------------
(* What a step does to the frames' room.                                   *)

\* Closings are numbers, and removing an event or adding one that is no dump
\* makes no new one.
LEMMA ClosingsRest ==
  ASSUME NEW list \in Seq(Events), list # <<>>, NEW f, NEW u \in Closings(Tail(list), f)
  PROVE  u \in Nat /\ u \in Closings(list, f)
<1>1. u \in Nat
  BY DEF Closings
<1>2. CASE u >= Horizon
  BY <1>1, <1>2 DEF Closings
<1>3. CASE \E i \in 1 .. Len(Tail(list)) : Tail(list)[i] \in DumpsOf(f) /\ Tail(list)[i].in = u
  <2>1. PICK i \in 1 .. Len(Tail(list)) : Tail(list)[i] \in DumpsOf(f) /\ Tail(list)[i].in = u
    BY <1>3
  <2>2. Len(Tail(list)) = Len(list) - 1 /\ Len(list) \in Nat /\ Tail(list)[i] = list[i + 1]
    BY <2>1, HeadTailProperties, LenProperties
  <2>3. i + 1 \in 1 .. Len(list)
    BY <2>1, <2>2
  <2> QED BY <1>1, <2>1, <2>2, <2>3 DEF Closings
<1> QED BY <1>2, <1>3 DEF Closings

\* The event in front is none of the flow's frames.
LEMMA RestBacks ==
  ASSUME NEW list \in Seq(Events), list # <<>>, NEW f, Head(list) \notin FramesOf(f),
         NEW granted, NEW prepared, Backs(list, granted, prepared, f)
  PROVE  Backs(Tail(list), granted, prepared, f)
<1> SUFFICES ASSUME NEW t \in Nat, NEW u \in Closings(Tail(list), f)
             PROVE  TotalWeight(prepared, Within(t, u)) + TotalWeight(granted, Within(t, u))
                      <= TotalWeight(Tail(list), SentWithin(f, t, u))
  BY DEF Backs
<1> DEFINE w == SentWithin(f, t, u)
<1>1. u \in Closings(list, f)
  BY ClosingsRest
<1>2. w \in [Events -> Nat] /\ Head(list) \in Events /\ w[Head(list)] = 0
  <2>1. Head(list) \in Events
    BY ListFacts, HeadTailProperties
  <2> QED BY <2>1, SentFrameFacts
<1> HIDE DEF w
<1>3. TotalWeight(list, w) = 0 + TotalWeight(Tail(list), w)
  BY <1>2, WeightTail
<1>4. TotalWeight(Tail(list), w) \in Nat
  <2>1. Tail(list) \in Seq(Events)
    BY HeadTailProperties
  <2> QED BY <1>2, <2>1, WeightFacts
<1> QED BY <1>1, <1>3, <1>4 DEF Backs, w

\* Both pipelines' windows are numbers, and so is what frames send.
LEMMA RoomFacts ==
  ASSUME NEW list \in Seq(Events), NEW pipe \in Seq(Grants), NEW f, NEW t, NEW u
  PROVE  /\ TotalWeight(pipe, Within(t, u)) \in Nat
         /\ TotalWeight(list, SentWithin(f, t, u)) \in Nat
BY WindowFacts, SentFrameFacts, WeightFacts

\* A burst is prepared: a grant leaves the pipeline, and no more bytes than it
\* has wait for its frame.
LEMMA BurstBacks ==
  ASSUME NEW list \in Seq(Events), list # <<>>, NEW f, Head(list) \in BurstsOf(f),
         NEW granted \in Seq(Grants), granted # <<>>, Head(granted).in = PrepTicks,
         NEW prepared \in Seq(Grants), Backs(list, granted, prepared, f)
  PROVE  /\ Backs(Tail(list), Tail(granted), prepared, f)
         /\ \A g \in Grants : g.in = PrepTicks /\ g.bytes <= Head(granted).bytes
              => Backs(Tail(list), Tail(granted), Append(prepared, g), f)
<1>1. Head(list) \notin FramesOf(f)
  BY DEF BurstsOf, BurstsDue, FramesOf, FramesDue, EventsOf
<1>2. Backs(Tail(list), granted, prepared, f)
  BY <1>1, RestBacks
<1> DEFINE h == Head(granted)
           rest == Tail(list)
<1>3. h \in Grants /\ Tail(granted) \in Seq(Grants)
  BY HeadTailProperties
<1> HIDE DEF rest
<1>4. ASSUME NEW t \in Nat, NEW u \in Closings(rest, f)
      PROVE  /\ Within(t, u) \in [Grants -> Nat]
             /\ TotalWeight(granted, Within(t, u))
                  = Within(t, u)[h] + TotalWeight(Tail(granted), Within(t, u))
             /\ TotalWeight(Tail(granted), Within(t, u)) \in Nat
             /\ TotalWeight(prepared, Within(t, u)) \in Nat
             /\ Within(t, u)[h] \in Nat
             /\ TotalWeight(prepared, Within(t, u)) + TotalWeight(granted, Within(t, u))
                  <= TotalWeight(rest, SentWithin(f, t, u))
             /\ TotalWeight(rest, SentWithin(f, t, u)) \in Nat
  <2>1. Within(t, u) \in [Grants -> Nat]
    BY WindowFacts
  <2>2. rest \in Seq(Events)
    BY HeadTailProperties DEF rest
  <2>3. TotalWeight(prepared, Within(t, u)) + TotalWeight(granted, Within(t, u))
          <= TotalWeight(rest, SentWithin(f, t, u))
    BY <1>2 DEF Backs, rest
  <2>4. Within(t, u)[h] \in Nat
    BY <1>3, <2>1
  <2>5. TotalWeight(granted, Within(t, u))
          = Within(t, u)[h] + TotalWeight(Tail(granted), Within(t, u))
    BY <2>1, WeightTail
  <2> QED BY <1>3, <2>1, <2>2, <2>3, <2>4, <2>5, RoomFacts
<1>5. Backs(rest, Tail(granted), prepared, f)
  <2> SUFFICES ASSUME NEW t \in Nat, NEW u \in Closings(rest, f)
               PROVE  TotalWeight(prepared, Within(t, u)) + TotalWeight(Tail(granted), Within(t, u))
                        <= TotalWeight(rest, SentWithin(f, t, u))
    BY DEF Backs
  <2> DEFINE w == Within(t, u)
             v == SentWithin(f, t, u)
  <2>1. /\ TotalWeight(granted, w) = w[h] + TotalWeight(Tail(granted), w)
        /\ TotalWeight(Tail(granted), w) \in Nat /\ TotalWeight(prepared, w) \in Nat /\ w[h] \in Nat
        /\ TotalWeight(prepared, w) + TotalWeight(granted, w) <= TotalWeight(rest, v)
        /\ TotalWeight(rest, v) \in Nat
    BY <1>4
  <2> HIDE DEF w, v, h
  <2> QED BY <2>1 DEF w, v
<1>6. ASSUME NEW g \in Grants, g.in = PrepTicks, g.bytes <= h.bytes
      PROVE  Backs(rest, Tail(granted), Append(prepared, g), f)
  <2> SUFFICES ASSUME NEW t \in Nat, NEW u \in Closings(rest, f)
               PROVE  TotalWeight(Append(prepared, g), Within(t, u))
                        + TotalWeight(Tail(granted), Within(t, u))
                        <= TotalWeight(rest, SentWithin(f, t, u))
    BY DEF Backs
  <2> DEFINE w == Within(t, u)
             v == SentWithin(f, t, u)
  <2>1. /\ TotalWeight(granted, w) = w[h] + TotalWeight(Tail(granted), w)
        /\ TotalWeight(Tail(granted), w) \in Nat /\ TotalWeight(prepared, w) \in Nat /\ w[h] \in Nat
        /\ TotalWeight(prepared, w) + TotalWeight(granted, w) <= TotalWeight(rest, v)
        /\ TotalWeight(rest, v) \in Nat
    BY <1>4
  <2>2. w \in [Grants -> Nat] /\ w[g] \in Nat /\ w[g] <= w[h]
    <3>1. /\ w[g] = (IF t <= g.in /\ g.in <= u THEN g.bytes ELSE 0)
          /\ w[h] = (IF t <= h.in /\ h.in <= u THEN h.bytes ELSE 0)
          /\ w \in [Grants -> Nat]
      BY <1>3, WindowFacts
    <3>2. g.in = h.in /\ g.bytes \in Nat /\ h.bytes \in Nat
      BY <1>3, <1>6 DEF Grants
    <3> HIDE DEF w, h
    <3> QED BY <1>6, <3>1, <3>2
  <2>3. TotalWeight(Append(prepared, g), w) = TotalWeight(prepared, w) + w[g]
    BY <2>2, WeightAppend
  <2> HIDE DEF w, v, h
  <2> QED BY <2>1, <2>2, <2>3 DEF w, v
<1> QED BY <1>5, <1>6 DEF rest, h

\* All that is ready is in front of all that is not.
LEMMA ReadyFirst ==
  ASSUME NEW pipe \in Seq(Grants), NEW u \in Nat
  PROVE  TotalWeight(pipe, Within(0, u)) = GetEligible(pipe) + TotalWeight(pipe, Within(1, u))
<1> DEFINE n == Len(pipe)
           ready == [i \in DOMAIN pipe |-> IF pipe[i].in <= 0 THEN pipe[i].bytes ELSE 0]
           all == Weights(pipe, Within(0, u))
           rest == Weights(pipe, Within(1, u))
<1>1. /\ n \in Nat /\ DOMAIN pipe = 1..n
      /\ \A i \in 1..n : pipe[i] \in Grants /\ pipe[i].bytes \in Nat /\ pipe[i].in \in Nat
  <2>1. n \in Nat /\ DOMAIN pipe = 1..n /\ \A i \in 1..n : pipe[i] \in Grants
    BY LenProperties, ElementOfSeq
  <2> QED BY <2>1 DEF Grants
<1>2. /\ all \in Seq(Nat) /\ Len(all) = n /\ \A i \in 1..n : all[i] = Within(0, u)[pipe[i]]
      /\ rest \in Seq(Nat) /\ Len(rest) = n /\ \A i \in 1..n : rest[i] = Within(1, u)[pipe[i]]
  BY WindowFacts, WeightFacts
<1>3. ready \in Seq(Nat) /\ Len(ready) = n
        /\ \A i \in 1..n : ready[i] = IF pipe[i].in <= 0 THEN pipe[i].bytes ELSE 0
  <2>1. ready \in [1..n -> Nat]
          /\ \A i \in 1..n : ready[i] = IF pipe[i].in <= 0 THEN pipe[i].bytes ELSE 0
    BY <1>1
  <2> HIDE DEF ready, n
  <2>2. ready \in Seq(Nat)
    BY <1>1, <2>1, SeqDef
  <2>3. DOMAIN ready = 1..n
    BY <2>1
  <2> QED BY <1>1, <2>1, <2>2, <2>3, LenProperties
<1> HIDE DEF n, ready, all, rest
<1>4. \A i \in 1..n : all[i] = ready[i] + rest[i]
  <2> SUFFICES ASSUME NEW i \in 1..n PROVE all[i] = ready[i] + rest[i]
    OBVIOUS
  <2> DEFINE x == pipe[i].in
             b == pipe[i].bytes
  <2>1. x \in Nat /\ b \in Nat
    BY <1>1
  <2>2. /\ all[i] = (IF 0 <= x /\ x <= u THEN b ELSE 0)
        /\ rest[i] = (IF 1 <= x /\ x <= u THEN b ELSE 0)
        /\ ready[i] = (IF x <= 0 THEN b ELSE 0)
    <3>1. pipe[i] \in Grants /\ ready[i] = IF x <= 0 THEN b ELSE 0
      BY <1>1, <1>3
    <3>2. all[i] = IF 0 <= x /\ x <= u THEN b ELSE 0
      BY <1>2, <3>1, WindowFacts
    <3>3. rest[i] = IF 1 <= x /\ x <= u THEN b ELSE 0
      BY <1>2, <3>1, WindowFacts
    <3> QED BY <3>1, <3>2, <3>3
  <2> HIDE DEF x, b
  <2> QED BY <2>1, <2>2
<1>5. SumSeq(all) = SumSeq(ready) + SumSeq(rest)
  <2>1. Len(rest) = Len(ready) /\ Len(all) = Len(ready)
    BY <1>2, <1>3
  <2>2. \A i \in 1 .. Len(ready) : all[i] = ready[i] + rest[i]
    BY <1>3, <1>4
  <2> QED BY <1>2, <1>3, <2>1, <2>2, SumAdded
<1> QED BY <1>5 DEF all, rest, ready, TotalWeight, GetEligible

\* No grant of the pipeline is ready.
NoneReady(pipe) == \A i \in 1 .. Len(pipe) : pipe[i].in # 0

\* A frame sends what is ready, as much as fits in it.
LEMMA SendBacks ==
  ASSUME NEW list \in Seq(Events), list # <<>>, NEW f, Head(list) \in FramesOf(f),
         Head(list).in = 0,
         NEW granted \in Seq(Grants), NoneReady(granted),
         NEW prepared \in Seq(Grants), Ascending(prepared), Backs(list, granted, prepared, f),
         NEW value, value = MinislotsToBytes(Head(list).arg.n) \/ value = GetEligible(prepared),
         value <= MinislotsToBytes(Head(list).arg.n), value <= GetEligible(prepared)
  PROVE  Backs(Tail(list), granted, RemoveBytes(prepared, value), f)
<1> DEFINE room == MinislotsToBytes(Head(list).arg.n)
           ready == GetEligible(prepared)
           rest == Tail(list)
           left == RemoveBytes(prepared, value)
<1>1. Head(list) \in Events /\ rest \in Seq(Events)
  BY ListFacts, HeadTailProperties
<1>2. room \in Nat /\ ready \in Nat /\ value \in Nat
  <2>1. Head(list).arg.n \in Nat
    BY DEF FramesOf, FramesDue, EventsOf, FlowArgs
  <2> QED BY <2>1, MinislotFacts, TotalFacts
<1>3. value \in 0 .. GetEligible(prepared) /\ left \in Seq(Grants)
  BY <1>2, RemoveTyped
<1> SUFFICES ASSUME NEW t \in Nat, NEW u \in Closings(rest, f)
             PROVE  TotalWeight(left, Within(t, u)) + TotalWeight(granted, Within(t, u))
                      <= TotalWeight(rest, SentWithin(f, t, u))
  BY DEF Backs
<1> DEFINE A(x) == TotalWeight(prepared, Within(x, u))
           B(x) == TotalWeight(left, Within(x, u))
           G(x) == TotalWeight(granted, Within(x, u))
           R(x) == TotalWeight(rest, SentWithin(f, x, u))
           L(x) == TotalWeight(list, SentWithin(f, x, u))
<1>4. u \in Nat /\ u \in Closings(list, f)
  BY ClosingsRest
<1>5. ASSUME NEW x \in Nat
      PROVE  /\ A(x) \in Nat /\ B(x) \in Nat /\ G(x) \in Nat /\ R(x) \in Nat
             /\ A(x) + G(x) <= L(x)
             /\ L(x) = (IF x = 0 /\ 0 < u THEN room ELSE 0) + R(x)
             /\ B(x) + (IF x = 0 THEN value ELSE 0) = A(x)
  <2>1. A(x) \in Nat /\ B(x) \in Nat /\ G(x) \in Nat /\ R(x) \in Nat
    BY <1>1, <1>3, RoomFacts
  <2>2. A(x) + G(x) <= L(x)
    BY <1>4 DEF Backs
  <2>3. L(x) = (IF x = 0 /\ 0 < u THEN room ELSE 0) + R(x)
    <3> DEFINE w == SentWithin(f, x, u)
    <3>1. /\ w \in [Events -> Nat]
          /\ w[Head(list)] = IF x <= 0 /\ 0 < u THEN room ELSE 0
      BY <1>1, SentFrameFacts
    <3> HIDE DEF w, room
    <3>2. TotalWeight(list, w) = w[Head(list)] + TotalWeight(rest, w)
      BY <3>1, WeightTail
    <3>3. x <= 0 <=> x = 0
      OBVIOUS
    <3> QED BY <3>1, <3>2, <3>3, Zenon DEF w
  <2>4. B(x) + (IF x = 0 THEN value ELSE 0) = A(x)
    <3> DEFINE w == Within(x, u)
               all == (x = 0)
    <3>1. /\ w \in [Grants -> Nat]
          /\ \A g \in Grants : w[g] = IF x <= g.in /\ g.in <= u THEN g.bytes ELSE 0
      BY WindowFacts
    <3> HIDE DEF w
    <3>2. \A g \in Grants : g.in = 0 => w[g] = IF all THEN g.bytes ELSE 0
      BY <1>4, <3>1
    <3>3. Counting(w, all) /\ all \in BOOLEAN
      BY <3>1, <3>2 DEF Counting
    <3> HIDE DEF all
    <3>4. TotalWeight(left, w) + (IF all THEN value ELSE 0) = TotalWeight(prepared, w)
      BY <1>3, <3>3, RemoveWeight
    <3> QED BY <3>4 DEF w, all
  <2> QED BY <2>1, <2>2, <2>3, <2>4
<1>6. A(0) = ready + A(1)
  BY <1>4, ReadyFirst
<1>7. G(0) = G(1)
  <2> DEFINE w == Within(0, u)
             v == Within(1, u)
  <2>1. /\ w \in [Grants -> Nat] /\ v \in [Grants -> Nat]
        /\ \A g \in Grants : w[g] = IF 0 <= g.in /\ g.in <= u THEN g.bytes ELSE 0
        /\ \A g \in Grants : v[g] = IF 1 <= g.in /\ g.in <= u THEN g.bytes ELSE 0
    BY WindowFacts
  <2> HIDE DEF w, v
  <2>2. ASSUME NEW i \in 1 .. Len(granted) PROVE w[granted[i]] = v[granted[i]]
    <3>1. granted[i] \in Grants /\ granted[i].in # 0
      BY ElementOfSeq DEF NoneReady
    <3>2. granted[i].in \in Nat
      BY <3>1 DEF Grants
    <3>3. 0 <= granted[i].in /\ 1 <= granted[i].in
      BY <3>1, <3>2
    <3> QED BY <2>1, <3>1, <3>3
  <2>3. TotalWeight(granted, w) = TotalWeight(granted, v)
    <3>1. DOMAIN granted = 1 .. Len(granted)
      BY LenProperties
    <3>2. Weights(granted, w) = Weights(granted, v)
      BY <2>2, <3>1 DEF Weights
    <3> QED BY <3>2 DEF TotalWeight
  <2> QED BY <2>3 DEF w, v
<1>8. R(1) <= R(0)
  <2> DEFINE w == SentWithin(f, 0, u)
             v == SentWithin(f, 1, u)
  <2>1. /\ w \in [Events -> Nat] /\ v \in [Events -> Nat]
        /\ \A e \in Events : w[e] = IF e \in FramesOf(f) /\ 0 <= e.in /\ e.in < u
                                    THEN MinislotsToBytes(e.arg.n) ELSE 0
        /\ \A e \in Events : v[e] = IF e \in FramesOf(f) /\ 1 <= e.in /\ e.in < u
                                    THEN MinislotsToBytes(e.arg.n) ELSE 0
    BY SentFrameFacts
  <2> HIDE DEF w, v
  <2>2. ASSUME NEW i \in 1 .. Len(rest) PROVE v[rest[i]] <= w[rest[i]]
    <3>1. rest[i] \in Events /\ rest[i].in \in Nat
      BY <1>1, ListFacts
    <3>2. w[rest[i]] \in Nat /\ v[rest[i]] \in Nat
      BY <2>1, <3>1
    <3>3. 0 <= rest[i].in
      BY <3>1
    <3>4. v[rest[i]] = 0 \/ v[rest[i]] = w[rest[i]]
      BY <2>1, <3>1, <3>3
    <3> QED BY <3>2, <3>4
  <2>3. TotalWeight(rest, v) <= TotalWeight(rest, w)
    BY <1>1, <2>1, <2>2, WeightLess
  <2> QED BY <2>3 DEF w, v
<1>9. value = room \/ value = ready
  OBVIOUS
<1>10. value <= room
  OBVIOUS
<1>11. 1 \in Nat /\ 0 \in Nat
  OBVIOUS
<1>12. /\ A(t) \in Nat /\ B(t) \in Nat /\ G(t) \in Nat /\ R(t) \in Nat
       /\ A(t) + G(t) <= L(t)
       /\ L(t) = (IF t = 0 /\ 0 < u THEN room ELSE 0) + R(t)
       /\ B(t) + (IF t = 0 THEN value ELSE 0) = A(t)
  BY <1>5
<1>13. /\ A(1) \in Nat /\ G(1) \in Nat /\ R(1) \in Nat
       /\ A(1) + G(1) <= L(1) /\ L(1) = 0 + R(1)
  BY <1>5, <1>11
<1> HIDE DEF A, B, G, R, L, room, ready
<1>14. B(t) + G(t) <= R(t)
  <2>1. CASE t # 0 \/ u = 0
    BY <1>2, <1>4, <1>12, <2>1
  <2>2. CASE t = 0 /\ u # 0 /\ value = room
    BY <1>2, <1>4, <1>12, <2>2
  <2>3. CASE t = 0 /\ u # 0 /\ value = ready
    <3>1. B(0) = A(1)
      BY <1>2, <1>6, <1>12, <1>13, <2>3
    <3> QED BY <1>7, <1>8, <1>12, <1>13, <2>3, <3>1
  <2> QED BY <1>9, <2>1, <2>2, <2>3
<1> QED BY <1>14 DEF B, G, R

-----------------------------------------------------------------------------
(* Time passes, and events that are no dumps join the list.                *)

\* Time brings all of it nearer.
LEMMA TimeBacks ==
  ASSUME NEW list \in Seq(Events), NEW later \in Seq(Events), Len(later) = Len(list),
         NEW ticks \in Nat,
         \A i \in 1 .. Len(list) :
           /\ later[i].in = list[i].in - ticks /\ later[i].event = list[i].event
           /\ later[i].arg = list[i].arg,
         NEW f, NEW granted \in Seq(Grants), Later(granted, ticks) \in Seq(Grants),
         NEW prepared \in Seq(Grants), Backs(list, granted, prepared, f)
  PROVE  Backs(later, Later(granted, ticks), Aged(prepared, ticks), f)
<1> SUFFICES ASSUME NEW t \in Nat, NEW u \in Closings(later, f)
             PROVE  TotalWeight(Aged(prepared, ticks), Within(t, u))
                      + TotalWeight(Later(granted, ticks), Within(t, u))
                      <= TotalWeight(later, SentWithin(f, t, u))
  BY DEF Backs
<1> DEFINE from == IF t = 0 THEN 0 ELSE t + ticks
           to == u + ticks
           new == Within(t, u)
           old == Within(from, to)
           grants == Later(granted, ticks)
           aged == Aged(prepared, ticks)
<1>1. u \in Nat
  BY DEF Closings
<1>2. ASSUME NEW i \in 1 .. Len(list)
      PROVE  /\ list[i] \in Events /\ later[i] \in Events /\ list[i].in \in Nat
             /\ later[i].in \in Nat /\ later[i].in = list[i].in - ticks
             /\ later[i].event = list[i].event /\ later[i].arg = list[i].arg
  BY ListFacts
<1>3. from \in Nat /\ to \in Closings(list, f)
  <2>1. from \in Nat /\ to \in Nat
    BY <1>1
  <2>2. CASE u >= Horizon
    <3>1. Horizon \in Nat
      BY ConstantFacts, MapIntervalFacts DEF Horizon
    <3>2. to >= Horizon
      BY <1>1, <2>2, <3>1
    <3> QED BY <2>1, <3>2 DEF Closings
  <2>3. CASE \E i \in 1 .. Len(later) : later[i] \in DumpsOf(f) /\ later[i].in = u
    <3>1. PICK i \in 1 .. Len(list) : later[i] \in DumpsOf(f) /\ later[i].in = u
      BY <2>3
    <3>2. list[i] \in DumpsOf(f)
      BY <1>2, <3>1, KindFacts
    <3>3. list[i].in = to
      BY <1>1, <1>2, <3>1
    <3> QED BY <2>1, <3>2, <3>3 DEF Closings
  <2> QED BY <2>2, <2>3 DEF Closings
<1>4. /\ new \in [Grants -> Nat] /\ old \in [Grants -> Nat]
      /\ \A g \in Grants : new[g] = IF t <= g.in /\ g.in <= u THEN g.bytes ELSE 0
      /\ \A g \in Grants : old[g] = IF from <= g.in /\ g.in <= to THEN g.bytes ELSE 0
  BY WindowFacts
<1> HIDE DEF new, old, grants, aged
<1>5. TotalWeight(aged, new) = TotalWeight(prepared, old)
  <2>1. aged \in Seq(Grants) /\ Len(aged) = Len(prepared)
    BY AgedTimes DEF aged
  <2>2. ASSUME NEW i \in 1 .. Len(prepared) PROVE new[aged[i]] = old[prepared[i]]
    <3> DEFINE x == prepared[i].in
               y == aged[i].in
    <3>1. /\ prepared[i] \in Grants /\ aged[i] \in Grants /\ aged[i].bytes = prepared[i].bytes
          /\ y = IF x <= ticks THEN 0 ELSE x - ticks
      BY AgedTimes DEF aged
    <3>2. x \in Nat
      BY <3>1 DEF Grants
    <3>3. /\ new[aged[i]] = IF t <= y /\ y <= u THEN prepared[i].bytes ELSE 0
          /\ old[prepared[i]] = IF from <= x /\ x <= to THEN prepared[i].bytes ELSE 0
      BY <1>4, <3>1
    <3>4. t <= y /\ y <= u <=> from <= x /\ x <= to
      <4> HIDE DEF x, y
      <4> QED BY <1>1, <3>1, <3>2
    <3> QED BY <3>3, <3>4
  <2>3. WeighSame(aged, new, prepared, old)
    BY <2>1, <2>2 DEF WeighSame
  <2> QED BY <2>1, <2>3, WeightMapped
<1>6. TotalWeight(grants, new) <= TotalWeight(granted, old)
  <2>1. /\ grants \in Seq(Grants) /\ Len(grants) = Len(granted) /\ Len(granted) \in Nat
        /\ \A i \in 1 .. Len(granted) :
             /\ granted[i] \in Grants /\ grants[i] \in Grants
             /\ grants[i].bytes = granted[i].bytes /\ grants[i].in = granted[i].in - ticks
    <3>1. /\ Len(granted) \in Nat /\ DOMAIN granted = 1 .. Len(granted)
          /\ \A i \in 1 .. Len(granted) : granted[i] \in Grants
      BY LenProperties, ElementOfSeq
    <3>2. grants = [i \in 1 .. Len(granted) |-> [granted[i] EXCEPT !.in = @ - ticks]]
      BY <3>1 DEF grants, Later
    <3>3. grants \in Seq(Grants) /\ DOMAIN grants = 1 .. Len(granted)
      BY <3>2 DEF grants
    <3>4. Len(grants) = Len(granted)
      BY <3>1, <3>3, LenProperties
    <3>5. ASSUME NEW i \in 1 .. Len(granted)
          PROVE  grants[i].bytes = granted[i].bytes /\ grants[i].in = granted[i].in - ticks
      BY <3>1, <3>2 DEF Grants
    <3>6. \A i \in 1 .. Len(granted) : grants[i] \in Grants
      BY <3>3, <3>4, ElementOfSeq
    <3> QED BY <3>1, <3>3, <3>4, <3>5, <3>6
  <2> DEFINE a == Weights(grants, new)
             b == Weights(granted, old)
  <2>2. /\ a \in Seq(Nat) /\ b \in Seq(Nat) /\ Len(a) = Len(granted) /\ Len(b) = Len(granted)
        /\ \A i \in 1 .. Len(granted) : a[i] = new[grants[i]] /\ b[i] = old[granted[i]]
    <3>1. a \in Seq(Nat) /\ Len(a) = Len(grants) /\ \A i \in 1 .. Len(grants) : a[i] = new[grants[i]]
      <4>1. grants \in Seq(Grants) /\ new \in [Grants -> Nat]
        BY <1>4, <2>1
      <4> QED BY <4>1, WeightFacts
    <3>2. b \in Seq(Nat) /\ Len(b) = Len(granted) /\ \A i \in 1 .. Len(granted) : b[i] = old[granted[i]]
      BY <1>4, WeightFacts
    <3> HIDE DEF a, b
    <3> QED BY <2>1, <3>1, <3>2
  <2> HIDE DEF a, b
  <2>3. ASSUME NEW i \in 1 .. Len(granted) PROVE a[i] <= b[i]
    <3> DEFINE x == granted[i].in
               y == grants[i].in
               z == granted[i].bytes
    <3>1. x \in Nat /\ y \in Nat /\ y = x - ticks /\ z \in Nat
      BY <2>1 DEF Grants
    <3>2. /\ a[i] = IF t <= y /\ y <= u THEN z ELSE 0
          /\ b[i] = IF from <= x /\ x <= to THEN z ELSE 0
      BY <1>4, <2>1, <2>2
    <3> HIDE DEF x, y, z
    <3> QED BY <1>1, <3>1, <3>2
  <2>4. SumSeq(a) <= SumSeq(b)
    BY <2>2, <2>3, SumMonotone
  <2> QED BY <2>4 DEF TotalWeight, a, b
<1>7. TotalWeight(later, SentWithin(f, t, u)) = TotalWeight(list, SentWithin(f, from, to))
  <2> DEFINE w == SentWithin(f, t, u)
             v == SentWithin(f, from, to)
  <2>1. /\ w \in [Events -> Nat] /\ v \in [Events -> Nat]
        /\ \A e \in Events : w[e] = IF e \in FramesOf(f) /\ t <= e.in /\ e.in < u
                                    THEN MinislotsToBytes(e.arg.n) ELSE 0
        /\ \A e \in Events : v[e] = IF e \in FramesOf(f) /\ from <= e.in /\ e.in < to
                                    THEN MinislotsToBytes(e.arg.n) ELSE 0
    BY SentFrameFacts
  <2> HIDE DEF w, v
  <2>2. ASSUME NEW i \in 1 .. Len(list) PROVE w[later[i]] = v[list[i]]
    <3> DEFINE x == list[i].in
               y == later[i].in
    <3>1. later[i] \in FramesOf(f) <=> list[i] \in FramesOf(f)
      <4>1. later[i] \in FramesOf(f) <=> later[i].event = "SendFrame" /\ later[i].arg.sfid = f
        BY <1>2, KindFacts
      <4>2. list[i] \in FramesOf(f) <=> list[i].event = "SendFrame" /\ list[i].arg.sfid = f
        BY <1>2, KindFacts
      <4> QED BY <1>2, <4>1, <4>2
    <3>2. x \in Nat /\ y \in Nat /\ y = x - ticks
      BY <1>2
    <3>3. t <= y /\ y < u <=> from <= x /\ x < to
      <4> HIDE DEF x, y
      <4> QED BY <1>1, <3>2
    <3> QED BY <1>2, <2>1, <3>1, <3>3
  <2>3. TotalWeight(later, w) = TotalWeight(list, v)
    <3>1. WeighSame(later, w, list, v)
      BY <2>2 DEF WeighSame
    <3> QED BY <3>1, WeightMapped
  <2> QED BY <2>3 DEF w, v
<1>8. TotalWeight(prepared, old) + TotalWeight(granted, old)
        <= TotalWeight(list, SentWithin(f, from, to))
  BY <1>3 DEF Backs, old
<1>9. /\ TotalWeight(prepared, old) \in Nat /\ TotalWeight(granted, old) \in Nat
      /\ TotalWeight(list, SentWithin(f, from, to)) \in Nat
      /\ TotalWeight(grants, new) \in Nat
  BY RoomFacts DEF old, new, grants
<1>10. TotalWeight(aged, new) + TotalWeight(grants, new)
         <= TotalWeight(later, SentWithin(f, t, u))
  <2> HIDE DEF from, to
  <2> QED BY <1>5, <1>6, <1>7, <1>8, <1>9
<1> QED BY <1>10 DEF aged, grants, new

\* More events, of which none closes: what they send is room.
Grows(old, new, f) ==
  /\ Closings(new, f) \subseteq Closings(old, f)
  /\ \A t, u : TotalWeight(old, SentWithin(f, t, u)) <= TotalWeight(new, SentWithin(f, t, u))

\* Room that grows is enough.
LEMMA GrownBacks ==
  ASSUME NEW old \in Seq(Events), NEW new \in Seq(Events), NEW f, Grows(old, new, f),
         NEW granted \in Seq(Grants), NEW prepared \in Seq(Grants),
         Backs(old, granted, prepared, f)
  PROVE  Backs(new, granted, prepared, f)
<1> SUFFICES ASSUME NEW t \in Nat, NEW u \in Closings(new, f)
             PROVE  TotalWeight(prepared, Within(t, u)) + TotalWeight(granted, Within(t, u))
                      <= TotalWeight(new, SentWithin(f, t, u))
  BY DEF Backs
<1>1. u \in Closings(old, f)
  BY DEF Grows
<1>2. TotalWeight(prepared, Within(t, u)) + TotalWeight(granted, Within(t, u))
        <= TotalWeight(old, SentWithin(f, t, u))
  BY <1>1 DEF Backs
<1>3. TotalWeight(old, SentWithin(f, t, u)) <= TotalWeight(new, SentWithin(f, t, u))
  BY DEF Grows
<1>4. /\ TotalWeight(prepared, Within(t, u)) \in Nat /\ TotalWeight(granted, Within(t, u)) \in Nat
      /\ TotalWeight(old, SentWithin(f, t, u)) \in Nat
      /\ TotalWeight(new, SentWithin(f, t, u)) \in Nat
  BY RoomFacts
<1> QED BY <1>2, <1>3, <1>4

\* The dumps of a list in which those of another are joined by no dump.
LEMMA ClosingsJoined ==
  ASSUME NEW old \in Seq(Events), NEW new \in Seq(Events), NEW events, NEW a, NEW b,
         Merged(new, old, events, Len(events), a, b), NEW f, Avoids(events, DumpsOf(f))
  PROVE  Closings(new, f) \subseteq Closings(old, f)
<1> SUFFICES ASSUME NEW u \in Closings(new, f) PROVE u \in Closings(old, f)
  OBVIOUS
<1>1. u \in Nat
  BY DEF Closings
<1>2. CASE u >= Horizon
  BY <1>1, <1>2 DEF Closings
<1>3. CASE \E i \in 1 .. Len(new) : new[i] \in DumpsOf(f) /\ new[i].in = u
  <2>1. PICK p \in 1 .. Len(new) : new[p] \in DumpsOf(f) /\ new[p].in = u
    BY <1>3
  <2>2. \/ \E i \in 1 .. Len(old) : p = a[i]
        \/ \E j \in 1 .. Len(events) : p = b[j]
    BY DEF Merged
  <2>3. \A j \in 1 .. Len(events) : new[b[j]] = events[j]
    BY DEF Merged
  <2>4. \A i \in 1 .. Len(old) : new[a[i]] = old[i]
    BY DEF Merged
  <2>5. PICK i \in 1 .. Len(old) : p = a[i]
    BY <2>1, <2>2, <2>3 DEF Avoids
  <2>6. old[i] \in DumpsOf(f) /\ old[i].in = u
    BY <2>1, <2>4, <2>5
  <2> QED BY <1>1, <2>6 DEF Closings
<1> QED BY <1>2, <1>3 DEF Closings

\* Events that close nothing join the list.
LEMMA ScheduleGrows ==
  ASSUME NEW list \in Seq(Events), Sorted(list), NEW events \in Seq(Events), NEW f,
         Avoids(events, DumpsOf(f))
  PROVE  ScheduleAll(list, events) \in Seq(Events) /\ Grows(list, ScheduleAll(list, events), f)
<1> DEFINE new == ScheduleAll(list, events)
<1>1. Timed(list) /\ Timed(events)
  BY ListFacts
<1>2. new \in Seq(Events) /\ \E a, b : Merged(new, list, events, Len(events), a, b)
  BY <1>1, ScheduleAllMerges
<1>3. ASSUME NEW t, NEW u
      PROVE  TotalWeight(list, SentWithin(f, t, u)) <= TotalWeight(new, SentWithin(f, t, u))
  <2> DEFINE w == SentWithin(f, t, u)
  <2>1. w \in [Events -> Nat]
    BY SentFrameFacts
  <2> HIDE DEF w
  <2>2. TotalWeight(new, w) = TotalWeight(list, w) + TotalWeight(events, w)
    BY <1>1, <2>1, WeightScheduled
  <2>3. TotalWeight(list, w) \in Nat /\ TotalWeight(events, w) \in Nat
    BY <2>1, WeightFacts
  <2> HIDE DEF new
  <2>4. TotalWeight(list, w) <= TotalWeight(new, w)
    BY <2>2, <2>3
  <2> QED BY <2>4 DEF w
<1> HIDE DEF new
<1>4. Closings(new, f) \subseteq Closings(list, f)
  BY <1>2, ClosingsJoined
<1> QED BY <1>2, <1>3, <1>4 DEF Grows, new

\* So does one.
LEMMA ScheduleOneGrows ==
  ASSUME NEW list \in Seq(Events), Sorted(list), NEW event \in Events, NEW f,
         event \notin DumpsOf(f)
  PROVE  Schedule(list, event) \in Seq(Events) /\ Grows(list, Schedule(list, event), f)
<1> DEFINE new == Schedule(list, event)
<1>1. Timed(list) /\ event.in \in Nat
  BY ListFacts, EventFacts
<1>2. new \in Seq(Events) /\ \E k \in Nat : Inserted(new, list, k, event)
  BY <1>1, ScheduleInserts
<1>3. \E a, b : Merged(new, list, <<event>>, 1, a, b)
  BY ScheduleMerges
<1> HIDE DEF new
<1>4. ASSUME NEW t, NEW u
      PROVE  TotalWeight(list, SentWithin(f, t, u)) <= TotalWeight(new, SentWithin(f, t, u))
  <2> DEFINE w == SentWithin(f, t, u)
  <2>1. w \in [Events -> Nat]
    BY SentFrameFacts
  <2> HIDE DEF w
  <2>2. TotalWeight(new, w) = TotalWeight(list, w) + w[event]
    BY <1>2, <2>1, WeightInserted
  <2>3. TotalWeight(list, w) \in Nat /\ w[event] \in Nat
    BY <2>1, WeightFacts
  <2>4. TotalWeight(list, w) <= TotalWeight(new, w)
    BY <2>2, <2>3
  <2> QED BY <2>4 DEF w
<1>5. Closings(new, f) \subseteq Closings(list, f)
  <2>1. Len(<<event>>) = 1 /\ \A j \in 1..1 : <<event>>[j] = event
    OBVIOUS
  <2>2. Avoids(<<event>>, DumpsOf(f))
    BY <2>1 DEF Avoids
  <2> QED BY <1>2, <1>3, <2>1, <2>2, ClosingsJoined
<1> QED BY <1>2, <1>4, <1>5 DEF Grows, new

\* And a list put together with one that closes nothing.
LEMMA ConcatGrows ==
  ASSUME NEW s \in Seq(Events), NEW t \in Seq(Events), NEW f
  PROVE  /\ s \o t \in Seq(Events)
         /\ Avoids(t, DumpsOf(f)) => Grows(s, s \o t, f)
         /\ Avoids(s, DumpsOf(f)) => Grows(t, s \o t, f)
<1> DEFINE both == s \o t
           x == Len(s)
           y == Len(t)
<1>1. /\ both \in Seq(Events) /\ x \in Nat /\ y \in Nat /\ Len(both) = x + y
      /\ \A i \in 1 .. x + y : both[i] = IF i <= x THEN s[i] ELSE t[i - x]
  BY ConcatProperties, LenProperties
<1>2. ASSUME NEW from, NEW to
      PROVE  /\ TotalWeight(s, SentWithin(f, from, to)) <= TotalWeight(both, SentWithin(f, from, to))
             /\ TotalWeight(t, SentWithin(f, from, to)) <= TotalWeight(both, SentWithin(f, from, to))
  <2> DEFINE w == SentWithin(f, from, to)
  <2>1. w \in [Events -> Nat]
    BY SentFrameFacts
  <2> HIDE DEF w
  <2>2. TotalWeight(both, w) = TotalWeight(s, w) + TotalWeight(t, w)
    BY <2>1, WeightConcat
  <2>3. TotalWeight(s, w) \in Nat /\ TotalWeight(t, w) \in Nat
    BY <2>1, WeightFacts
  <2> HIDE DEF both
  <2>4. TotalWeight(s, w) <= TotalWeight(both, w) /\ TotalWeight(t, w) <= TotalWeight(both, w)
    BY <2>2, <2>3
  <2> QED BY <2>4 DEF w
<1> HIDE DEF both, x, y
<1>3. ASSUME NEW u \in Closings(both, f), ~ (u >= Horizon)
      PROVE  /\ u \in Nat
             /\ \/ \E i \in 1..x : s[i] \in DumpsOf(f) /\ s[i].in = u
                \/ \E i \in 1..y : t[i] \in DumpsOf(f) /\ t[i].in = u
  <2>1. u \in Nat
    BY DEF Closings
  <2>2. PICK i \in 1 .. x + y : both[i] \in DumpsOf(f) /\ both[i].in = u
    BY <1>1, <1>3 DEF Closings
  <2>3. CASE i <= x
    <3>1. i \in 1..x /\ both[i] = s[i]
      BY <1>1, <2>3
    <3> QED BY <2>1, <2>2, <3>1
  <2>4. CASE ~ (i <= x)
    <3>1. i - x \in 1..y /\ both[i] = t[i - x]
      BY <1>1, <2>4
    <3> QED BY <2>1, <2>2, <3>1
  <2> QED BY <2>3, <2>4
<1>4. ASSUME Avoids(t, DumpsOf(f)) PROVE Closings(both, f) \subseteq Closings(s, f)
  <2> SUFFICES ASSUME NEW u \in Closings(both, f) PROVE u \in Closings(s, f)
    OBVIOUS
  <2>1. u \in Nat
    BY DEF Closings
  <2> QED BY <1>3, <1>4, <2>1 DEF Closings, Avoids, x, y
<1>5. ASSUME Avoids(s, DumpsOf(f)) PROVE Closings(both, f) \subseteq Closings(t, f)
  <2> SUFFICES ASSUME NEW u \in Closings(both, f) PROVE u \in Closings(t, f)
    OBVIOUS
  <2>1. u \in Nat
    BY DEF Closings
  <2> QED BY <1>3, <1>5, <2>1 DEF Closings, Avoids, x, y
<1> QED BY <1>1, <1>2, <1>4, <1>5 DEF Grows, both

-----------------------------------------------------------------------------
(* The frames of a MAP.                                                    *)

\* s has the numbers of r that are behind the p-th, and G the sums of r.
LeavesBehind(s, r, G, p) ==
  /\ \A k \in 0 .. Len(s) : G[k] \in Nat
  /\ \A k \in 1 .. Len(s) : r[k] \in Nat /\ G[k] = G[k - 1] + r[k]
  /\ \A k \in 1 .. Len(s) : s[k] = IF k <= p THEN 0 ELSE r[k]

\* They add up to what the sums have grown by since.
LEMMA SumBehind ==
  ASSUME NEW s \in Seq(Nat), NEW r, NEW G, NEW p \in 0 .. Len(s), LeavesBehind(s, r, G, p)
  PROVE  SumSeq(s) = G[Len(s)] - G[p]
<1> DEFINE n == Len(s)
           cut == [k \in 0..n |-> IF k <= p THEN 0 ELSE G[k] - G[p]]
<1>1. n \in Nat /\ p \in Nat
  BY LenProperties
<1>0. /\ \A k \in 0..n : G[k] \in Nat
      /\ \A k \in 1..n : r[k] \in Nat /\ G[k] = G[k - 1] + r[k]
      /\ \A k \in 1..n : s[k] = IF k <= p THEN 0 ELSE r[k]
  BY DEF LeavesBehind
<1>2. ASSUME NEW k \in 0..n
      PROVE  /\ cut[k] = IF k <= p THEN 0 ELSE G[k] - G[p]
             /\ p <= k => cut[k] = G[k] - G[p]
  <2>1. cut[k] = IF k <= p THEN 0 ELSE G[k] - G[p]
    OBVIOUS
  <2>2. k <= p /\ p <= k => k = p
    BY <1>1
  <2>3. G[p] - G[p] = 0
    BY <1>0
  <2> HIDE DEF cut
  <2> QED BY <2>1, <2>2, <2>3
<1> HIDE DEF cut
<1>3. ASSUME NEW k \in 1..n PROVE cut[k] = cut[k - 1] + s[k]
  <2> DEFINE a == G[k - 1]
             b == G[k]
             c == G[p]
             x == cut[k]
             y == cut[k - 1]
  <2>1. k - 1 \in 0..n /\ k \in 0..n /\ k \in Nat
    BY <1>1
  <2>2. a \in Nat /\ b \in Nat /\ c \in Nat /\ r[k] \in Nat /\ b = a + r[k]
    BY <1>0, <1>1, <2>1
  <2>3. x = (IF k <= p THEN 0 ELSE b - c) /\ y = (IF k - 1 <= p THEN 0 ELSE a - c)
    BY <1>2, <2>1
  <2>4. s[k] = IF k <= p THEN 0 ELSE r[k]
    BY <1>0
  <2>5. k - 1 = p => a = c
    OBVIOUS
  <2> HIDE DEF a, b, c, x, y
  <2>6. CASE k <= p
    <3>1. k - 1 <= p
      BY <1>1, <2>1, <2>6
    <3>2. x = y + s[k]
      BY <2>3, <2>4, <2>6, <3>1
    <3> QED BY <3>2 DEF x, y
  <2>7. CASE k - 1 = p
    <3>1. ~ (k <= p) /\ k - 1 <= p
      BY <1>1, <2>1, <2>7
    <3>2. x = y + s[k]
      BY <2>2, <2>3, <2>4, <2>5, <2>7, <3>1
    <3> QED BY <3>2 DEF x, y
  <2>8. CASE ~ (k - 1 <= p)
    <3>1. ~ (k <= p)
      BY <1>1, <2>1, <2>8
    <3>2. x = b - c /\ y = a - c /\ s[k] = r[k]
      BY <2>3, <2>4, <2>8, <3>1
    <3>3. x = y + s[k]
      BY <2>2, <3>2
    <3> QED BY <3>3 DEF x, y
  <2>9. k <= p \/ k - 1 = p \/ ~ (k - 1 <= p)
    BY <1>1, <2>1
  <2> QED BY <2>6, <2>7, <2>8, <2>9
<1>4. cut[0] = 0
  <2>1. 0 \in 0..n /\ 0 <= p
    BY <1>1
  <2> QED BY <1>2, <2>1
<1>5. \A k \in 0..n : cut[k] \in Nat
  <2> DEFINE T == {k \in 0..n : cut[k] \in Nat}
  <2>1. 0 \in T
    BY <1>1, <1>4
  <2>2. ASSUME NEW k \in 1..n, k - 1 \in T PROVE k \in T
    <3>1. k \in 0..n /\ s[k] \in Nat /\ cut[k - 1] \in Nat
      BY <1>1, <2>2, ElementOfSeq
    <3> QED BY <1>3, <3>1
  <2> HIDE DEF T
  <2>3. \A k \in 0..n : k \in T
    BY <1>1, <2>1, <2>2, CountUp
  <2> QED BY <2>3 DEF T
<1>6. SumSeq(s) = cut[n]
  BY <1>3, <1>4, <1>5, SumBetween
<1>7. n \in 0..n /\ p <= n
  BY <1>1
<1> QED BY <1>2, <1>6, <1>7

\* Frames follow each other.
LEMMA FrameTimeRises ==
  ASSUME NEW j \in Nat, NEW k \in Nat, j <= k
  PROVE  FrameTime(j) \in Nat /\ FrameTime(k) \in Nat /\ FrameTime(j) <= FrameTime(k)
<1>1. FrameTicks \in Nat /\ ProcTicks \in Nat
  BY ConstantFacts
<1>2. j * FrameTicks \in Nat /\ k * FrameTicks \in Nat /\ j * FrameTicks <= k * FrameTicks
  BY <1>1, ProductFacts
<1> QED BY <1>1, <1>2 DEF FrameTime

\* The first frame that is not before a time.
FirstFrame(k, t) ==
  /\ k \in 0..FramesPerMap
  /\ \A j \in 0 .. FramesPerMap - 1 : FrameTime(j) >= t <=> k <= j

\* There is one, or it is the frame after the MAP's.
LEMMA FirstFrameExists ==
  ASSUME NEW t \in Nat
  PROVE  \E k : FirstFrame(k, t)
<1> DEFINE n == FramesPerMap
           T == {k \in 0..n : k = n \/ FrameTime(k) >= t}
<1>1. n \in Nat
  BY ConstantFacts
<1>2. T \in SUBSET Nat /\ n \in T
  BY <1>1
<1>3. PICK k \in T : \A j \in T : k <= j
  <2> HIDE DEF T
  <2> QED BY <1>2, LeastNumber
<1>4. k \in 0..n /\ (k = n \/ FrameTime(k) >= t)
  OBVIOUS
<1>5. ASSUME NEW j \in 0 .. n - 1 PROVE FrameTime(j) >= t <=> k <= j
  <2>1. j \in 0..n /\ j # n /\ j \in Nat
    BY <1>1
  <2>2. ASSUME FrameTime(j) >= t PROVE k <= j
    <3>1. j \in T
      BY <2>1, <2>2
    <3> HIDE DEF T
    <3> QED BY <1>3, <3>1
  <2>3. ASSUME k <= j PROVE FrameTime(j) >= t
    <3>1. k # n /\ k \in Nat
      BY <1>1, <1>4, <2>1, <2>3
    <3>2. FrameTime(k) >= t
      BY <1>4, <3>1
    <3>3. FrameTime(k) \in Nat /\ FrameTime(j) \in Nat /\ FrameTime(k) <= FrameTime(j)
      BY <2>1, <2>3, <3>1, FrameTimeRises
    <3> QED BY <3>2, <3>3
  <2> QED BY <2>2, <2>3
<1> HIDE DEF T
<1>6. FirstFrame(k, t)
  BY <1>4, <1>5 DEF FirstFrame, n
<1> QED BY <1>6

\* What the frames of a MAP from one on send.
LEMMA FramesSend ==
  ASSUME NEW f \in Flows, NEW grants, Placed(grants), Len(grants) > 0,
         NEW t \in Nat, NEW first, FirstFrame(first, t), NEW u,
         \A i \in 1 .. Len(FrameEvents(f, grants)) : FrameEvents(f, grants)[i].in < u
  PROVE  TotalWeight(FrameEvents(f, grants), SentWithin(f, t, u))
           = GrantedBytes(grants) - GrantedBefore(grants, first)
<1> DEFINE n == FramesPerMap
           w == SentWithin(f, t, u)
           frames == FrameEvents(f, grants)
           room(k) == MinislotsToBytes(AllocationInFrame(grants, k - 1))
           event(k) == FlowEvent(ProcTicks + (k - 1) * FrameTicks, "SendFrame", f,
                                 AllocationInFrame(grants, k - 1))
           part(k) == IF AllocationInFrame(grants, k - 1) = 0 THEN <<>> ELSE <<event(k)>>
           parts == [k \in 1..n |-> part(k)]
           sent == WeightsOf(parts, w)
<1>1. frames = FlattenSeq(parts)
  BY DEF FrameEvents
<1>2. n \in Nat /\ n > 0
  BY ConstantFacts
<1>3. /\ w \in [Events -> Nat]
      /\ \A e \in Events : w[e] = IF e \in FramesOf(f) /\ t <= e.in /\ e.in < u
                                  THEN MinislotsToBytes(e.arg.n) ELSE 0
  BY SentFrameFacts
<1>4. ASSUME NEW k \in 1..n
      PROVE  /\ k - 1 \in Nat /\ AllocationInFrame(grants, k - 1) \in Nat /\ room(k) \in Nat
             /\ event(k) \in Events /\ event(k) \in FramesOf(f)
             /\ event(k).in = FrameTime(k - 1)
             /\ event(k).arg.n = AllocationInFrame(grants, k - 1)
  <2>1. k - 1 \in 0 .. n - 1 /\ k - 1 \in Nat
    BY <1>2
  <2> DEFINE time == ProcTicks + (k - 1) * FrameTicks
  <2>2. time = FrameTime(k - 1) /\ time \in Nat
    <3>1. time = FrameTime(k - 1)
      BY DEF FrameTime
    <3> HIDE DEF time
    <3> QED BY <2>1, <3>1, FrameTimeFacts
  <2>3. AllocationInFrame(grants, k - 1) \in Nat
    BY <2>1, AllocationFacts
  <2> HIDE DEF time
  <2>4. FlowEvent(time, "SendFrame", f, AllocationInFrame(grants, k - 1)) \in FramesDue
    BY <2>2, <2>3 DEF FlowEvent, Event, FramesDue, EventsOf, FlowArgs
  <2>5. /\ event(k) \in FramesDue /\ event(k).in = time /\ event(k).arg.sfid = f
        /\ event(k).arg.n = AllocationInFrame(grants, k - 1)
    BY <2>4 DEF time, FlowEvent, Event
  <2> HIDE DEF event
  <2> QED BY <2>1, <2>2, <2>3, <2>5, MinislotFacts DEF FramesOf, Events
<1> HIDE DEF event, w, frames
<1>5. ASSUME NEW k \in 1..n PROVE part(k) \in Seq(Events)
  BY <1>4
<1>6. parts \in Seq(Seq(Events)) /\ Len(parts) = n /\ DOMAIN parts = 1..n
        /\ \A k \in 1..n : parts[k] = part(k)
  <2> HIDE DEF part, n
  <2>1. parts \in [1..n -> Seq(Events)] /\ \A k \in 1..n : parts[k] = part(k)
    BY <1>5
  <2> QED BY <2>1, <1>2, SeqDef, LenProperties
<1>7. ASSUME NEW k \in 1..n
      PROVE  /\ TotalWeight(part(k), w) \in Nat
             /\ TotalWeight(part(k), w) = IF k - 1 < first THEN 0 ELSE room(k)
  <2>1. k - 1 \in 0 .. n - 1 /\ first \in 0..n
    BY <1>2 DEF FirstFrame
  <2>2. FrameTime(k - 1) >= t <=> first <= k - 1
    BY <2>1 DEF FirstFrame
  <2>3. part(k) \in Seq(Events)
    BY <1>5
  <2>4. TotalWeight(part(k), w) \in Nat
    BY <1>3, <2>3, WeightFacts
  <2>5. CASE AllocationInFrame(grants, k - 1) = 0
    <3>1. part(k) = <<>> /\ ~ \E i : i \in 1 .. Len(<<>>)
      BY <2>5
    <3>2. TotalWeight(<<>>, w) = 0
      <4>1. w \in [Events -> Nat]
        BY <1>3
      <4>2. <<>> \in Seq(Events) /\ \A i \in 1 .. Len(<<>>) : w[<<>>[i]] = 0
        OBVIOUS
      <4> QED BY <4>1, <4>2, WeightZero
    <3>3. room(k) = 0
      BY <2>5, ConstantFacts DEF MinislotsToBytes
    <3> HIDE DEF part, room
    <3> QED BY <2>4, <3>1, <3>2, <3>3
  <2>6. CASE AllocationInFrame(grants, k - 1) # 0
    <3>1. part(k) = <<event(k)>>
      BY <2>6
    <3>2. TotalWeight(<<event(k)>>, w) = w[event(k)]
      BY <1>3, <1>4, WeightOfOne
    <3>3. event(k).in < u
      <4>1. part(k) # <<>>
        BY <3>1
      <4> DEFINE S == {e \in Events : e.in < u}
      <4>2. PICK F : Flattened(Events, parts, n, F) /\ FlattenSeq(parts) = F[n]
        <5> HIDE DEF parts
        <5> QED BY <1>2, <1>6, FlattenSteps
      <4>3. StandsIn(parts, n, F, k)
        <5> HIDE DEF parts
        <5>1. Len(parts) > 0 /\ k \in 1 .. Len(parts) /\ Flattened(Events, parts, Len(parts), F)
          BY <1>2, <1>6, <4>2
        <5> QED BY <1>6, <5>1, FlattenParts
      <4>4. Len(parts[k]) = 1 /\ parts[k][1] = event(k)
        BY <1>6, <3>1
      <4> HIDE DEF parts
      <4>5. /\ Len(F[k - 1]) \in Nat /\ Len(F[k]) = Len(F[k - 1]) + 1
            /\ Len(F[k]) <= Len(F[n]) /\ Len(F[n]) \in Nat
            /\ F[n][Len(F[k - 1]) + 1] = event(k)
        BY <4>3, <4>4 DEF StandsIn
      <4>6. Len(F[k - 1]) + 1 \in 1 .. Len(F[n])
        BY <4>5
      <4>7. F[n] = frames
        BY <1>1, <4>2
      <4> QED BY <4>5, <4>6, <4>7 DEF frames
    <3>4. w[event(k)] = IF t <= FrameTime(k - 1) THEN room(k) ELSE 0
      BY <1>3, <1>4, <3>3
    <3>5. FrameTime(k - 1) \in Nat
      BY <1>4, FrameTimeFacts
    <3>6. t <= FrameTime(k - 1) <=> ~ (k - 1 < first)
      BY <2>1, <2>2, <3>5
    <3> HIDE DEF part, room
    <3> QED BY <2>4, <3>1, <3>2, <3>4, <3>6
  <2> QED BY <2>5, <2>6
<1> HIDE DEF part, room
<1>8. sent \in Seq(Nat) /\ Len(sent) = n
        /\ \A k \in 1..n : sent[k] = IF k - 1 < first THEN 0 ELSE room(k)
  <2>1. sent = [k \in 1..n |-> TotalWeight(parts[k], w)]
    BY <1>6 DEF WeightsOf
  <2> HIDE DEF sent, parts
  <2>2. sent \in [1..n -> Nat]
    BY <1>6, <1>7, <2>1
  <2>3. \A k \in 1..n : sent[k] = IF k - 1 < first THEN 0 ELSE room(k)
    BY <1>6, <1>7, <2>1
  <2> QED BY <1>2, <2>2, <2>3, SeqDef, LenProperties
<1>9. TotalWeight(frames, w) = SumSeq(sent)
  <2> HIDE DEF parts
  <2> QED BY <1>1, <1>2, <1>3, <1>6, WeightFlatten
<1> HIDE DEF sent, parts
<1> DEFINE G == [k \in 0..n |-> GrantedBefore(grants, k)]
           rooms == [k \in 1..n |-> room(k)]
<1>10. first \in 0..n /\ n \in 0..n
  BY <1>2 DEF FirstFrame
<1>11. /\ \A k \in 0..n : G[k] \in Nat /\ G[k] = GrantedBefore(grants, k)
       /\ G[n] = GrantedBytes(grants)
  BY <1>10, GrantedBeforeFacts
<1>12. ASSUME NEW k \in 1..n PROVE rooms[k] \in Nat /\ G[k] = G[k - 1] + rooms[k]
  <2>1. k - 1 \in Nat /\ (k - 1) + 1 = k /\ k \in 0..n /\ k - 1 \in 0..n
    BY <1>2
  <2>2. GrantedBefore(grants, (k - 1) + 1)
          = GrantedBefore(grants, k - 1) + MinislotsToBytes(AllocationInFrame(grants, k - 1))
    BY <2>1, GrantedBeforeFacts
  <2>3. rooms[k] = room(k) /\ room(k) \in Nat
    BY <1>4
  <2>4. G[k] = GrantedBefore(grants, k) /\ G[k - 1] = GrantedBefore(grants, k - 1)
    BY <1>11, <2>1
  <2> HIDE DEF rooms, G
  <2> QED BY <2>1, <2>2, <2>3, <2>4 DEF room
<1>13. ASSUME NEW k \in 1..n PROVE sent[k] = IF k <= first THEN 0 ELSE rooms[k]
  <2>1. k - 1 < first <=> k <= first
    BY <1>2, <1>10
  <2>2. rooms[k] = room(k)
    OBVIOUS
  <2> HIDE DEF rooms
  <2> QED BY <1>8, <2>1, <2>2
<1> HIDE DEF G, rooms
<1>14. LeavesBehind(sent, rooms, G, first)
  BY <1>8, <1>11, <1>12, <1>13 DEF LeavesBehind
<1>15. SumSeq(sent) = G[n] - G[first]
  <2>1. first \in 0 .. Len(sent) /\ sent \in Seq(Nat)
    BY <1>8, <1>10
  <2>2. SumSeq(sent) = G[Len(sent)] - G[first]
    BY <1>14, <2>1, SumBehind
  <2> QED BY <1>8, <2>2
<1> QED BY <1>9, <1>10, <1>11, <1>15 DEF frames, w

-----------------------------------------------------------------------------
(* The grants of a MAP.                                                    *)

\* Which grants lie before a frame.
LEMMA GrantsBefore ==
  ASSUME NEW grants, Placed(grants), NEW t \in Nat, NEW first, FirstFrame(first, t)
  PROVE  \E p \in 0 .. Len(grants) :
           \A i \in 1 .. Len(grants) :
             /\ i <= p <=> grants[i].offset < first * MinislotsPerFrame
             /\ i <= p => GrantTime(grants[i]) < t
<1> DEFINE n == Len(grants)
           x == first * MinislotsPerFrame
           S == {i \in 1..n : grants[i].offset < x}
<1>1. first \in Nat /\ first <= FramesPerMap
  BY ConstantFacts DEF FirstFrame
<1>2. x \in Nat
  BY <1>1, ConstantFacts, ProductFacts
<1>3. /\ n \in Nat /\ \A i \in 1..n : /\ grants[i].offset \in Nat /\ grants[i].length \in Nat
                                      /\ grants[i].offset < MinislotsPerMap
  BY GrantFacts
<1> HIDE DEF x, n
<1>4. \A i \in S : \A j \in 1..n : j <= i => j \in S
  <2> SUFFICES ASSUME NEW i \in S, NEW j \in 1..n, j <= i PROVE j \in S
    OBVIOUS
  <2>1. i \in 1..n /\ grants[i].offset < x
    OBVIOUS
  <2>2. CASE j = i
    BY <2>2
  <2>3. CASE j # i
    <3>1. j < i
      BY <1>3, <2>1, <2>3
    <3>2. grants[j].offset + grants[j].length <= grants[i].offset
      BY <2>1, <3>1 DEF Placed, n
    <3>3. grants[j].offset < x
      BY <1>2, <1>3, <2>1, <3>2
    <3> QED BY <3>3
  <2> QED BY <2>2, <2>3
<1>5. PICK p \in 0..n : S = 1..p
  <2>1. S \in SUBSET (1..n)
    OBVIOUS
  <2> HIDE DEF S
  <2> QED BY <1>3, <1>4, <2>1, InitialSegment
<1>6. ASSUME NEW i \in 1..n PROVE i <= p <=> grants[i].offset < x
  <2>1. i <= p <=> i \in 1..p
    BY <1>3
  <2>2. i \in S <=> grants[i].offset < x
    OBVIOUS
  <2> QED BY <1>5, <2>1, <2>2
<1>7. ASSUME NEW i \in 1..n, i <= p PROVE GrantTime(grants[i]) < t
  <2> DEFINE o == grants[i].offset
             k == GetFrameForMinislot(o)
  <2>1. o \in Nat /\ o < MinislotsPerMap /\ o < x
    BY <1>3, <1>6, <1>7
  <2> HIDE DEF o
  <2>2. k \in 0 .. FramesPerMap - 1 /\ o \in k * MinislotsPerFrame .. (k + 1) * MinislotsPerFrame - 1
    BY <2>1, FrameFacts
  <2> HIDE DEF k
  <2>3. k \in Nat /\ k * MinislotsPerFrame \in Nat /\ k * MinislotsPerFrame <= o
    <3>1. k \in Nat
      BY <2>2, ConstantFacts
    <3>2. k * MinislotsPerFrame \in Nat
      BY <3>1, ConstantFacts, ProductFacts
    <3> QED BY <2>1, <2>2, <3>1, <3>2
  <2>4. ~ (first <= k)
    <3> SUFFICES ASSUME first <= k PROVE FALSE
      OBVIOUS
    <3>1. first * MinislotsPerFrame <= k * MinislotsPerFrame
      BY <1>1, <2>3, ConstantFacts, ProductFacts
    <3> QED BY <1>2, <2>1, <2>3, <3>1 DEF x
  <2>5. ~ (FrameTime(k) >= t)
    BY <2>2, <2>4 DEF FirstFrame
  <2>6. GrantTime(grants[i]) = FrameTime(k)
    BY DEF GrantTime, FrameTime, k, o
  <2>7. FrameTime(k) \in Nat
    BY <2>3, FrameTimeFacts
  <2> QED BY <2>5, <2>6, <2>7
<1> QED BY <1>6, <1>7 DEF x, n

\* The bytes of grants whose time comes from a frame on are no more than what
\* that frame and the later ones send.
LEMMA GrantsBy ==
  ASSUME NEW grants, Placed(grants), NEW t \in Nat, NEW first, FirstFrame(first, t), NEW u
  PROVE  TotalWeight(Pipelined(grants), Within(t, u))
           <= GrantedBytes(grants) - GrantedBefore(grants, first)
<1> DEFINE n == Len(grants)
           w == Within(t, u)
           pipe == Pipelined(grants)
           x == first * MinislotsPerFrame
           bytes == [i \in 1..n |-> MinislotsToBytes(grants[i].length)]
<1>1. /\ n \in Nat /\ DOMAIN grants = 1..n
      /\ \A i \in 1..n : grants[i].offset \in Nat /\ grants[i].length \in Nat \ {0}
  BY GrantFacts
<1>2. /\ pipe \in Seq(Grants) /\ Len(pipe) = n
      /\ \A i \in 1..n : pipe[i].bytes = MinislotsToBytes(grants[i].length)
                           /\ pipe[i].in = GrantTime(grants[i])
  <2>1. /\ pipe \in Seq(Grants) /\ Len(pipe) = n
        /\ \A i \in 1..n : pipe[i] = [bytes |-> MinislotsToBytes(grants[i].length),
                                       in |-> GrantTime(grants[i])]
    BY PipelinedFacts
  <2> HIDE DEF pipe, n
  <2> QED BY <2>1
<1>3. w \in [Grants -> Nat] /\ \A g \in Grants : w[g] = IF t <= g.in /\ g.in <= u THEN g.bytes ELSE 0
  BY WindowFacts
<1>4. PICK p \in 0..n :
        \A i \in 1..n :
          /\ i <= p <=> grants[i].offset < x
          /\ i <= p => GrantTime(grants[i]) < t
  BY GrantsBefore
<1>5. PICK P : /\ Sums([i \in DOMAIN grants |-> grants[i].length], P)
               /\ GrantedMinislots(grants) = P[n]
               /\ \A j \in 0..n : Cardinality(SpansOf(grants, j)) = P[j]
  BY GrantsCover
<1>6. /\ P[0] = 0 /\ \A i \in 0..n : P[i] \in Nat
      /\ \A i \in 1..n : P[i] = P[i - 1] + grants[i].length
  <2> DEFINE s == [i \in DOMAIN grants |-> grants[i].length]
  <2>1. s \in [1..n -> Nat] /\ \A i \in 1..n : s[i] = grants[i].length
    BY <1>1
  <2> HIDE DEF s
  <2>2. Len(s) = n
    BY <1>1, <2>1, SeqDef, LenProperties
  <2>3. Sums(s, P)
    BY <1>5 DEF s
  <2> QED BY <2>1, <2>2, <2>3 DEF Sums
<1> HIDE DEF n, w, pipe, x
<1>7. bytes \in Seq(Nat) /\ Len(bytes) = n
        /\ \A i \in 1..n : bytes[i] = MinislotsToBytes(grants[i].length) /\ bytes[i] \in Nat
  <2>1. bytes \in [1..n -> Nat] /\ \A i \in 1..n : bytes[i] = MinislotsToBytes(grants[i].length)
    BY <1>1, MinislotFacts
  <2> HIDE DEF bytes
  <2> QED BY <2>1, <1>1, SeqDef, LenProperties
<1> HIDE DEF bytes
<1> DEFINE behind == [i \in 1..n |-> IF i <= p THEN 0 ELSE bytes[i]]
           B == [i \in 0..n |-> MinislotsToBytes(P[i])]
<1>8. behind \in Seq(Nat) /\ Len(behind) = n
        /\ \A i \in 1..n : behind[i] = IF i <= p THEN 0 ELSE bytes[i]
  <2>1. behind \in [1..n -> Nat] /\ \A i \in 1..n : behind[i] = IF i <= p THEN 0 ELSE bytes[i]
    BY <1>7
  <2> HIDE DEF behind
  <2> QED BY <2>1, <1>1, SeqDef, LenProperties
<1>9. /\ \A i \in 0..n : B[i] \in Nat /\ B[i] = MinislotsToBytes(P[i])
      /\ \A i \in 1..n : B[i] = B[i - 1] + bytes[i]
  <2>1. ASSUME NEW i \in 0..n PROVE B[i] \in Nat /\ B[i] = MinislotsToBytes(P[i])
    BY <1>6, MinislotFacts
  <2>2. ASSUME NEW i \in 1..n PROVE B[i] = B[i - 1] + bytes[i]
    <3> DEFINE a == P[i - 1]
               l == grants[i].length
    <3>1. i - 1 \in 0..n /\ i \in 0..n
      BY <1>1
    <3>2. a \in Nat /\ l \in Nat /\ P[i] = a + l /\ Capacity \in Nat
      BY <1>1, <1>6, <3>1, ConstantFacts
    <3>3. B[i] = MinislotsToBytes(P[i]) /\ B[i - 1] = MinislotsToBytes(a)
            /\ bytes[i] = MinislotsToBytes(l)
      BY <1>7, <2>1, <3>1
    <3> HIDE DEF a, l, B
    <3>4. MinislotsToBytes(a + l) = MinislotsToBytes(a) + MinislotsToBytes(l)
      BY <3>2, Z3 DEF MinislotsToBytes
    <3> QED BY <3>2, <3>3, <3>4
  <2> QED BY <2>1, <2>2
<1> HIDE DEF behind, B
<1>10. TotalWeight(pipe, w) <= SumSeq(behind)
  <2> DEFINE ws == Weights(pipe, w)
  <2>1. ws \in Seq(Nat) /\ Len(ws) = n /\ \A i \in 1..n : ws[i] = w[pipe[i]]
    <3>1. pipe \in Seq(Grants) /\ w \in [Grants -> Nat]
      BY <1>2, <1>3
    <3>2. ws \in Seq(Nat) /\ Len(ws) = Len(pipe) /\ \A i \in 1 .. Len(pipe) : ws[i] = w[pipe[i]]
      BY <3>1, WeightFacts
    <3> HIDE DEF ws
    <3> QED BY <3>2, <1>2
  <2>2. ASSUME NEW i \in 1..n PROVE ws[i] <= behind[i]
    <3>1. pipe[i] \in Grants
      BY <1>2, ElementOfSeq
    <3>2. pipe[i].bytes = bytes[i] /\ bytes[i] \in Nat /\ pipe[i].in = GrantTime(grants[i])
      BY <1>2, <1>7
    <3>3. ws[i] = IF t <= GrantTime(grants[i]) /\ GrantTime(grants[i]) <= u THEN bytes[i] ELSE 0
      BY <1>3, <2>1, <3>1, <3>2
    <3>4. GrantTime(grants[i]) \in Nat
      BY GrantFacts DEF n
    <3>5. i <= p => ~ (t <= GrantTime(grants[i]))
      <4>1. i <= p => GrantTime(grants[i]) < t
        BY <1>4
      <4> QED BY <3>4, <4>1
    <3>6. behind[i] = IF i <= p THEN 0 ELSE bytes[i]
      BY <1>8
    <3> HIDE DEF ws
    <3>7. CASE i <= p
      BY <3>3, <3>5, <3>6, <3>7
    <3>8. CASE ~ (i <= p)
      BY <3>2, <3>3, <3>6, <3>8
    <3> QED BY <3>7, <3>8
  <2> HIDE DEF ws
  <2>3. SumSeq(ws) <= SumSeq(behind)
    BY <1>8, <2>1, <2>2, SumMonotone
  <2> QED BY <2>3 DEF TotalWeight, ws
<1>11. SumSeq(behind) = B[n] - B[p]
  <2>1. LeavesBehind(behind, bytes, B, p)
    BY <1>7, <1>8, <1>9 DEF LeavesBehind
  <2>2. p \in 0 .. Len(behind) /\ behind \in Seq(Nat)
    BY <1>8
  <2>3. SumSeq(behind) = B[Len(behind)] - B[p]
    BY <2>1, <2>2, SumBehind
  <2> QED BY <1>8, <2>3
<1>12. n \in 0..n /\ B[n] = GrantedBytes(grants)
  <2>1. n \in 0..n
    BY <1>1
  <2> QED BY <2>1, <1>5, <1>9 DEF GrantedBytes
<1>13. /\ GrantedBefore(grants, first) \in Nat /\ GrantedBefore(grants, first) <= B[p]
  <2> DEFINE S == CoveredTo(grants, x)
             T == SpansOf(grants, p)
             c == Cardinality(S)
             d == Cardinality(T)
  <2>0. MinislotsPerMap \in Nat
    BY ConstantFacts, ProductFacts DEF MinislotsPerMap
  <2>1. S \subseteq T
    <3> SUFFICES ASSUME NEW m \in S PROVE m \in T
      OBVIOUS
    <3>1. m \in 0 .. x - 1 /\ \E i \in 1..n : m \in Span(grants[i])
      BY <1>1 DEF CoveredTo
    <3>2. PICK i \in 1..n : m \in grants[i].offset .. grants[i].offset + grants[i].length - 1
      BY <3>1 DEF Span
    <3>3. grants[i].offset \in Nat /\ grants[i].length \in Nat
            /\ grants[i].offset + grants[i].length <= MinislotsPerMap
      BY <1>1 DEF Placed, n
    <3>4. first \in Nat /\ x \in Nat
      <4>1. first \in Nat
        BY ConstantFacts DEF FirstFrame
      <4> QED BY <4>1, ConstantFacts, ProductFacts DEF x
    <3>5. grants[i].offset < x
      BY <3>1, <3>2, <3>3, <3>4
    <3>6. i \in 1..p
      <4>1. i <= p
        BY <1>4, <3>5
      <4> QED BY <1>1, <4>1
    <3>7. m \in 0 .. MinislotsPerMap - 1
      BY <2>0, <3>1, <3>2, <3>3
    <3> QED BY <3>2, <3>6, <3>7 DEF SpansOf, Span
  <2>2. IsFiniteSet(T) /\ d = P[p] /\ P[p] \in Nat
    <3>1. IsFiniteSet(0 .. MinislotsPerMap - 1)
      BY <2>0, FS_Interval
    <3>2. T \in SUBSET (0 .. MinislotsPerMap - 1)
      BY DEF SpansOf
    <3> HIDE DEF T
    <3>3. IsFiniteSet(T)
      BY <3>1, <3>2, FS_Subset
    <3> QED BY <3>3, <1>5, <1>6 DEF T
  <2> HIDE DEF S, T
  <2>3. IsFiniteSet(S) /\ c <= d
    BY <2>1, <2>2, FS_Subset
  <2>4. c \in Nat
    BY <2>3, FS_CardinalityType
  <2>5. GrantedBefore(grants, first) = MinislotsToBytes(c)
    BY DEF GrantedBefore, S, x
  <2>6. B[p] = MinislotsToBytes(d) /\ d \in Nat
    BY <1>9, <2>2
  <2> HIDE DEF c, d
  <2>7. MinislotsToBytes(c) \in Nat /\ MinislotsToBytes(c) <= MinislotsToBytes(d)
    BY <2>3, <2>4, <2>6, ConstantFacts, ProductFacts DEF MinislotsToBytes
  <2> QED BY <2>5, <2>6, <2>7
<1>14. TotalWeight(pipe, w) \in Nat
  BY <1>2, <1>3, WeightFacts
<1> DEFINE a == TotalWeight(pipe, w)
           b == B[n]
           c == B[p]
           d == GrantedBefore(grants, first)
<1>15. a \in Nat /\ b \in Nat /\ c \in Nat /\ d \in Nat /\ a <= b - c /\ d <= c
  BY <1>9, <1>10, <1>11, <1>12, <1>13, <1>14
<1> HIDE DEF a, b, c, d
<1>16. a <= b - d
  BY <1>15
<1> QED BY <1>12, <1>16 DEF a, b, d, pipe, w

-----------------------------------------------------------------------------
(* A MAP has room for its grants.                                          *)

\* No burst of the list comes after a frame.
BurstsFirst(list, f) ==
  \A i, j \in 1 .. Len(list) : i < j /\ list[i] \in FramesOf(f) => list[j] \notin BurstsOf(f)

\* Without frames or without bursts that is so.
LEMMA OneKind ==
  ASSUME NEW list \in Seq(Events), NEW f, Avoids(list, FramesOf(f)) \/ Avoids(list, BurstsOf(f))
  PROVE  BurstsFirst(list, f)
BY DEF Avoids, BurstsFirst

\* One list after another.
LEMMA BurstsFirstConcat ==
  ASSUME NEW s \in Seq(Events), NEW t \in Seq(Events), NEW f,
         BurstsFirst(s, f), BurstsFirst(t, f),
         Avoids(s, FramesOf(f)) \/ Avoids(t, BurstsOf(f))
  PROVE  s \o t \in Seq(Events) /\ BurstsFirst(s \o t, f)
<1> DEFINE both == s \o t
           x == Len(s)
           y == Len(t)
<1>1. /\ both \in Seq(Events) /\ x \in Nat /\ y \in Nat /\ Len(both) = x + y
      /\ \A i \in 1 .. x + y : both[i] = IF i <= x THEN s[i] ELSE t[i - x]
  BY ConcatProperties, LenProperties
<1> HIDE DEF both, x, y
<1>2. ASSUME NEW i \in 1 .. x + y, NEW j \in 1 .. x + y, i < j, both[i] \in FramesOf(f)
      PROVE  both[j] \notin BurstsOf(f)
  <2>1. CASE j <= x
    <3>1. i \in 1..x /\ j \in 1..x /\ both[i] = s[i] /\ both[j] = s[j]
      BY <1>1, <1>2, <2>1
    <3> QED BY <1>2, <3>1 DEF BurstsFirst, x
  <2>2. CASE i <= x /\ ~ (j <= x)
    <3>1. i \in 1..x /\ j - x \in 1..y /\ both[i] = s[i] /\ both[j] = t[j - x]
      BY <1>1, <1>2, <2>2
    <3> QED BY <1>2, <3>1 DEF Avoids, x, y
  <2>3. CASE ~ (i <= x)
    <3>2. ~ (j <= x)
      BY <1>1, <1>2, <2>3
    <3>3. both[i] = t[i - x] /\ both[j] = t[j - x]
      BY <1>1, <2>3, <3>2
    <3>4. i - x \in 1..y /\ j - x \in 1..y /\ i - x < j - x
      BY <1>1, <1>2, <2>3, <3>2
    <3>1. /\ i - x \in 1..y /\ j - x \in 1..y /\ i - x < j - x
          /\ both[i] = t[i - x] /\ both[j] = t[j - x]
      BY <3>3, <3>4
    <3> QED BY <1>2, <3>1 DEF BurstsFirst, y
  <2> QED BY <1>1, <1>2, <2>1, <2>2, <2>3
<1>3. BurstsFirst(both, f)
  BY <1>1, <1>2 DEF BurstsFirst
<1> QED BY <1>1, <1>3 DEF both

\* The grants of a MAP are dumped after the last of its frames.
LEMMA FramesEnd ==
  ASSUME NEW f \in Flows, NEW grants, Placed(grants), Len(grants) > 0
  PROVE  LET frames == FrameEvents(f, grants)
             end == Last(frames).in + 1
         IN  /\ frames \in Seq(Events) /\ Avoids(frames, DumpsOf(f)) /\ Avoids(frames, BurstsOf(f))
             /\ end \in Nat /\ end \in Interval /\ end < Horizon
             /\ \A i \in 1 .. Len(frames) : frames[i].in < end
<1> DEFINE frames == FrameEvents(f, grants)
           last == Last(frames).in
<1>1. /\ frames \in Seq(MadeFor(f)) /\ frames # <<>>
      /\ Accounted(frames, f, GrantedBytes(grants), 0)
      /\ \A i \in 1 .. Len(frames) :
           frames[i] \in ReportsOf(f) /\ frames[i].in + 1 \in Interval
  BY FramesAccounted
<1>2. frames \in Seq({e \in MadeFor(f) : e.event = "SendFrame" /\ e.in + 1 \in Interval})
  BY FrameEventsFacts
<1> HIDE DEF frames
<1>3. \A i \in 1 .. Len(frames) : frames[i].event = "SendFrame"
  <2> DEFINE S == {e \in MadeFor(f) : e.event = "SendFrame" /\ e.in + 1 \in Interval}
  <2>1. \A i \in 1 .. Len(frames) : frames[i] \in S
    BY <1>2, ElementOfSeq
  <2> QED BY <2>1
<1>4. /\ frames \in Seq(Events) /\ Len(frames) \in Nat \ {0}
      /\ last = frames[Len(frames)].in /\ Len(frames) \in 1 .. Len(frames)
  <2>1. frames \in Seq(Events) /\ Len(frames) \in Nat \ {0}
    BY <1>1, MadeList, EmptySeq
  <2> QED BY <2>1 DEF Last
<1>5. Avoids(frames, DumpsOf(f)) /\ Avoids(frames, BurstsOf(f))
  <2> SUFFICES ASSUME NEW i \in 1 .. Len(frames)
               PROVE  frames[i] \notin DumpsOf(f) /\ frames[i] \notin BurstsOf(f)
    BY DEF Avoids
  <2> DEFINE e == frames[i]
  <2>1. e \in Events /\ e.event = "SendFrame"
    BY <1>3, <1>4, ElementOfSeq
  <2> HIDE DEF e
  <2>2. e \notin DumpsOf(f) /\ e \notin BurstsOf(f)
    BY <2>1, KindFacts
  <2> QED BY <2>2 DEF e
<1>6. \A i \in 1 .. Len(frames) : frames[i].in \in Nat /\ frames[i].in <= last
  <2> SUFFICES ASSUME NEW i \in 1 .. Len(frames) PROVE frames[i].in \in Nat /\ frames[i].in <= last
    OBVIOUS
  <2>1. frames[i].in \in Nat
    BY <1>4, ListFacts
  <2>2. CASE i = Len(frames)
    BY <1>4, <2>1, <2>2
  <2>3. CASE i # Len(frames)
    <3>1. i < Len(frames)
      BY <1>4, <2>3
    <3> QED BY <1>1, <1>4, <2>1, <3>1, AccountedInOrder
  <2> QED BY <2>2, <2>3
<1>7. last \in Nat /\ last + 1 \in Interval
  BY <1>1, <1>4, <1>6
<1> HIDE DEF last
<1>8. last + 1 < Horizon
  BY <1>7, ConstantFacts, MapIntervalFacts DEF Interval, Horizon
<1>9. \A i \in 1 .. Len(frames) : frames[i].in < last + 1
  BY <1>6, <1>7
<1> QED BY <1>4, <1>5, <1>7, <1>8, <1>9 DEF frames, last

\* The frames of a MAP have room for its grants.
LEMMA GrantBacks ==
  ASSUME NEW f \in Flows, NEW grants, Placed(grants), Len(grants) > 0
  PROVE  /\ Backs(GrantEvents(f, grants), Pipelined(grants), <<>>, f)
         /\ BurstsFirst(GrantEvents(f, grants), f)
<1> DEFINE bursts == BurstEvents(f, grants)
           load == FlowEvent(ProcTicks, "LoadMapState", f, GrantedBytes(grants))
           frames == FrameEvents(f, grants)
           end == Last(frames).in + 1
           dump == FlowEvent(end, "DumpGrant", f, 0)
           Early == {e \in DumpsOf(f) : e.in # end}
           first == bursts \o <<load>>
           sent == first \o frames
           events == sent \o <<dump>>
           granted == Pipelined(grants)
<1>1. GrantEvents(f, grants) = events
  BY DEF GrantEvents
<1>2. bursts \in Seq(Events) /\ Avoids(bursts, ReportsOf(f))
  BY BurstsAvoid
<1>3. /\ frames \in Seq(Events) /\ Avoids(frames, DumpsOf(f)) /\ Avoids(frames, BurstsOf(f))
      /\ end \in Nat /\ end \in Interval /\ end < Horizon
      /\ \A i \in 1 .. Len(frames) : frames[i].in < end
  BY FramesEnd
<1>4. FramesOf(f) \subseteq ReportsOf(f) /\ DumpsOf(f) \subseteq ReportsOf(f)
  BY DEF FramesOf, DumpsOf, ReportsOf
<1>5. load \in Events /\ load.event = "LoadMapState"
  <2>1. ProcTicks \in Nat /\ ProcTicks \in Interval
    BY ConstantFacts, MapIntervalFacts DEF Interval
  <2>2. GrantedBytes(grants) \in Nat
    BY GrantFacts
  <2>3. load \in MadeFor(f)
    BY <2>1, <2>2, FlowEventFacts
  <2>4. load.event = "LoadMapState"
    BY DEF FlowEvent, Event
  <2> HIDE DEF load
  <2> QED BY <2>3, <2>4, MadeFacts
<1> HIDE DEF frames, end, bursts
<1>6. dump \in Events /\ dump.event = "DumpGrant" /\ dump.in = end
  <2>1. dump \in MadeFor(f)
    BY <1>3, FlowEventFacts
  <2>2. dump.event = "DumpGrant" /\ dump.in = end
    BY DEF FlowEvent, Event
  <2> HIDE DEF dump
  <2> QED BY <2>1, <2>2, MadeFacts
<1> HIDE DEF load, dump
<1>7. /\ load \notin DumpsOf(f) /\ load \notin FramesOf(f) /\ load \notin BurstsOf(f)
      /\ dump \notin FramesOf(f) /\ dump \notin BurstsOf(f) /\ dump \notin Early
  <2>1. load \notin DumpsOf(f) /\ load \notin FramesOf(f) /\ load \notin BurstsOf(f)
    BY <1>5, KindFacts
  <2>2. dump \notin FramesOf(f) /\ dump \notin BurstsOf(f)
    BY <1>6, KindFacts
  <2> QED BY <1>6, <2>1, <2>2
<1>8. /\ <<load>> \in Seq(Events) /\ <<dump>> \in Seq(Events)
      /\ \A i \in 1 .. Len(<<load>>) : <<load>>[i] = load
      /\ \A i \in 1 .. Len(<<dump>>) : <<dump>>[i] = dump
  BY <1>5, <1>6
<1>9. /\ Avoids(bursts, DumpsOf(f)) /\ Avoids(bursts, FramesOf(f))
      /\ Avoids(<<load>>, DumpsOf(f)) /\ Avoids(<<load>>, FramesOf(f))
      /\ Avoids(<<dump>>, Early) /\ Avoids(<<dump>>, BurstsOf(f))
  <2> HIDE DEF Early
  <2> QED BY <1>2, <1>4, <1>7, <1>8 DEF Avoids
<1>10. first \in Seq(Events) /\ Avoids(first, DumpsOf(f)) /\ Avoids(first, FramesOf(f))
  BY <1>2, <1>8, <1>9, AvoidsConcat
<1> HIDE DEF first
<1>11. sent \in Seq(Events) /\ Avoids(sent, DumpsOf(f))
  BY <1>3, <1>10, AvoidsConcat
<1>12. sent \in Seq(Events) /\ BurstsFirst(sent, f)
  <2>1. BurstsFirst(first, f) /\ BurstsFirst(frames, f)
    BY <1>3, <1>10, OneKind
  <2> QED BY <1>3, <1>10, <2>1, BurstsFirstConcat
<1>13. Avoids(sent, Early)
  BY <1>11 DEF Avoids
<1> HIDE DEF Early
<1>14. events \in Seq(Events) /\ Avoids(events, Early)
  <2> HIDE DEF sent
  <2> QED BY <1>8, <1>9, <1>11, <1>13, AvoidsConcat
<1>15. BurstsFirst(events, f)
  <2>1. BurstsFirst(<<dump>>, f)
    BY <1>8, <1>9, OneKind
  <2> HIDE DEF sent
  <2> QED BY <1>8, <1>9, <1>12, <2>1, BurstsFirstConcat
<1>16. ASSUME NEW u \in Closings(events, f) PROVE u \in Nat /\ end <= u
  <2> HIDE DEF events
  <2>1. u \in Nat
    BY DEF Closings
  <2>2. CASE u >= Horizon
    BY <1>3, <2>1, <2>2, ConstantFacts, MapIntervalFacts DEF Horizon
  <2>3. CASE ~ (u >= Horizon)
    <3>1. PICK i \in 1 .. Len(events) : events[i] \in DumpsOf(f) /\ events[i].in = u
      BY <2>3 DEF Closings
    <3>2. events[i].in = end
      BY <1>14, <3>1 DEF Avoids, Early
    <3> QED BY <1>3, <2>1, <3>1, <3>2
  <2> QED BY <2>2, <2>3
<1>17. ASSUME NEW t \in Nat, NEW u \in Closings(events, f)
       PROVE  TotalWeight(<<>>, Within(t, u)) + TotalWeight(granted, Within(t, u))
                <= TotalWeight(events, SentWithin(f, t, u))
  <2> DEFINE w == SentWithin(f, t, u)
  <2>1. PICK k : FirstFrame(k, t)
    BY FirstFrameExists
  <2>2. \A i \in 1 .. Len(frames) : frames[i].in < u
    <3> SUFFICES ASSUME NEW i \in 1 .. Len(frames) PROVE frames[i].in < u
      OBVIOUS
    <3>1. frames[i].in \in Nat /\ frames[i].in < end
      BY <1>3, ListFacts
    <3> QED BY <1>3, <1>16, <3>1
  <2>3. TotalWeight(frames, w) = GrantedBytes(grants) - GrantedBefore(grants, k)
    BY <2>1, <2>2, FramesSend DEF frames
  <2>4. TotalWeight(granted, Within(t, u)) <= GrantedBytes(grants) - GrantedBefore(grants, k)
    BY <2>1, GrantsBy
  <2>5. w \in [Events -> Nat]
    BY SentFrameFacts
  <2>6. TotalWeight(<<>>, Within(t, u)) = 0
    <3>1. Within(t, u) \in [Grants -> Nat]
      BY WindowFacts
    <3>2. <<>> \in Seq(Grants) /\ \A i \in 1 .. Len(<<>>) : Within(t, u)[<<>>[i]] = 0
      OBVIOUS
    <3> QED BY <3>1, <3>2, WeightZero
  <2> HIDE DEF w
  <2>7. TotalWeight(events, w) = TotalWeight(sent, w) + TotalWeight(<<dump>>, w)
    BY <1>8, <1>11, <2>5, WeightConcat
  <2>8. TotalWeight(sent, w) = TotalWeight(first, w) + TotalWeight(frames, w)
    BY <1>3, <1>10, <2>5, WeightConcat
  <2>9. /\ TotalWeight(first, w) \in Nat /\ TotalWeight(frames, w) \in Nat
        /\ TotalWeight(<<dump>>, w) \in Nat
    BY <1>3, <1>8, <1>10, <2>5, WeightFacts
  <2>10. TotalWeight(granted, Within(t, u)) \in Nat
    <3>1. granted \in Seq(Grants)
      BY PipelinedFacts
    <3>2. Within(t, u) \in [Grants -> Nat]
      BY WindowFacts
    <3> HIDE DEF granted
    <3> QED BY <3>1, <3>2, WeightFacts
  <2> HIDE DEF events, sent, granted
  <2>11. TotalWeight(<<>>, Within(t, u)) + TotalWeight(granted, Within(t, u))
           <= TotalWeight(events, w)
    BY <2>3, <2>4, <2>6, <2>7, <2>8, <2>9, <2>10
  <2> QED BY <2>11 DEF w
<1>18. Backs(events, granted, <<>>, f)
  <2> HIDE DEF events, granted
  <2> QED BY <1>17 DEF Backs
<1> HIDE DEF events
<1> QED BY <1>1, <1>15, <1>18

\* So do the events that a MAP makes for a flow.
LEMMA FlowBacks ==
  ASSUME NEW f \in Flows, NEW layout \in Layouts, NEW offset \in RequestOffsets
  PROVE  /\ Backs(FlowEvents(f, layout, offset), Pipelined(layout[f]), <<>>, f)
         /\ BurstsFirst(FlowEvents(f, layout, offset), f)
<1>1. Placed(layout[f])
  BY LayoutFacts
<1>2. CASE layout[f] # <<>>
  <2>1. Len(layout[f]) > 0
    BY <1>1, <1>2, EmptySeq DEF Placed
  <2>2. FlowEvents(f, layout, offset) = GrantEvents(f, layout[f])
    BY <1>2 DEF FlowEvents
  <2> QED BY <1>1, <2>1, <2>2, GrantBacks
<1>3. CASE layout[f] = <<>>
  <2> DEFINE list == FlowEvents(f, layout, offset)
             granted == Pipelined(layout[f])
             e == FlowEvent(ProcTicks + offset, "MakeRequest", f, 0)
  <2>1. list = <<e>>
    BY <1>3 DEF FlowEvents, ContentionRequest
  <2>2. list \in Seq(Events)
    BY FlowEventsFacts, MadeList
  <2>3. e.event = "MakeRequest"
    BY DEF FlowEvent, Event
  <2>4. granted \in Seq(Grants) /\ Len(granted) = Len(layout[f])
    BY <1>1, PipelinedFacts
  <2>5. granted = <<>>
    <3>1. Len(granted) = 0
      BY <1>3, <2>4
    <3> HIDE DEF granted
    <3> QED BY <2>4, <3>1, EmptySeq
  <2> HIDE DEF e, list, granted
  <2>6. BurstsFirst(list, f)
    BY <2>1 DEF BurstsFirst
  <2>7. ASSUME NEW t \in Nat, NEW u \in Closings(list, f)
        PROVE  TotalWeight(<<>>, Within(t, u)) + TotalWeight(granted, Within(t, u))
                 <= TotalWeight(list, SentWithin(f, t, u))
    <3>1. TotalWeight(<<>>, Within(t, u)) = 0
      <4>1. Within(t, u) \in [Grants -> Nat]
        BY WindowFacts
      <4>2. <<>> \in Seq(Grants) /\ \A i \in 1 .. Len(<<>>) : Within(t, u)[<<>>[i]] = 0
        OBVIOUS
      <4> QED BY <4>1, <4>2, WeightZero
    <3>2. TotalWeight(list, SentWithin(f, t, u)) \in Nat
      BY <2>2, <2>4, RoomFacts
    <3> QED BY <2>5, <3>1, <3>2
  <2>8. Backs(list, granted, <<>>, f)
    BY <2>7 DEF Backs
  <2> QED BY <2>6, <2>8 DEF list, granted
<1> QED BY <1>2, <1>3

\* The events of one flow are none of another's.
LEMMA OthersAvoid ==
  ASSUME NEW g \in Flows, NEW list \in Seq(MadeFor(g)), NEW f, f # g
  PROVE  /\ list \in Seq(Events)
         /\ Avoids(list, DumpsOf(f)) /\ Avoids(list, FramesOf(f)) /\ Avoids(list, BurstsOf(f))
<1>1. list \in Seq(Events)
  BY MadeList
<1>2. ASSUME NEW i \in 1 .. Len(list)
      PROVE  list[i] \notin DumpsOf(f) /\ list[i] \notin FramesOf(f) /\ list[i] \notin BurstsOf(f)
  <2> DEFINE e == list[i]
  <2>1. e \in MadeFor(g)
    BY ElementOfSeq
  <2> HIDE DEF e
  <2>2. e.arg.sfid = g
    BY <2>1 DEF MadeFor
  <2>3. e \notin DumpsOf(f) /\ e \notin FramesOf(f) /\ e \notin BurstsOf(f)
    BY <2>2 DEF DumpsOf, FramesOf, BurstsOf
  <2> QED BY <2>3 DEF e
<1> QED BY <1>1, <1>2 DEF Avoids

\* The events that a MAP makes have room for what it grants a flow.
LEMMA MadeBacks ==
  ASSUME NEW made, \A g \in Flows : made[g] \in Seq(MadeFor(g)), NEW f \in Flows,
         NEW granted \in Seq(Grants), Backs(made[f], granted, <<>>, f), BurstsFirst(made[f], f)
  PROVE  /\ Backs(InFlowOrder(made), granted, <<>>, f)
         /\ BurstsFirst(InFlowOrder(made), f)
<1> DEFINE c == CLASSIC_SFID
           l == LOW_LATENCY_SFID
<1>1. c \in Flows /\ c # l /\ \A g \in Flows : g \in {c, l}
  BY ConstantFacts
<1> HIDE DEF c, l
<1>2. <<>> \in Seq(Grants)
  OBVIOUS
<1>3. \A g \in Flows : made[g] \in Seq(Events)
  BY MadeList
<1>4. ASSUME NEW g \in Flows, g # f
      PROVE  /\ Avoids(made[g], DumpsOf(f)) /\ Avoids(made[g], FramesOf(f))
             /\ Avoids(made[g], BurstsOf(f)) /\ BurstsFirst(made[g], f)
  <2>1. /\ Avoids(made[g], DumpsOf(f)) /\ Avoids(made[g], FramesOf(f))
        /\ Avoids(made[g], BurstsOf(f))
    BY <1>4, OthersAvoid
  <2> QED BY <1>3, <2>1, OneKind
<1>5. CASE l \in Flows
  <2> DEFINE s == made[c]
             t == made[l]
             both == s \o t
  <2>1. InFlowOrder(made) = both
    BY <1>5 DEF InFlowOrder, c, l
  <2>2. s \in Seq(Events) /\ t \in Seq(Events) /\ BurstsFirst(s, f) /\ BurstsFirst(t, f)
    BY <1>1, <1>3, <1>4, <1>5
  <2>3. CASE f = c
    <3>1. Avoids(t, DumpsOf(f)) /\ Avoids(t, BurstsOf(f))
      BY <1>1, <1>4, <1>5, <2>3
    <3>2. Backs(s, granted, <<>>, f)
      BY <2>3
    <3> HIDE DEF s, t
    <3>3. both \in Seq(Events) /\ Grows(s, both, f)
      BY <2>2, <3>1, ConcatGrows
    <3>4. BurstsFirst(both, f)
      BY <2>2, <3>1, BurstsFirstConcat
    <3> HIDE DEF both
    <3>5. Backs(both, granted, <<>>, f)
      BY <1>2, <2>2, <3>2, <3>3, GrownBacks
    <3> QED BY <2>1, <3>4, <3>5
  <2>4. CASE f # c
    <3>0. f = l
      BY <1>1, <2>4
    <3>1. Avoids(s, DumpsOf(f)) /\ Avoids(s, FramesOf(f))
      BY <1>1, <1>4, <2>4
    <3>2. Backs(t, granted, <<>>, f)
      BY <3>0
    <3> HIDE DEF s, t
    <3>3. both \in Seq(Events) /\ Grows(t, both, f)
      BY <2>2, <3>1, ConcatGrows
    <3>4. BurstsFirst(both, f)
      BY <2>2, <3>1, BurstsFirstConcat
    <3> HIDE DEF both
    <3>5. Backs(both, granted, <<>>, f)
      BY <1>2, <2>2, <3>2, <3>3, GrownBacks
    <3> QED BY <2>1, <3>4, <3>5
  <2> QED BY <2>3, <2>4
<1>6. CASE l \notin Flows
  <2>1. InFlowOrder(made) = made[c] \o <<>>
    BY <1>6 DEF InFlowOrder, c, l
  <2>2. InFlowOrder(made) = made[c]
    BY <1>1, <1>3, <2>1, ConcatEmptySeq
  <2>3. f = c
    BY <1>1, <1>6
  <2> QED BY <2>2, <2>3
<1> QED BY <1>5, <1>6

-----------------------------------------------------------------------------
(* MAPs follow each other.                                                 *)

\* Frames and dumps of the earlier MAPs, their grants and their bursts lie
\* before the interval of the one that is handled.
LiesBefore(list, granted, prepared, f) ==
  /\ \A i \in 1 .. Len(list) : list[i] \in FramesOf(f) \cup DumpsOf(f) => list[i].in < ProcTicks
  /\ \A k \in 1 .. Len(granted) : granted[k].in < ProcTicks
  /\ \A k \in 1 .. Len(prepared) : prepared[k].in <= ProcTicks

\* Those of the MAP that is handled lie in it.
LiesBehind(list, granted, f) ==
  /\ \A i \in 1 .. Len(list) :
       /\ list[i] \in FramesOf(f) \cup DumpsOf(f) => list[i].in >= ProcTicks
       /\ list[i] \in BurstsOf(f) => Counts(list[i]) >= ProcTicks
  /\ \A k \in 1 .. Len(granted) : granted[k].in >= ProcTicks

\* A time with which all that is before it lies also before another.
LEMMA SameWindow ==
  ASSUME NEW t \in Nat, NEW u \in Nat, NEW v \in Nat, u >= ProcTicks, v >= ProcTicks
  PROVE  /\ \A pipe \in Seq(Grants) :
              (\A k \in 1 .. Len(pipe) : pipe[k].in <= ProcTicks)
                => TotalWeight(pipe, Within(t, u)) = TotalWeight(pipe, Within(t, v))
         /\ \A list \in Seq(Events) : \A f :
              (\A i \in 1 .. Len(list) : list[i] \in FramesOf(f) => list[i].in < ProcTicks)
                => TotalWeight(list, SentWithin(f, t, u)) = TotalWeight(list, SentWithin(f, t, v))
<1>0. ProcTicks \in Nat
  BY ConstantFacts
<1>1. ASSUME NEW pipe \in Seq(Grants), \A k \in 1 .. Len(pipe) : pipe[k].in <= ProcTicks
      PROVE  TotalWeight(pipe, Within(t, u)) = TotalWeight(pipe, Within(t, v))
  <2>1. ASSUME NEW k \in 1 .. Len(pipe)
        PROVE  Within(t, u)[pipe[k]] = Within(t, v)[pipe[k]]
    <3> DEFINE g == pipe[k]
    <3>1. g \in Grants /\ g.in <= ProcTicks
      BY <1>1, ElementOfSeq
    <3> HIDE DEF g
    <3>2. g.in \in Nat
      BY <3>1 DEF Grants
    <3>3. g.in <= u /\ g.in <= v
      BY <1>0, <3>1, <3>2
    <3>4. Within(t, u)[g] = Within(t, v)[g]
      BY <3>1, <3>3, WindowFacts
    <3> QED BY <3>4 DEF g
  <2>2. WeighSame(pipe, Within(t, u), pipe, Within(t, v))
    BY <2>1 DEF WeighSame
  <2> QED BY <1>1, <2>2, WeightMapped
<1>2. ASSUME NEW list \in Seq(Events), NEW f,
             \A i \in 1 .. Len(list) : list[i] \in FramesOf(f) => list[i].in < ProcTicks
      PROVE  TotalWeight(list, SentWithin(f, t, u)) = TotalWeight(list, SentWithin(f, t, v))
  <2>1. ASSUME NEW i \in 1 .. Len(list)
        PROVE  SentWithin(f, t, u)[list[i]] = SentWithin(f, t, v)[list[i]]
    <3> DEFINE e == list[i]
    <3>1. e \in Events /\ (e \in FramesOf(f) => e.in < ProcTicks)
      BY <1>2, ElementOfSeq
    <3> HIDE DEF e
    <3>2. e.in \in Nat
      BY <3>1, EventFacts
    <3>3. e \in FramesOf(f) => e.in < u /\ e.in < v
      BY <1>0, <3>1, <3>2
    <3>4. SentWithin(f, t, u)[e] = SentWithin(f, t, v)[e]
      BY <3>1, <3>3, SentFrameFacts
    <3> QED BY <3>4 DEF e
  <2>2. WeighSame(list, SentWithin(f, t, u), list, SentWithin(f, t, v))
    BY <2>1 DEF WeighSame
  <2> QED BY <1>2, <2>2, WeightMapped
<1> QED BY <1>1, <1>2

\* Where the dumps of a list come from when a MAP has been handled.
LEMMA ClosingsMerged ==
  ASSUME NEW old \in Seq(Events), NEW new \in Seq(Events), NEW events \in Seq(Events),
         NEW a, NEW b, Merged(new, old, events, Len(events), a, b), NEW f,
         NEW granted, NEW prepared, NEW added,
         LiesBefore(old, granted, prepared, f), LiesBehind(events, added, f),
         NEW u \in Closings(new, f)
  PROVE  /\ u \in Nat
         /\ u < ProcTicks => u \in Closings(old, f)
         /\ u >= ProcTicks => u \in Closings(events, f)
<1>1. u \in Nat
  BY DEF Closings
<1>2. ProcTicks \in Nat /\ ProcTicks <= Horizon /\ Horizon \in Nat
  BY ConstantFacts, MapIntervalFacts DEF Horizon
<1>3. CASE u >= Horizon
  BY <1>1, <1>2, <1>3 DEF Closings
<1>4. CASE ~ (u >= Horizon)
  <2>1. PICK p \in 1 .. Len(new) : new[p] \in DumpsOf(f) /\ new[p].in = u
    BY <1>4 DEF Closings
  <2>2. \/ \E i \in 1 .. Len(old) : p = a[i]
        \/ \E j \in 1 .. Len(events) : p = b[j]
    BY DEF Merged
  <2>3. CASE \E i \in 1 .. Len(old) : p = a[i]
    <3>1. PICK i \in 1 .. Len(old) : p = a[i]
      BY <2>3
    <3>2. new[a[i]] = old[i]
      BY DEF Merged
    <3>3. old[i] \in DumpsOf(f) /\ old[i].in = u
      BY <2>1, <3>1, <3>2
    <3>4. u < ProcTicks
      BY <3>3 DEF LiesBefore
    <3>5. u \in Closings(old, f)
      BY <1>1, <3>3 DEF Closings
    <3> QED BY <1>1, <1>2, <3>4, <3>5
  <2>4. CASE \E j \in 1 .. Len(events) : p = b[j]
    <3>1. PICK j \in 1 .. Len(events) : p = b[j]
      BY <2>4
    <3>2. new[b[j]] = events[j]
      BY DEF Merged
    <3>3. events[j] \in DumpsOf(f) /\ events[j].in = u
      BY <2>1, <3>1, <3>2
    <3>4. u >= ProcTicks
      BY <3>3 DEF LiesBehind
    <3>5. u \in Closings(events, f)
      BY <1>1, <3>3 DEF Closings
    <3> QED BY <1>1, <1>2, <3>4, <3>5
  <2> QED BY <2>2, <2>3, <2>4
<1> QED BY <1>3, <1>4

\* The frames of the MAPs before have room for theirs, those of the MAP that
\* is handled for its own.
LEMMA MapBacks ==
  ASSUME NEW old \in Seq(Events), Sorted(old), NEW events \in Seq(Events), NEW f,
         NEW granted \in Seq(Grants), NEW prepared \in Seq(Grants), NEW added \in Seq(Grants),
         LiesBefore(old, granted, prepared, f), LiesBehind(events, added, f),
         Backs(old, granted, prepared, f), Backs(events, added, <<>>, f)
  PROVE  Backs(ScheduleAll(old, events), granted \o added, prepared, f)
<1> DEFINE new == ScheduleAll(old, events)
           both == granted \o added
<1>1. Timed(old) /\ Timed(events)
  BY ListFacts
<1>2. new \in Seq(Events) /\ \E a, b : Merged(new, old, events, Len(events), a, b)
  BY <1>1, ScheduleAllMerges
<1>3. /\ ProcTicks \in Nat /\ ProcTicks <= Horizon /\ Horizon \in Nat
      /\ Horizon \in Closings(old, f)
  BY ConstantFacts, MapIntervalFacts DEF Horizon, Closings
<1>4. ASSUME NEW t \in Nat, NEW u \in Closings(new, f)
      PROVE  TotalWeight(prepared, Within(t, u)) + TotalWeight(both, Within(t, u))
               <= TotalWeight(new, SentWithin(f, t, u))
  <2> DEFINE x == TotalWeight(prepared, Within(t, u))
             y == TotalWeight(granted, Within(t, u))
             z == TotalWeight(added, Within(t, u))
             v == TotalWeight(old, SentWithin(f, t, u))
             w == TotalWeight(events, SentWithin(f, t, u))
  <2>1. u \in Nat /\ (u < ProcTicks => u \in Closings(old, f))
          /\ (u >= ProcTicks => u \in Closings(events, f))
    <3> HIDE DEF new
    <3> QED BY <1>2, ClosingsMerged
  <2>2. Within(t, u) \in [Grants -> Nat] /\ SentWithin(f, t, u) \in [Events -> Nat]
    BY WindowFacts, SentFrameFacts
  <2>3. TotalWeight(both, Within(t, u)) = y + z
    BY <2>2, WeightConcat
  <2>4. TotalWeight(new, SentWithin(f, t, u)) = v + w
    BY <1>1, <2>2, WeightScheduled
  <2>5. x \in Nat /\ y \in Nat /\ z \in Nat /\ v \in Nat /\ w \in Nat
    BY <2>2, WeightFacts
  <2>6. CASE u < ProcTicks
    <3>1. x + y <= v
      BY <2>1, <2>6 DEF Backs
    <3>2. z = 0
      <4>1. ASSUME NEW k \in 1 .. Len(added) PROVE Within(t, u)[added[k]] = 0
        <5>1. added[k] \in Grants /\ added[k].in >= ProcTicks
          BY ElementOfSeq DEF LiesBehind
        <5>2. added[k].in \in Nat
          BY <5>1 DEF Grants
        <5>3. ~ (added[k].in <= u)
          BY <1>3, <2>1, <2>6, <5>1, <5>2
        <5> QED BY <5>1, <5>3, WindowFacts
      <4> QED BY <2>2, <4>1, WeightZero
    <3> HIDE DEF x, y, z, v, w
    <3>3. x + (y + z) <= v + w
      BY <2>5, <3>1, <3>2
    <3> QED BY <2>3, <2>4, <3>3 DEF x
  <2>7. CASE ~ (u < ProcTicks)
    <3>0. u >= ProcTicks /\ Horizon >= ProcTicks
      BY <1>3, <2>1, <2>7
    <3>1. TotalWeight(prepared, Within(t, Horizon)) + TotalWeight(granted, Within(t, Horizon))
            <= TotalWeight(old, SentWithin(f, t, Horizon))
      BY <1>3 DEF Backs
    <3>2. x = TotalWeight(prepared, Within(t, Horizon))
      <4>1. \A k \in 1 .. Len(prepared) : prepared[k].in <= ProcTicks
        BY DEF LiesBefore
      <4> QED BY <1>3, <2>1, <3>0, <4>1, SameWindow
    <3>3. y = TotalWeight(granted, Within(t, Horizon))
      <4>1. \A k \in 1 .. Len(granted) : granted[k].in <= ProcTicks
        <5>1. ASSUME NEW k \in 1 .. Len(granted) PROVE granted[k].in <= ProcTicks
          <6>1. granted[k] \in Grants /\ granted[k].in < ProcTicks
            BY ElementOfSeq DEF LiesBefore
          <6> QED BY <1>3, <6>1 DEF Grants
        <5> QED BY <5>1
      <4> QED BY <1>3, <2>1, <3>0, <4>1, SameWindow
    <3>4. v = TotalWeight(old, SentWithin(f, t, Horizon))
      <4>1. \A i \in 1 .. Len(old) : old[i] \in FramesOf(f) => old[i].in < ProcTicks
        BY DEF LiesBefore
      <4> QED BY <1>3, <2>1, <3>0, <4>1, SameWindow
    <3>5. TotalWeight(<<>>, Within(t, u)) + z <= w
      BY <2>1, <3>0 DEF Backs
    <3>6. TotalWeight(<<>>, Within(t, u)) = 0
      <4>1. <<>> \in Seq(Grants) /\ \A i \in 1 .. Len(<<>>) : Within(t, u)[<<>>[i]] = 0
        OBVIOUS
      <4> QED BY <2>2, <4>1, WeightZero
    <3>7. x + y <= v
      BY <3>1, <3>2, <3>3, <3>4
    <3>8. z <= w
      BY <2>5, <3>5, <3>6
    <3> HIDE DEF x, y, z, v, w
    <3>9. x + (y + z) <= v + w
      BY <2>5, <3>7, <3>8
    <3> QED BY <2>3, <2>4, <3>9 DEF x
  <2> QED BY <2>6, <2>7
<1> HIDE DEF new, both
<1>5. Backs(new, both, prepared, f)
  BY <1>4 DEF Backs
<1> QED BY <1>5 DEF new, both

-----------------------------------------------------------------------------
(* Bursts come before their frames.                                        *)

\* Counting an event's time for its frame.
LEMMA CountsFacts ==
  ASSUME NEW e \in Events
  PROVE  /\ e.in \in Nat /\ Counts(e) \in Nat /\ e.in <= Counts(e)
         /\ \A f : e \in FramesOf(f) \cup DumpsOf(f) => Counts(e) = e.in /\ OfMap(e)
         /\ \A f : e \in BurstsOf(f) => Counts(e) = e.in + PrepTicks /\ OfMap(e)
<1>1. e.in \in Nat /\ PrepTicks \in Nat
  BY EventFacts, ConstantFacts
<1>2. Counts(e) = IF e.event = "PrepareBurst" THEN e.in + PrepTicks ELSE e.in
  BY <1>1 DEF Counts
<1>3. \A f : /\ e \in FramesOf(f) => e.event = "SendFrame"
             /\ e \in DumpsOf(f) => e.event = "DumpGrant"
             /\ e \in BurstsOf(f) => e.event = "PrepareBurst"
  BY KindFacts
<1> QED BY <1>1, <1>2, <1>3 DEF OfMap

\* The rest of a list is in turn.
LEMMA InTurnRest ==
  ASSUME NEW list \in Seq(Events), list # <<>>, NEW f, InTurn(list, f)
  PROVE  InTurn(Tail(list), f)
<1>1. /\ Len(list) \in Nat /\ Len(Tail(list)) = Len(list) - 1
      /\ \A i \in 1 .. Len(Tail(list)) : Tail(list)[i] = list[i + 1]
  BY HeadTailProperties, LenProperties
<1>2. \A i \in 1 .. Len(Tail(list)) : i + 1 \in 1 .. Len(list)
  BY <1>1
<1>3. \A i, j \in 1 .. Len(Tail(list)) : i < j => i + 1 < j + 1
  BY <1>1
<1> QED BY <1>1, <1>2, <1>3 DEF InTurn

\* Time passes for frames and bursts alike.
LEMMA InTurnLater ==
  ASSUME NEW list \in Seq(Events), NEW later \in Seq(Events), Len(later) = Len(list),
         NEW t \in Nat,
         \A i \in 1 .. Len(list) :
           /\ later[i].in = list[i].in - t /\ later[i].event = list[i].event
           /\ later[i].arg = list[i].arg,
         NEW f, InTurn(list, f)
  PROVE  InTurn(later, f)
<1>1. ASSUME NEW i \in 1 .. Len(list)
      PROVE  /\ later[i].in = list[i].in - t
             /\ later[i] \in FramesOf(f) <=> list[i] \in FramesOf(f)
             /\ later[i] \in BurstsOf(f) <=> list[i] \in BurstsOf(f)
             /\ list[i].in \in Nat /\ later[i] \in Events /\ list[i] \in Events
  <2> DEFINE d == list[i]
             e == later[i]
  <2>1. d \in Events /\ e \in Events
    BY ElementOfSeq
  <2>2. e.in = d.in - t /\ e.event = d.event /\ e.arg = d.arg
    OBVIOUS
  <2> HIDE DEF d, e
  <2>3. /\ e \in FramesOf(f) <=> d \in FramesOf(f)
        /\ e \in BurstsOf(f) <=> d \in BurstsOf(f)
    BY <2>1, <2>2, KindFacts
  <2>4. d.in \in Nat
    BY <2>1, EventFacts
  <2> QED BY <2>1, <2>2, <2>3, <2>4 DEF d, e
<1>2. ASSUME NEW i \in 1 .. Len(list), NEW j \in 1 .. Len(list), i < j,
             later[i] \in FramesOf(f), later[j] \in BurstsOf(f)
      PROVE  later[i].in < Counts(later[j])
  <2>1. list[i].in < Counts(list[j])
    BY <1>1, <1>2 DEF InTurn
  <2>2. Counts(list[j]) = list[j].in + PrepTicks /\ Counts(later[j]) = later[j].in + PrepTicks
    BY <1>1, <1>2, CountsFacts
  <2> QED BY <1>1, <2>1, <2>2, ConstantFacts
<1> QED BY <1>2 DEF InTurn

\* Events that are neither frames nor bursts do not disturb.
LEMMA InTurnJoined ==
  ASSUME NEW old, NEW new, NEW events, NEW a, NEW b, Len(old) \in Nat,
         Merged(new, old, events, Len(events), a, b), NEW f,
         Avoids(events, FramesOf(f)), Avoids(events, BurstsOf(f)), InTurn(old, f)
  PROVE  InTurn(new, f)
<1>1. ASSUME NEW p \in 1 .. Len(new), new[p] \in FramesOf(f) \cup BurstsOf(f)
      PROVE  \E i \in 1 .. Len(old) : p = a[i] /\ new[p] = old[i]
  <2>1. \/ \E i \in 1 .. Len(old) : p = a[i]
        \/ \E j \in 1 .. Len(events) : p = b[j]
    BY DEF Merged
  <2>2. \A i \in 1 .. Len(old) : new[a[i]] = old[i]
    BY DEF Merged
  <2>3. \A j \in 1 .. Len(events) : new[b[j]] = events[j]
    BY DEF Merged
  <2> QED BY <1>1, <2>1, <2>2, <2>3 DEF Avoids
<1>2. ASSUME NEW i \in 1 .. Len(old), NEW j \in 1 .. Len(old), a[i] < a[j] PROVE i < j
  <2>1. /\ a[i] \in 1 .. Len(new) /\ a[j] \in 1 .. Len(new)
        /\ (j < i => a[j] < a[i])
    BY DEF Merged
  <2>2. CASE i = j
    BY <1>2, <2>1, <2>2
  <2>3. CASE j < i
    BY <1>2, <2>1, <2>3
  <2> QED BY <2>2, <2>3
<1>3. ASSUME NEW p \in 1 .. Len(new), NEW q \in 1 .. Len(new), p < q,
             new[p] \in FramesOf(f), new[q] \in BurstsOf(f)
      PROVE  new[p].in < Counts(new[q])
  <2>1. PICK i \in 1 .. Len(old) : p = a[i] /\ new[p] = old[i]
    BY <1>1, <1>3
  <2>2. PICK j \in 1 .. Len(old) : q = a[j] /\ new[q] = old[j]
    BY <1>1, <1>3
  <2>3. i < j
    BY <1>2, <1>3, <2>1, <2>2
  <2> QED BY <1>3, <2>1, <2>2, <2>3 DEF InTurn
<1> QED BY <1>3 DEF InTurn

\* The bursts of a MAP come before its frames, those of the MAPs before as well.
LEMMA InTurnMap ==
  ASSUME NEW old \in Seq(Events), NEW new \in Seq(Events), NEW events \in Seq(Events),
         NEW a, NEW b, Merged(new, old, events, Len(events), a, b), NEW f,
         NEW granted, NEW prepared, NEW added,
         LiesBefore(old, granted, prepared, f), LiesBehind(events, added, f),
         BurstsFirst(events, f), InTurn(old, f)
  PROVE  InTurn(new, f)
<1> DEFINE n == Len(old)
           m == Len(events)
<1>1. n \in Nat /\ m \in Nat
  BY LenProperties
<1>2. /\ \A i \in 1..n : a[i] \in 1 .. Len(new) /\ new[a[i]] = old[i]
      /\ \A j \in 1..m : b[j] \in 1 .. Len(new) /\ new[b[j]] = events[j]
      /\ \A p \in 1 .. Len(new) : (\E i \in 1..n : p = a[i]) \/ (\E j \in 1..m : p = b[j])
      /\ \A i, j \in 1..n : i < j => a[i] < a[j]
      /\ \A i \in 1..n, j \in 1..m : a[i] < b[j] <=> old[i].in <= events[j].in
      /\ \A i, j \in 1..m : i < j => (b[i] < b[j] <=> events[i].in <= events[j].in)
  BY DEF Merged
<1>3. /\ \A i \in 1..n : old[i] \in Events /\ old[i].in \in Nat
      /\ \A j \in 1..m : events[j] \in Events /\ events[j].in \in Nat
  BY ListFacts
<1>4. \A e \in Events : e.in \in Nat /\ Counts(e) \in Nat /\ e.in <= Counts(e)
  BY CountsFacts
<1> HIDE DEF n, m
<1>5. ASSUME NEW p \in 1 .. Len(new), NEW q \in 1 .. Len(new), p < q,
             new[p] \in FramesOf(f), new[q] \in BurstsOf(f)
      PROVE  new[p].in < Counts(new[q])
  <2>1. CASE (\E i \in 1..n : p = a[i]) /\ (\E j \in 1..n : q = a[j])
    <3>1. PICK i \in 1..n, j \in 1..n : p = a[i] /\ q = a[j]
      BY <2>1
    <3>2. i < j
      <4>1. j < i => a[j] < a[i]
        BY <1>2
      <4>2. ~ (a[j] < a[i]) /\ a[i] # a[j]
        BY <1>5, <3>1
      <4>3. i # j
        BY <4>2
      <4> QED BY <1>1, <4>1, <4>2, <4>3
    <3>3. new[p] = old[i] /\ new[q] = old[j]
      BY <1>2, <3>1
    <3> QED BY <1>5, <3>2, <3>3 DEF InTurn, n
  <2>2. CASE (\E i \in 1..n : p = a[i]) /\ (\E j \in 1..m : q = b[j])
    <3>1. PICK i \in 1..n, j \in 1..m : p = a[i] /\ q = b[j]
      BY <2>2
    <3>2. new[p] = old[i] /\ new[q] = events[j]
      BY <1>2, <3>1
    <3>3. old[i].in < ProcTicks
      BY <1>5, <3>2 DEF LiesBefore, n
    <3>4. Counts(events[j]) >= ProcTicks
      BY <1>5, <3>2 DEF LiesBehind, m
    <3>5. old[i].in \in Nat /\ Counts(events[j]) \in Nat
      BY <1>3, <1>4
    <3> QED BY <3>2, <3>3, <3>4, <3>5, ConstantFacts
  <2>3. CASE (\E i \in 1..m : p = b[i]) /\ (\E j \in 1..n : q = a[j])
    <3>1. PICK i \in 1..m, j \in 1..n : p = b[i] /\ q = a[j]
      BY <2>3
    <3>2. new[p] = events[i] /\ new[q] = old[j]
      BY <1>2, <3>1
    <3>3. ~ (a[j] < b[i])
      BY <1>5, <3>1
    <3>4. ~ (old[j].in <= events[i].in)
      BY <1>2, <3>3
    <3>5. events[i].in \in Nat /\ old[j].in \in Nat /\ Counts(old[j]) \in Nat
            /\ old[j].in <= Counts(old[j])
      BY <1>3, <1>4
    <3> QED BY <3>2, <3>4, <3>5
  <2>4. CASE (\E i \in 1..m : p = b[i]) /\ (\E j \in 1..m : q = b[j])
    <3>1. PICK i \in 1..m, j \in 1..m : p = b[i] /\ q = b[j]
      BY <2>4
    <3>2. new[p] = events[i] /\ new[q] = events[j]
      BY <1>2, <3>1
    <3>3. j < i
      <4>1. ~ (i < j)
        BY <1>5, <3>2 DEF BurstsFirst, m
      <4>2. i # j
        BY <1>5, <3>1
      <4> QED BY <1>1, <4>1, <4>2
    <3>4. ~ (b[j] < b[i])
      BY <1>5, <3>1
    <3>5. ~ (events[j].in <= events[i].in)
      BY <1>2, <3>3, <3>4
    <3>6. events[i].in \in Nat /\ events[j].in \in Nat /\ Counts(events[j]) \in Nat
            /\ events[j].in <= Counts(events[j])
      BY <1>3, <1>4
    <3> QED BY <3>2, <3>5, <3>6
  <2>5. (\E i \in 1..n : p = a[i]) \/ (\E j \in 1..m : p = b[j])
    BY <1>2
  <2>6. (\E i \in 1..n : q = a[i]) \/ (\E j \in 1..m : q = b[j])
    BY <1>2
  <2> QED BY <2>1, <2>2, <2>3, <2>4, <2>5, <2>6
<1> QED BY <1>5 DEF InTurn

\* No grant whose burst is still to come is for the frame that sends now.
LEMMA NoneReadyYet ==
  ASSUME NEW list \in Seq(Events), list # <<>>, NEW f, Head(list) \in FramesOf(f),
         Head(list).in = 0, InTurn(list, f), NEW pipe \in Seq(Grants), Aligned(pipe, list, f)
  PROVE  NoneReady(pipe)
<1>1. PICK p : /\ Enumerates(p, Len(pipe), list, BurstsOf(f))
               /\ \A k \in 1 .. Len(pipe) : pipe[k] = GrantOf(list[p[k]])
  BY DEF Aligned
<1>2. Len(list) \in Nat /\ Len(list) > 0 /\ Head(list) = list[1] /\ list[1] \in Events
  BY ListFacts
<1>3. list[1] \notin BurstsOf(f)
  BY <1>2, KindFacts
<1>4. ASSUME NEW k \in 1 .. Len(pipe) PROVE pipe[k].in # 0
  <2> DEFINE e == list[p[k]]
  <2>1. p[k] \in 1 .. Len(list) /\ e \in BurstsOf(f) /\ pipe[k] = GrantOf(e)
    BY <1>1 DEF Enumerates
  <2>2. e \in Events
    BY <2>1, ListFacts
  <2>3. p[k] # 1
    BY <1>3, <2>1
  <2>4. 1 \in 1 .. Len(list) /\ 1 < p[k]
    BY <1>2, <2>1, <2>3
  <2>5. list[1].in < Counts(e)
    BY <1>2, <2>1, <2>4 DEF InTurn
  <2> HIDE DEF e
  <2>6. pipe[k].in = e.in + PrepTicks
    BY <2>1 DEF GrantOf
  <2>7. Counts(e) = e.in + PrepTicks /\ Counts(e) \in Nat
    BY <2>1, <2>2, CountsFacts
  <2> QED BY <1>2, <2>5, <2>6, <2>7
<1> QED BY <1>4 DEF NoneReady

-----------------------------------------------------------------------------
(* What a MAP finds and what it adds.                                      *)

\* When a MAP is handled, what is left of earlier MAPs lies before its interval.
LEMMA RestLiesBefore ==
  ASSUME NEW list, NEW pipes, Agrees(list, pipes), list # <<>>,
         Head(list).event = "HandleMapMsg", Head(list).in = 0, NEW f \in Flows,
         NEW prepared \in Seq(Grants), Ascending(prepared)
  PROVE  LiesBefore(Tail(list), pipes[f], prepared, f)
<1> DEFINE h == Head(list)
           rest == Tail(list)
           pipe == pipes[f]
<1>1. list \in Seq(Events) /\ Sorted(list) /\ Spaced(list)
  BY DEF Agrees
<1>2. /\ rest \in Seq(Events)
      /\ \A i \in 1 .. Len(rest) : Apart(rest[i], h)
  BY <1>1, RestFacts
<1>3. h \notin BurstsDue
  BY DEF BurstsDue, EventsOf
<1>4. pipe \in Seq(Grants) /\ Aligned(pipe, rest, f)
  BY <1>3, RestAgrees DEF Agrees
<1>5. Begins(h) = ProcTicks /\ ToCome(h)
  BY ConstantFacts DEF Begins, ToCome
<1> HIDE DEF h, rest, pipe
<1>6. ASSUME NEW i \in 1 .. Len(rest), OfMap(rest[i]) PROVE Counts(rest[i]) < ProcTicks
  <2>1. Apart(rest[i], h)
    BY <1>2
  <2> QED BY <1>5, <1>6, <2>1 DEF Apart
<1>7. ASSUME NEW i \in 1 .. Len(rest), rest[i] \in FramesOf(f) \cup DumpsOf(f)
      PROVE  rest[i].in < ProcTicks
  <2>1. rest[i] \in Events
    BY <1>2, ListFacts
  <2>2. Counts(rest[i]) = rest[i].in /\ OfMap(rest[i])
    BY <1>7, <2>1, CountsFacts
  <2> QED BY <1>6, <2>2
<1>8. ASSUME NEW k \in 1 .. Len(pipe) PROVE pipe[k].in < ProcTicks
  <2>1. PICK p : /\ Enumerates(p, Len(pipe), rest, BurstsOf(f))
                 /\ \A n \in 1 .. Len(pipe) : pipe[n] = GrantOf(rest[p[n]])
    BY <1>4 DEF Aligned
  <2>2. p[k] \in 1 .. Len(rest) /\ rest[p[k]] \in BurstsOf(f) /\ pipe[k] = GrantOf(rest[p[k]])
    BY <2>1 DEF Enumerates
  <2>3. rest[p[k]] \in Events
    BY <1>2, <2>2, ListFacts
  <2>4. Counts(rest[p[k]]) = rest[p[k]].in + PrepTicks /\ OfMap(rest[p[k]])
    BY <2>2, <2>3, CountsFacts
  <2>5. Counts(rest[p[k]]) < ProcTicks
    BY <1>6, <2>2, <2>4
  <2>6. pipe[k].in = rest[p[k]].in + PrepTicks
    BY <2>2 DEF GrantOf
  <2> QED BY <2>4, <2>5, <2>6
<1>9. ASSUME NEW k \in 1 .. Len(prepared) PROVE prepared[k].in <= ProcTicks
  <2>1. prepared[k].in <= PrepTicks
    BY DEF Ascending
  <2>2. prepared[k] \in Grants
    BY ElementOfSeq
  <2>3. prepared[k].in \in Nat
    BY <2>2 DEF Grants
  <2> QED BY <2>1, <2>3, ConstantFacts
<1>10. LiesBefore(rest, pipe, prepared, f)
  BY <1>7, <1>8, <1>9 DEF LiesBefore
<1> QED BY <1>10 DEF rest, pipe

\* What the MAP adds lies in its interval.
LEMMA MadeLiesBehind ==
  ASSUME NEW events \in Seq(Made), NEW layout \in Layouts, NEW f \in Flows
  PROVE  LiesBehind(events, Pipelined(layout[f]), f)
<1> DEFINE added == Pipelined(layout[f])
<1>1. Placed(layout[f])
  BY LayoutFacts
<1>2. /\ Len(added) = Len(layout[f])
      /\ \A k \in 1 .. Len(layout[f]) :
           added[k] = [bytes |-> MinislotsToBytes(layout[f][k].length),
                       in |-> GrantTime(layout[f][k])]
      /\ \A k \in 1 .. Len(layout[f]) : GrantTime(layout[f][k]) >= ProcTicks
  BY <1>1, PipelinedFacts, GrantFacts
<1> HIDE DEF added
<1>3. ASSUME NEW k \in 1 .. Len(added) PROVE added[k].in >= ProcTicks
  <2> DEFINE grant == [bytes |-> MinislotsToBytes(layout[f][k].length),
                       in |-> GrantTime(layout[f][k])]
  <2>1. added[k] = grant
    BY <1>2
  <2>2. grant.in = GrantTime(layout[f][k])
    OBVIOUS
  <2> QED BY <2>1, <2>2, <1>2
<1>4. ASSUME NEW i \in 1 .. Len(events)
      PROVE  /\ events[i] \in FramesOf(f) \cup DumpsOf(f) => events[i].in >= ProcTicks
             /\ events[i] \in BurstsOf(f) => Counts(events[i]) >= ProcTicks
  <2> DEFINE e == events[i]
  <2>1. e \in Made
    BY ElementOfSeq
  <2>2. e \in Events /\ (OfMap(e) => Counts(e) \in Interval)
    BY <2>1, MadeFacts DEF Made
  <2> HIDE DEF e
  <2>3. OfMap(e) => Counts(e) >= ProcTicks
    BY <2>2, ConstantFacts, MapIntervalFacts DEF Interval
  <2>4. /\ e \in FramesOf(f) \cup DumpsOf(f) => Counts(e) = e.in /\ OfMap(e)
        /\ e \in BurstsOf(f) => OfMap(e)
    BY <2>2, CountsFacts
  <2> QED BY <2>3, <2>4 DEF e
<1>5. LiesBehind(events, added, f)
  BY <1>3, <1>4 DEF LiesBehind
<1> QED BY <1>5 DEF added

-----------------------------------------------------------------------------
(* Every byte prepared is sent.                                            *)

\* The frames of a flow have room for its grants, bursts are prepared in the
\* order of their frames, and each before its frame sends.
Drains(f) ==
  /\ Backs(agenda, grantPipeline[f], transmitPipeline[f], f)
  /\ Ascending(transmitPipeline[f]) /\ InTurn(agenda, f)
Drained == \A f \in Flows : Drains(f)

\* What the pipelines of a state are.
LEMMA PipesTyped ==
  ASSUME UpstreamInv, NEW f \in Flows
  PROVE  /\ agenda \in Seq(Events) /\ Sorted(agenda) /\ Spaced(agenda)
         /\ grantPipeline[f] \in Seq(Grants) /\ Aligned(grantPipeline[f], agenda, f)
         /\ transmitPipeline[f] \in Seq(Grants)
BY DEF UpstreamInv, AgendaInv, Agrees, QueuesTyped

\* An event that is no frame of the flow leaves the list.
LEMMA LeaveDrains ==
  ASSUME UpstreamInv, Drained, NEW name, Due(name), NEW f \in Flows,
         Head(agenda) \notin FramesOf(f)
  PROVE  /\ Backs(Rest, grantPipeline[f], transmitPipeline[f], f)
         /\ Ascending(transmitPipeline[f]) /\ InTurn(Rest, f)
<1>1. agenda \in Seq(Events) /\ agenda # <<>> /\ Rest = Tail(agenda)
  BY ReportedList
<1>2. /\ Backs(agenda, grantPipeline[f], transmitPipeline[f], f)
      /\ Ascending(transmitPipeline[f]) /\ InTurn(agenda, f)
  BY DEF Drained, Drains
<1>3. Backs(Rest, grantPipeline[f], transmitPipeline[f], f)
  BY <1>1, <1>2, RestBacks
<1>4. InTurn(Rest, f)
  BY <1>1, <1>2, InTurnRest
<1> QED BY <1>2, <1>3, <1>4

\* A flow to which nothing happens.
LEMMA OthersDrain ==
  ASSUME UpstreamInv, Drained, NEW name, Due(name), agenda' = Rest, NEW f \in Flows,
         Head(agenda) \notin FramesOf(f), grantPipeline'[f] = grantPipeline[f],
         transmitPipeline'[f] = transmitPipeline[f]
  PROVE  Drains(f)'
BY LeaveDrains DEF Drains

\* Which frames are not a flow's.
LEMMA NoFrame ==
  ASSUME UpstreamInv, NEW name, Due(name), NEW f, name # "SendFrame" \/ Head(agenda).arg.sfid # f
  PROVE  Head(agenda) \notin FramesOf(f)
<1>1. Head(agenda) \in Events /\ Head(agenda).event = name
  BY ReportedList
<1> QED BY <1>1, KindFacts

\* An event that is no frame leaves the list.
LEMMA LeaveDrained ==
  ASSUME UpstreamInv, Drained, NEW name, Due(name), name # "SendFrame", agenda' = Rest,
         grantPipeline' = grantPipeline, transmitPipeline' = transmitPipeline
  PROVE  Drained'
<1>1. ASSUME NEW f \in Flows PROVE Drains(f)'
  <2>1. Head(agenda) \notin FramesOf(f)
    BY NoFrame
  <2> QED BY <2>1, OthersDrain
<1> QED BY <1>1 DEF Drained

\* Events that are neither frames, bursts nor dumps join the list.
LEMMA JoinDrained ==
  ASSUME UpstreamInv, Drained, NEW name, Due(name), name # "SendFrame",
         grantPipeline' = grantPipeline, transmitPipeline' = transmitPipeline,
         agenda' \in Seq(Events), \A f \in Flows : Grows(Rest, agenda', f),
         NEW events, NEW a, NEW b,
         Merged(agenda', Rest, events, Len(events), a, b),
         \A f \in Flows : Avoids(events, FramesOf(f)) /\ Avoids(events, BurstsOf(f))
  PROVE  Drained'
<1>1. ASSUME NEW f \in Flows PROVE Drains(f)'
  <2>1. Head(agenda) \notin FramesOf(f)
    BY NoFrame
  <2>2. /\ Backs(Rest, grantPipeline[f], transmitPipeline[f], f)
        /\ Ascending(transmitPipeline[f]) /\ InTurn(Rest, f)
    BY <2>1, LeaveDrains
  <2>3. Rest \in Seq(Events) /\ Len(Rest) \in Nat
    BY ReportedList, LenProperties
  <2>4. grantPipeline[f] \in Seq(Grants) /\ transmitPipeline[f] \in Seq(Grants)
    BY PipesTyped
  <2>5. Grows(Rest, agenda', f)
    OBVIOUS
  <2>6. Backs(agenda', grantPipeline[f], transmitPipeline[f], f)
    BY <2>2, <2>3, <2>4, <2>5, GrownBacks
  <2>7. Avoids(events, FramesOf(f)) /\ Avoids(events, BurstsOf(f))
    OBVIOUS
  <2>8. InTurn(agenda', f)
    BY <2>2, <2>3, <2>7, InTurnJoined
  <2> QED BY <2>2, <2>6, <2>8 DEF Drains
<1> QED BY <1>1 DEF Drained

-----------------------------------------------------------------------------
(* The steps, and the room for the bytes.                                  *)

\* A request on its way.
LEMMA RequestDrained ==
  ASSUME UpstreamInv, Drained, NEW f \in Flows, Due("MakeRequest"),
         NEW bytes \in 0..MaxUnsent, SendRequest(f, bytes),
         grantPipeline' = grantPipeline, transmitPipeline' = transmitPipeline
  PROVE  Drained'
<1> DEFINE event == FlowEvent(RequestTicks, "ReceiveRequest", f, bytes)
<1>1. event \in Events /\ event.event = "ReceiveRequest"
  BY ConstantFacts DEF FlowEvent, Event, Events, RequestsSent, EventsOf, FlowArgs
<1>2. agenda' = Schedule(Rest, event)
  BY DEF SendRequest
<1> HIDE DEF event
<1>3. Rest \in Seq(Events) /\ Sorted(Rest)
  BY ReportedList
<1>4. PICK a, b : Merged(Schedule(Rest, event), Rest, <<event>>, 1, a, b)
  BY <1>1, <1>3, ScheduleMerges
<1>5. Len(<<event>>) = 1 /\ \A j \in 1..1 : <<event>>[j] = event
  OBVIOUS
<1>6. Merged(agenda', Rest, <<event>>, Len(<<event>>), a, b)
  BY <1>2, <1>4, <1>5
<1>7. ASSUME NEW g PROVE event \notin FramesOf(g) /\ event \notin BurstsOf(g) /\ event \notin DumpsOf(g)
  BY <1>1, KindFacts
<1>8. \A g \in Flows : Avoids(<<event>>, FramesOf(g)) /\ Avoids(<<event>>, BurstsOf(g))
  BY <1>5, <1>7 DEF Avoids
<1>9. ASSUME NEW g \in Flows PROVE agenda' \in Seq(Events) /\ Grows(Rest, agenda', g)
  <2>1. event \notin DumpsOf(g)
    BY <1>7
  <2> QED BY <1>1, <1>2, <1>3, <2>1, ScheduleOneGrows
<1>10. agenda' \in Seq(Events) /\ \A g \in Flows : Grows(Rest, agenda', g)
  BY <1>9
<1>11. "MakeRequest" # "SendFrame"
  OBVIOUS
<1> QED BY <1>6, <1>8, <1>10, <1>11, JoinDrained

\* MakeRequest.
LEMMA MakeRequestDrained ==
  ASSUME UpstreamInv, Drained, NEW f \in Flows, MakeRequest(f)
  PROVE  Drained'
<1>1. /\ Due("MakeRequest") /\ grantPipeline' = grantPipeline
      /\ transmitPipeline' = transmitPipeline
  BY DEF MakeRequest, DueFor
<1>2. CountersTyped
  BY DEF UpstreamInv
<1>3. CASE NothingToRequest(f)
  <2>1. agenda' = Rest
    BY <1>3 DEF NothingToRequest
  <2>2. "MakeRequest" # "SendFrame"
    OBVIOUS
  <2> QED BY <1>1, <2>1, <2>2, LeaveDrained
<1>4. CASE f = CLASSIC_SFID /\ MakeClassicRequest
  <2>1. NewRequest(f) > 0 /\ NewRequest(f) \in 0..MaxUnsent /\ NewRequest(f) \in Nat
    BY <1>4, AskedBytes DEF MakeClassicRequest
  <2>2. CASE SendRequest(CLASSIC_SFID, NewRequest(CLASSIC_SFID))
    BY <1>1, <1>4, <2>1, <2>2, RequestDrained
  <2>3. CASE Rate # 0 /\ SendRequest(CLASSIC_SFID, ShapeRequest(NewRequest(CLASSIC_SFID))[1])
    <3> DEFINE shaped == ShapeRequest(NewRequest(f))
    <3>1. shaped[1] \in 0..NewRequest(f)
      BY <1>2, <2>1, <2>3, ShapedFacts
    <3>2. SendRequest(f, shaped[1])
      BY <1>4, <2>3
    <3> HIDE DEF shaped
    <3>3. shaped[1] \in 0..MaxUnsent
      BY <2>1, <3>1, ConstantFacts
    <3> QED BY <1>1, <3>2, <3>3, RequestDrained
  <2> QED BY <1>4, <2>2, <2>3 DEF MakeClassicRequest
<1>5. CASE f = LOW_LATENCY_SFID /\ MakeLowLatencyRequest
  <2>1. NewRequest(f) \in 0..MaxUnsent
    BY <1>5, AskedBytes DEF MakeLowLatencyRequest
  <2>2. SendRequest(f, NewRequest(f))
    BY <1>5 DEF MakeLowLatencyRequest
  <2> QED BY <1>1, <2>1, <2>2, RequestDrained
<1> QED BY <1>3, <1>4, <1>5 DEF MakeRequest

\* A MAP is made.
LEMMA MapMadeDrained ==
  ASSUME UpstreamInv, Drained, NEW layout \in Layouts, GenerateMap(layout)
  PROVE  Drained'
<1> DEFINE sent == Event(MapTicks, "HandleMapMsg", layout)
           next == Event(MapInterval, "GenerateMap", 0)
           events == <<sent, next>>
<1>1. /\ Due("GenerateMap") /\ grantPipeline' = grantPipeline
      /\ transmitPipeline' = transmitPipeline /\ agenda' = ScheduleAll(Rest, events)
  BY DEF GenerateMap, pipelines
<1>2. /\ sent.event = "HandleMapMsg" /\ next.event = "GenerateMap"
      /\ \A i \in 1 .. Len(events) : events[i] = sent \/ events[i] = next
  <2>1. events[1] = sent /\ events[2] = next /\ Len(events) = 2
    OBVIOUS
  <2>2. sent.event = "HandleMapMsg" /\ next.event = "GenerateMap"
    BY DEF Event
  <2> QED BY <2>1, <2>2
<1> HIDE DEF sent, next
<1>3. events \in Seq(Events) /\ Timed(events)
  BY ConstantFacts, MapEvents DEF sent, next
<1> HIDE DEF events
<1>4. Rest \in Seq(Events) /\ Sorted(Rest) /\ Timed(Rest)
  BY <1>1, ReportedList, ListFacts
<1>5. PICK a, b : Merged(agenda', Rest, events, Len(events), a, b)
  BY <1>1, <1>3, <1>4, ScheduleAllMerges
<1>6. ASSUME NEW g, NEW i \in 1 .. Len(events)
      PROVE  events[i] \notin FramesOf(g) /\ events[i] \notin BurstsOf(g) /\ events[i] \notin DumpsOf(g)
  <2>1. events[i] \in Events
    BY <1>3, ElementOfSeq
  <2>2. events[i].event \in {"HandleMapMsg", "GenerateMap"}
    BY <1>2
  <2> QED BY <2>1, <2>2, KindFacts
<1>7. \A g \in Flows : Avoids(events, FramesOf(g)) /\ Avoids(events, BurstsOf(g))
  BY <1>6 DEF Avoids
<1>8. ASSUME NEW g \in Flows PROVE agenda' \in Seq(Events) /\ Grows(Rest, agenda', g)
  <2>1. Avoids(events, DumpsOf(g))
    BY <1>6 DEF Avoids
  <2> QED BY <1>1, <1>3, <1>4, <2>1, ScheduleGrows
<1>9. agenda' \in Seq(Events) /\ \A g \in Flows : Grows(Rest, agenda', g)
  <2>1. CLASSIC_SFID \in Flows
    BY ConstantFacts
  <2> QED BY <1>8, <2>1
<1>10. "GenerateMap" # "SendFrame"
  OBVIOUS
<1> QED BY <1>1, <1>5, <1>7, <1>9, <1>10, JoinDrained

\* Time brings frames, bursts and grants nearer alike.
LEMMA TimeDrained ==
  ASSUME UpstreamInv, Drained, AdvanceTime
  PROVE  Drained'
<1> DEFINE t == Head(agenda).in
<1>1. /\ agenda # <<>> /\ agenda' = Later(agenda, t)
      /\ grantPipeline' = [f \in Flows |-> Later(grantPipeline[f], t)]
      /\ transmitPipeline' = [f \in Flows |-> Aged(transmitPipeline[f], t)]
  BY DEF AdvanceTime
<1>2. agenda \in Seq(Events) /\ Sorted(agenda) /\ Spaced(agenda) /\ Agrees(agenda, grantPipeline)
  BY DEF UpstreamInv, AgendaInv, Agrees
<1>3. /\ t \in Nat /\ agenda' \in Seq(Events) /\ Len(agenda') = Len(agenda)
      /\ \A i \in 1 .. Len(agenda) :
           /\ agenda'[i].in = agenda[i].in - t /\ agenda'[i].event = agenda[i].event
           /\ agenda'[i].arg = agenda[i].arg
  BY <1>1, <1>2, LaterList
<1>4. Agrees(Later(agenda, t), [f \in Flows |-> Later(grantPipeline[f], t)])
  BY <1>1, <1>2, LaterAgrees
<1> HIDE DEF t
<1>5. ASSUME NEW f \in Flows PROVE Drains(f)'
  <2>1. Later(grantPipeline[f], t) \in Seq(Grants)
    <3>1. [g \in Flows |-> Later(grantPipeline[g], t)][f] \in Seq(Grants)
      BY <1>4 DEF Agrees
    <3> QED BY <3>1
  <2>2. grantPipeline[f] \in Seq(Grants) /\ transmitPipeline[f] \in Seq(Grants)
    BY PipesTyped
  <2>3. /\ Backs(agenda, grantPipeline[f], transmitPipeline[f], f)
        /\ Ascending(transmitPipeline[f]) /\ InTurn(agenda, f)
    BY DEF Drained, Drains
  <2>4. Backs(agenda', Later(grantPipeline[f], t), Aged(transmitPipeline[f], t), f)
    BY <1>2, <1>3, <2>1, <2>2, <2>3, TimeBacks
  <2>5. Ascending(Aged(transmitPipeline[f], t))
    BY <1>3, <2>2, <2>3, AscendingAged
  <2>6. InTurn(agenda', f)
    BY <1>2, <1>3, <2>3, InTurnLater
  <2>7. /\ grantPipeline'[f] = Later(grantPipeline[f], t)
        /\ transmitPipeline'[f] = Aged(transmitPipeline[f], t)
    BY <1>1
  <2> QED BY <2>4, <2>5, <2>6, <2>7 DEF Drains
<1> QED BY <1>5 DEF Drained

\* A burst gets no more bytes than its grant has, for the grant's frame.
LEMMA BurstDrained ==
  ASSUME UpstreamInv, Drained, NEW f \in Flows, PrepareBurst(f)
  PROVE  Drained'
<1> DEFINE bytes == MinislotsToBytes(Arg.n)
           moved == PacketsToStage(f, bytes)
           free == Unscheduled(f, moved)
           burst == Min({bytes, free})
           pipe == transmitPipeline[f]
           new == [bytes |-> burst, in |-> PrepTicks]
<1>1. /\ Due("PrepareBurst") /\ Head(agenda).arg.sfid = f /\ agenda' = Rest
      /\ PrepareBurstFrom(f, bytes)
  BY DEF PrepareBurst, DueFor, PrepareBurstFromCQueue, PrepareBurstFromLQueue
<1>2. /\ grantPipeline' = [grantPipeline EXCEPT ![f] = Tail(@)]
      /\ transmitPipeline' = IF burst > 0
                             THEN [transmitPipeline EXCEPT ![f] = Append(@, new)]
                             ELSE transmitPipeline
      /\ DOMAIN grantPipeline = Flows /\ DOMAIN transmitPipeline = Flows
  BY <1>1 DEF PrepareBurstFrom, UpstreamInv, PerFlow
<1>3. /\ agenda # <<>> /\ Agrees(agenda, grantPipeline) /\ Head(agenda) \in BurstsDue
      /\ Head(agenda).in = 0 /\ agenda \in Seq(Events) /\ Rest = Tail(agenda)
  BY <1>1, FrontFacts, ReportedList, EventFacts
<1>4. Head(agenda) \in BurstsOf(f) /\ bytes \in Nat
  <2>1. Arg.n \in 1..MinislotsPerMap
    BY <1>3 DEF BurstsDue, EventsOf, FlowArgs, Arg
  <2>2. Arg.n \in Nat
    BY <2>1
  <2>3. bytes \in Nat
    BY <2>2, MinislotFacts
  <2> QED BY <1>1, <1>3, <2>3 DEF BurstsOf
<1>5. grantPipeline[f] # <<>> /\ Head(grantPipeline[f]) = GrantOf(Head(agenda))
  BY <1>2, <1>3, <1>4, BurstAgrees
<1>6. Head(grantPipeline[f]).in = PrepTicks /\ Head(grantPipeline[f]).bytes = bytes
  <2>1. 0 + PrepTicks = PrepTicks
    BY ConstantFacts
  <2> QED BY <1>3, <1>5, <2>1 DEF GrantOf, Arg
<1>7. free \in Int
  <2>1. moved \in 0 .. Len(aqm[f])
    BY StagedCount DEF UpstreamInv
  <2> HIDE DEF moved
  <2>2. SumSeq(SubSeq(aqm[f], 1, moved)) \in Nat
    BY <2>1, CutFacts DEF UpstreamInv, QueuesTyped
  <2>3. TotalOf(pipe) \in Nat /\ DeviceBytes(f) \in Nat
    BY PipesTyped, BytesFacts, TotalFacts DEF UpstreamInv
  <2> QED BY <2>2, <2>3 DEF Unscheduled
<1> HIDE DEF bytes, free
<1>8. burst \in {bytes, free} /\ burst <= bytes
  BY <1>4, <1>7, MinOfTwo
<1> HIDE DEF burst
<1>9. /\ grantPipeline[f] \in Seq(Grants) /\ pipe \in Seq(Grants)
      /\ Backs(agenda, grantPipeline[f], pipe, f) /\ Ascending(pipe) /\ InTurn(agenda, f)
  BY PipesTyped DEF Drained, Drains
<1> HIDE DEF pipe
<1>10. /\ Backs(Rest, Tail(grantPipeline[f]), pipe, f)
       /\ \A g \in Grants : g.in = PrepTicks /\ g.bytes <= bytes
            => Backs(Rest, Tail(grantPipeline[f]), Append(pipe, g), f)
  BY <1>3, <1>4, <1>5, <1>6, <1>9, BurstBacks
<1>11. InTurn(Rest, f)
  BY <1>3, <1>9, InTurnRest
<1>12. grantPipeline'[f] = Tail(grantPipeline[f])
  BY <1>2
<1>13. Backs(Rest, Tail(grantPipeline[f]), transmitPipeline'[f], f) /\ Ascending(transmitPipeline'[f])
  <2>1. CASE burst > 0
    <3>1. new \in Grants /\ new.in = PrepTicks /\ new.bytes = burst
      <4>1. burst \in Nat \ {0} /\ PrepTicks \in Nat
        BY <1>4, <1>7, <1>8, <2>1, ConstantFacts
      <4> QED BY <4>1 DEF Grants
    <3> HIDE DEF new
    <3>2. transmitPipeline'[f] = Append(pipe, new)
      BY <1>2, <2>1 DEF pipe
    <3>3. Backs(Rest, Tail(grantPipeline[f]), Append(pipe, new), f)
      BY <1>8, <1>10, <3>1
    <3>4. Ascending(Append(pipe, new))
      BY <1>9, <3>1, AscendingAppend
    <3> QED BY <3>2, <3>3, <3>4
  <2>2. CASE ~ (burst > 0)
    BY <1>2, <1>9, <1>10, <2>2 DEF pipe
  <2> QED BY <2>1, <2>2
<1>14. Drains(f)'
  BY <1>1, <1>11, <1>12, <1>13 DEF Drains
<1>15. ASSUME NEW g \in Flows, g # f PROVE Drains(g)'
  <2>1. grantPipeline'[g] = grantPipeline[g] /\ transmitPipeline'[g] = transmitPipeline[g]
    BY <1>2, <1>15
  <2>2. Head(agenda) \notin FramesOf(g)
    BY <1>1, NoFrame
  <2> QED BY <1>1, <2>1, <2>2, OthersDrain
<1> QED BY <1>14, <1>15 DEF Drained

\* A frame sends what is ready, or as much of it as fits.
LEMMA SendDrained ==
  ASSUME UpstreamInv, Drained, NEW f \in Flows, SendFrame(f)
  PROVE  Drained'
<1> DEFINE allocated == MinislotsToBytes(Arg.n)
           pipe == transmitPipeline[f]
           ready == GetEligible(pipe)
           toSend == Min({allocated, ready})
           used == Min({toSend, DeviceBytes(f)})
<1>1. /\ Due("SendFrame") /\ Head(agenda).arg.sfid = f /\ agenda' = Rest
      /\ grantPipeline' = grantPipeline /\ SendFrameFrom(f, allocated)
  BY DEF SendFrame, DueFor, SendFrameFromCQueue, SendFrameFromLQueue
<1>2. /\ transmitPipeline' = [transmitPipeline EXCEPT ![f] = RemoveBytes(@, used)]
      /\ DOMAIN transmitPipeline = Flows
  BY <1>1 DEF SendFrameFrom, UpstreamInv, PerFlow
<1>3. /\ agenda # <<>> /\ Head(agenda) \in FramesDue /\ Head(agenda).in = 0
      /\ agenda \in Seq(Events) /\ Rest = Tail(agenda)
  BY <1>1, FrontFacts, ReportedList, EventFacts
<1>4. Head(agenda) \in FramesOf(f) /\ allocated \in Nat
  <2>1. Arg.n \in Nat
    BY <1>3 DEF FramesDue, EventsOf, FlowArgs, Arg
  <2> QED BY <1>1, <1>3, <2>1, MinislotFacts DEF FramesOf
<1>5. /\ grantPipeline[f] \in Seq(Grants) /\ pipe \in Seq(Grants)
      /\ Aligned(grantPipeline[f], agenda, f)
      /\ Backs(agenda, grantPipeline[f], pipe, f) /\ Ascending(pipe) /\ InTurn(agenda, f)
  BY PipesTyped DEF Drained, Drains
<1>6. /\ ready \in Nat /\ TotalOf(pipe) \in Nat /\ ready <= TotalOf(pipe)
      /\ DeviceBytes(f) \in Nat /\ TotalOf(pipe) <= DeviceBytes(f)
  BY <1>5, TotalFacts, BytesFacts DEF UpstreamInv, HeldInv
<1>7. allocated = MinislotsToBytes(Head(agenda).arg.n)
  BY DEF Arg
<1> HIDE DEF ready, allocated
<1>8. toSend \in {allocated, ready} /\ toSend <= allocated /\ toSend <= ready
  <2>1. allocated \in Int /\ ready \in Int
    BY <1>4, <1>6
  <2> QED BY <2>1, MinOfTwo
<1> HIDE DEF toSend
<1>9. used = toSend /\ toSend \in Nat
  <2>1. toSend \in Nat /\ toSend <= DeviceBytes(f)
    BY <1>4, <1>6, <1>8
  <2>2. used \in {toSend, DeviceBytes(f)} /\ used <= toSend /\ used <= DeviceBytes(f)
    <3>1. toSend \in Int /\ DeviceBytes(f) \in Int
      BY <1>6, <2>1
    <3> QED BY <3>1, MinOfTwo
  <2> HIDE DEF used
  <2> QED BY <1>6, <2>1, <2>2
<1> HIDE DEF used
<1>10. transmitPipeline'[f] = RemoveBytes(pipe, toSend)
  BY <1>2, <1>9 DEF pipe
<1> HIDE DEF pipe
<1>11. NoneReady(grantPipeline[f])
  BY <1>3, <1>4, <1>5, NoneReadyYet
<1>12. Backs(Rest, grantPipeline[f], RemoveBytes(pipe, toSend), f)
  <2>1. /\ toSend = MinislotsToBytes(Head(agenda).arg.n) \/ toSend = GetEligible(pipe)
        /\ toSend <= MinislotsToBytes(Head(agenda).arg.n) /\ toSend <= GetEligible(pipe)
    BY <1>7, <1>8 DEF ready
  <2> QED BY <1>3, <1>4, <1>5, <1>11, <2>1, SendBacks
<1>13. Ascending(RemoveBytes(pipe, toSend))
  BY <1>5, <1>9, AscendingRemoved
<1>14. InTurn(Rest, f)
  BY <1>3, <1>5, InTurnRest
<1>15. Drains(f)'
  BY <1>1, <1>10, <1>12, <1>13, <1>14 DEF Drains
<1>16. ASSUME NEW g \in Flows, g # f PROVE Drains(g)'
  <2>1. grantPipeline'[g] = grantPipeline[g] /\ transmitPipeline'[g] = transmitPipeline[g]
    BY <1>1, <1>2, <1>16
  <2>2. Head(agenda) \notin FramesOf(g)
    BY <1>1, <1>16, NoFrame
  <2> QED BY <1>1, <2>1, <2>2, OthersDrain
<1> QED BY <1>15, <1>16 DEF Drained

-----------------------------------------------------------------------------
(* The MAP, the start and the theorem.                                     *)

\* A MAP brings frames with room for the grants it brings.
LEMMA MapHandledDrained ==
  ASSUME UpstreamInv, Drained, HandleMapMsg
  PROVE  Drained'
<1> DEFINE layout == Arg
<1>1. /\ Due("HandleMapMsg") /\ transmitPipeline' = transmitPipeline
      /\ grantPipeline' = [f \in Flows |-> grantPipeline[f] \o Pipelined(layout[f])]
  BY DEF HandleMapMsg
<1>2. PICK offset \in [Flows -> RequestOffsets] :
        agenda' = ScheduleAll(Rest,
                    InFlowOrder([f \in Flows |-> FlowEvents(f, layout, offset[f])]))
  BY DEF HandleMapMsg
<1> DEFINE made == [f \in Flows |-> FlowEvents(f, layout, offset[f])]
           events == InFlowOrder(made)
           added == [f \in Flows |-> Pipelined(layout[f])]
<1>3. /\ agenda \in Seq(Events) /\ agenda # <<>> /\ Head(agenda) \in Events
      /\ Head(agenda).event = "HandleMapMsg" /\ Head(agenda).in = 0
      /\ Agrees(agenda, grantPipeline)
      /\ Rest \in Seq(Events) /\ Sorted(Rest) /\ Rest = Tail(agenda)
  BY <1>1, ReportedList, FrontFacts
<1>4. layout \in Layouts
  <2>1. Head(agenda) \in MapsSent
    BY <1>3, EventFacts
  <2> QED BY <2>1 DEF MapsSent, EventsOf, Arg
<1> HIDE DEF layout
<1>5. ASSUME NEW f \in Flows
      PROVE  /\ made[f] \in Seq(MadeFor(f)) /\ added[f] \in Seq(Grants)
             /\ Aligned(added[f], made[f], f)
             /\ Backs(made[f], added[f], <<>>, f) /\ BurstsFirst(made[f], f)
  <2>1. /\ FlowEvents(f, layout, offset[f]) \in Seq(MadeFor(f))
        /\ Aligned(Pipelined(layout[f]), FlowEvents(f, layout, offset[f]), f)
    BY <1>4, FlowEventsFacts
  <2>2. Pipelined(layout[f]) \in Seq(Grants)
    BY <1>4, LayoutFacts, PipelinedFacts
  <2>3. /\ Backs(FlowEvents(f, layout, offset[f]), Pipelined(layout[f]), <<>>, f)
        /\ BurstsFirst(FlowEvents(f, layout, offset[f]), f)
    <3>1. offset[f] \in RequestOffsets
      OBVIOUS
    <3> QED BY <1>4, <3>1, FlowBacks
  <2>4. made[f] = FlowEvents(f, layout, offset[f]) /\ added[f] = Pipelined(layout[f])
    OBVIOUS
  <2> HIDE DEF made, added
  <2> QED BY <2>1, <2>2, <2>3, <2>4
<1>6. ASSUME NEW f \in Flows
      PROVE  /\ added[f] = Pipelined(layout[f])
             /\ grantPipeline'[f] = grantPipeline[f] \o added[f]
  BY <1>1
<1> HIDE DEF made, added
<1>7. events \in Seq(Made) /\ events \in Seq(Events)
  BY <1>5, InFlowOrderFacts
<1>8. ASSUME NEW f \in Flows PROVE Backs(events, added[f], <<>>, f) /\ BurstsFirst(events, f)
  <2>1. \A g \in Flows : made[g] \in Seq(MadeFor(g))
    BY <1>5
  <2>2. added[f] \in Seq(Grants) /\ Backs(made[f], added[f], <<>>, f) /\ BurstsFirst(made[f], f)
    BY <1>5
  <2> QED BY <2>1, <2>2, MadeBacks
<1>9. agenda' = ScheduleAll(Rest, events)
  BY <1>2 DEF events, made
<1> HIDE DEF events
<1>10. agenda' \in Seq(Events) /\ \E a, b : Merged(agenda', Rest, events, Len(events), a, b)
  <2>1. Timed(Rest) /\ Timed(events)
    BY <1>3, <1>7, ListFacts
  <2> QED BY <1>3, <1>7, <1>9, <2>1, ScheduleAllMerges
<1>11. PICK a, b : Merged(agenda', Rest, events, Len(events), a, b)
  BY <1>10
<1>12. ASSUME NEW f \in Flows PROVE Drains(f)'
  <2>1. Head(agenda) \notin FramesOf(f)
    BY <1>1, NoFrame
  <2>2. /\ Backs(Rest, grantPipeline[f], transmitPipeline[f], f)
        /\ Ascending(transmitPipeline[f]) /\ InTurn(Rest, f)
    BY <1>1, <2>1, LeaveDrains
  <2>3. grantPipeline[f] \in Seq(Grants) /\ transmitPipeline[f] \in Seq(Grants)
    BY PipesTyped
  <2>4. LiesBefore(Rest, grantPipeline[f], transmitPipeline[f], f)
    BY <1>3, <2>2, <2>3, RestLiesBefore
  <2>5. LiesBehind(events, added[f], f)
    BY <1>4, <1>6, <1>7, MadeLiesBehind
  <2>6. added[f] \in Seq(Grants) /\ Backs(events, added[f], <<>>, f) /\ BurstsFirst(events, f)
    BY <1>5, <1>8
  <2>7. Backs(agenda', grantPipeline[f] \o added[f], transmitPipeline[f], f)
    BY <1>3, <1>7, <1>9, <2>2, <2>3, <2>4, <2>5, <2>6, MapBacks
  <2>8. InTurn(agenda', f)
    BY <1>3, <1>7, <1>10, <1>11, <2>2, <2>4, <2>5, <2>6, InTurnMap
  <2>9. grantPipeline'[f] = grantPipeline[f] \o added[f]
    BY <1>6
  <2> QED BY <1>1, <2>2, <2>7, <2>8, <2>9 DEF Drains
<1> QED BY <1>12 DEF Drained

\* An empty pipeline needs no frames.
LEMMA EmptyBacked ==
  ASSUME NEW list \in Seq(Events), NEW f
  PROVE  Backs(list, <<>>, <<>>, f)
<1>1. <<>> \in Seq(Grants) /\ Len(<<>>) = 0
  BY EmptySeq
<1>2. ASSUME NEW t \in Nat, NEW u \in Closings(list, f)
      PROVE  TotalWeight(<<>>, Within(t, u)) + TotalWeight(<<>>, Within(t, u))
               <= TotalWeight(list, SentWithin(f, t, u))
  <2>1. TotalWeight(list, SentWithin(f, t, u)) \in Nat
    BY <1>1, RoomFacts
  <2>2. Within(t, u) \in [Grants -> Nat]
    BY WindowFacts
  <2>3. TotalWeight(<<>>, Within(t, u)) = 0
    <3>1. \A i \in 1 .. Len(<<>>) : Within(t, u)[<<>>[i]] = 0
      BY <1>1
    <3> QED BY <1>1, <2>2, <3>1, WeightZero
  <2> QED BY <2>1, <2>3
<1> QED BY <1>2 DEF Backs

\* Nothing is granted at the start.
LEMMA StartDrained == Init => Drained
<1> SUFFICES ASSUME Init, NEW f \in Flows PROVE Drains(f)
  BY DEF Drained
<1> DEFINE first == Event(FirstGenerateMap, "GenerateMap", 0)
<1>1. PICK offset \in [Flows -> [1..StartupMaps -> RequestOffsets]] :
        agenda = ScheduleAll(<<first>>,
                   InFlowOrder([g \in Flows |-> StartupRequests(g, offset[g])]))
  BY DEF Init
<1> DEFINE made == [g \in Flows |-> StartupRequests(g, offset[g])]
           events == InFlowOrder(made)
<1>2. first \in Events /\ first.in \in Nat
  BY MapIntervalFacts DEF Event, Events, MapsMade, EventsOf
<1> HIDE DEF first
<1>3. <<first>> \in Seq(Events) /\ Len(<<first>>) = 1 /\ \A i \in 1..1 : <<first>>[i] = first
  BY <1>2
<1>4. DOMAIN <<first>> = 1..1 /\ Timed(<<first>>)
  BY <1>3, LenProperties, ListFacts
<1>5. Sorted(<<first>>)
  <2>1. \A i \in 1..1 : i = 1
    OBVIOUS
  <2> QED BY <2>1, <1>2, <1>3, <1>4 DEF Sorted
<1>6. /\ events \in Seq(Events)
      /\ \A j \in 1 .. Len(events) : events[j] \in RequestsDue
  BY StartupList
<1>7. agenda = ScheduleAll(<<first>>, events)
  BY <1>1
<1> HIDE DEF made, events
<1>8. agenda \in Seq(Events) /\ \E a, b : Merged(agenda, <<first>>, events, Len(events), a, b)
  BY <1>3, <1>4, <1>5, <1>6, <1>7, ListFacts, ScheduleAllMerges
<1>9. PICK a, b : Merged(agenda, <<first>>, events, Len(events), a, b)
  BY <1>8
<1>10. Avoids(events, FramesOf(f)) /\ Avoids(events, BurstsOf(f))
  <2>1. ASSUME NEW j \in 1 .. Len(events)
        PROVE  events[j] \notin FramesOf(f) /\ events[j] \notin BurstsOf(f)
    <3>1. events[j] \in Events /\ events[j].event = "MakeRequest"
      BY <1>6, ElementOfSeq DEF RequestsDue, EventsOf
    <3> QED BY <3>1, KindFacts
  <2> QED BY <2>1 DEF Avoids
<1>11. InTurn(<<first>>, f)
  <2>1. \A i, j \in 1..1 : ~ (i < j)
    OBVIOUS
  <2> QED BY <1>3, <2>1 DEF InTurn
<1>12. InTurn(agenda, f)
  <2>1. Len(<<first>>) \in Nat
    BY <1>3
  <2> QED BY <1>9, <1>10, <1>11, <2>1, InTurnJoined
<1>13. grantPipeline[f] = <<>> /\ transmitPipeline[f] = <<>>
  BY DEF Init, ForAllFlows
<1>14. Backs(agenda, <<>>, <<>>, f)
  BY <1>8, EmptyBacked
<1>15. Ascending(<<>>)
  <2>1. \A i : i \notin 1 .. Len(<<>>)
    OBVIOUS
  <2> QED BY <2>1 DEF Ascending
<1> QED BY <1>12, <1>13, <1>14, <1>15 DEF Drains

\* Every step leaves the frames room for what is granted.
LEMMA StepDrained == UpstreamInv /\ Drained /\ [Next]_vars => Drained'
<1> SUFFICES ASSUME UpstreamInv, Drained, [Next]_vars PROVE Drained'
  OBVIOUS
<1>1. ASSUME grantPipeline' = grantPipeline, transmitPipeline' = transmitPipeline,
             agenda' = agenda
      PROVE  Drained'
  BY <1>1 DEF Drained, Drains
<1>2. CASE UNCHANGED vars
  BY <1>1, <1>2 DEF vars, pipelines
<1>3. CASE AdvanceTime
  BY <1>3, TimeDrained
<1>4. ASSUME NEW layout \in Layouts, GenerateMap(layout) PROVE Drained'
  BY <1>4, MapMadeDrained
<1>5. CASE HandleMapMsg
  BY <1>5, MapHandledDrained
<1>6. ASSUME NEW f \in Flows, FlowStep(f) PROVE Drained'
  <2>1. ASSUME NEW name \in {"ReceiveRequest", "LoadMapState", "DumpGrant"}, Due(name),
               agenda' = Rest, UNCHANGED pipelines
        PROVE  Drained'
    BY <2>1, LeaveDrained DEF pipelines
  <2>2. CASE ReceiveRequest(f)
    BY <2>1, <2>2 DEF ReceiveRequest, DueFor
  <2>3. CASE LoadMapState(f)
    BY <2>1, <2>3 DEF LoadMapState, DueFor
  <2>4. CASE DumpGrant(f)
    BY <2>1, <2>4 DEF DumpGrant, DueFor
  <2> QED BY <1>6, <2>2, <2>3, <2>4, MakeRequestDrained, BurstDrained, SendDrained
          DEF FlowStep
<1>7. ASSUME NEW f \in Flows, NEW size \in Sizes, SendFrom(f, size) PROVE Drained'
  BY <1>1, <1>7 DEF SendFrom, pipelines
<1> QED BY <1>2, <1>3, <1>4, <1>5, <1>6, <1>7 DEF Next, Simulate

\* With room for all that is prepared, nothing is ready when a grant is dumped.
LEMMA DrainedNow == UpstreamInv /\ Drained => DrainedAtDump
<1> SUFFICES ASSUME UpstreamInv, Drained, NEW f \in Flows, DueFor("DumpGrant", f)
             PROVE  GetEligible(transmitPipeline[f]) = 0
  BY DEF DrainedAtDump
<1> DEFINE pipe == transmitPipeline[f]
           granted == grantPipeline[f]
           w == SentWithin(f, 0, 0)
<1>1. Due("DumpGrant") /\ Head(agenda).arg.sfid = f
  BY DEF DueFor
<1>2. /\ agenda \in Seq(Events) /\ agenda # <<>> /\ Head(agenda) \in Events
      /\ Head(agenda).event = "DumpGrant" /\ Head(agenda).in = 0
  BY <1>1, FrontFacts
<1>3. Len(agenda) \in Nat /\ Len(agenda) > 0 /\ Head(agenda) = agenda[1]
  BY <1>2, ListFacts
<1>4. 0 \in Closings(agenda, f)
  <2>1. agenda[1] \in DumpsOf(f) /\ agenda[1].in = 0 /\ 1 \in 1 .. Len(agenda)
    BY <1>1, <1>2, <1>3, KindFacts
  <2> QED BY <2>1 DEF Closings
<1>5. granted \in Seq(Grants) /\ pipe \in Seq(Grants) /\ Backs(agenda, granted, pipe, f)
  BY PipesTyped DEF Drained, Drains
<1> HIDE DEF pipe, granted
<1>6. TotalWeight(pipe, Within(0, 0)) + TotalWeight(granted, Within(0, 0))
        <= TotalWeight(agenda, w)
  BY <1>4, <1>5 DEF Backs
<1>7. /\ w \in [Events -> Nat]
      /\ \A e \in Events : w[e] = IF e \in FramesOf(f) /\ 0 <= e.in /\ e.in < 0
                                  THEN MinislotsToBytes(e.arg.n) ELSE 0
  BY SentFrameFacts
<1> HIDE DEF w
<1>8. \A i \in 1 .. Len(agenda) : w[agenda[i]] = 0
  BY <1>2, <1>7, ListFacts
<1>9. TotalWeight(agenda, w) = 0
  BY <1>2, <1>7, <1>8, WeightZero
<1>10. TotalWeight(pipe, Within(0, 0)) \in Nat /\ TotalWeight(granted, Within(0, 0)) \in Nat
         /\ TotalWeight(pipe, Within(1, 0)) \in Nat /\ GetEligible(pipe) \in Nat
  BY <1>2, <1>5, RoomFacts, TotalFacts
<1>11. TotalWeight(pipe, Within(0, 0)) = GetEligible(pipe) + TotalWeight(pipe, Within(1, 0))
  BY <1>5, ReadyFirst
<1> QED BY <1>6, <1>9, <1>10, <1>11 DEF pipe

\* No byte that is ready outlives the frames of its MAP: when the MAP's grant is
\* dumped, the frames before have sent all that was prepared for them, although
\* grants are prepared by the frame their first minislot is in and the next
\* MAP's bursts are in the same pipeline.
THEOREM AlwaysDrained == Spec => []DrainedAtDump
<1>1. UpstreamInv /\ Drained => DrainedAtDump
  BY DrainedNow
<1>2. UpstreamInv /\ Drained /\ [Next]_vars => Drained'
  BY StepDrained
<1>3. Init => Drained
  BY StartDrained
<1> QED BY <1>1, <1>2, <1>3, UpstreamInvariant, PTL DEF Spec

-----------------------------------------------------------------------------
(* What the staging queue holds beyond the bursts.                         *)

\* Only packets of the sizes that arrive wait, and of what is in the device less
\* than one packet is not yet promised to a frame.
Spare(f) ==
  /\ aqm[f] \in Seq(Sizes)
  /\ \/ DeviceBytes(f) = 0
     \/ \E size \in Sizes : DeviceBytes(f) < TotalOf(transmitPipeline[f]) + size
Spared == \A f \in Flows : Spare(f)

\* A flow whose bytes stay where they are.
LEMMA SameSpare ==
  ASSUME NEW f, Spare(f), aqm'[f] = aqm[f], device'[f] = device[f], frag'[f] = frag[f],
         TotalOf(transmitPipeline'[f]) = TotalOf(transmitPipeline[f])
  PROVE  Spare(f)'
<1>1. DeviceBytes(f)' = DeviceBytes(f)
  BY DEF DeviceBytes
<1> QED BY <1>1 DEF Spare

\* No more packets are moved than the burst needs.
LEMMA StagedLeast ==
  ASSUME QueuesTyped, NEW f \in Flows, NEW bytes
  PROVE  LET moved == PacketsToStage(f, bytes)
         IN  /\ moved \in 0 .. Len(aqm[f])
             /\ bytes <= Unscheduled(f, moved) \/ moved = Len(aqm[f])
             /\ moved > 0 => ~ (bytes <= Unscheduled(f, moved - 1))
<1> DEFINE n == Len(aqm[f])
           S == {k \in 0..n : bytes <= Unscheduled(f, k) \/ k = n}
<1>1. n \in Nat
  BY SizesFacts DEF QueuesTyped
<1>2. n \in S
  BY <1>1
<1>3. S \in SUBSET Nat /\ S # {}
  BY <1>1, <1>2
<1>4. \A k : k \in S <=> k \in 0..n /\ (bytes <= Unscheduled(f, k) \/ k = n)
  OBVIOUS
<1>5. PacketsToStage(f, bytes) = Min(S)
  BY DEF PacketsToStage
<1> HIDE DEF S, n
<1> DEFINE m == Min(S)
<1>6. m \in S /\ \A k \in S : m <= k
  BY <1>3, MinOfNumbers
<1> HIDE DEF m
<1>7. m \in 0..n /\ (bytes <= Unscheduled(f, m) \/ m = n)
  BY <1>4, <1>6
<1>8. ASSUME m > 0 PROVE ~ (bytes <= Unscheduled(f, m - 1))
  <2>1. m - 1 \in 0..n /\ ~ (m <= m - 1)
    BY <1>1, <1>7, <1>8
  <2>2. m - 1 \notin S
    BY <1>6, <2>1
  <2> QED BY <1>4, <2>1, <2>2
<1> QED BY <1>5, <1>7, <1>8 DEF m, n

\* The bytes of one packet more.
LEMMA OneMoreMoved ==
  ASSUME NEW s \in Seq(Nat \ {0}), NEW m \in 1 .. Len(s)
  PROVE  /\ SumSeq(SubSeq(s, 1, m)) = SumSeq(SubSeq(s, 1, m - 1)) + s[m]
         /\ SumSeq(SubSeq(s, 1, m - 1)) \in Nat /\ SumSeq(SubSeq(s, 1, m)) \in Nat
         /\ s[m] \in Nat \ {0}
<1> DEFINE a == SubSeq(s, 1, m - 1)
           b == SubSeq(s, 1, m)
<1>1. Len(s) \in Nat /\ m \in 0 .. Len(s) /\ m - 1 \in 0 .. Len(s) /\ m \in 1..m
  BY LenProperties
<1>2. /\ b \in Seq(Nat \ {0}) /\ Len(b) = m /\ SumSeq(b) \in Nat
      /\ \A i \in 1..m : b[i] = s[i]
  BY <1>1, CutFacts
<1>3. /\ a \in Seq(Nat \ {0}) /\ Len(a) = m - 1 /\ SumSeq(a) \in Nat
      /\ \A i \in 1 .. m - 1 : a[i] = s[i]
  BY <1>1, CutFacts
<1> HIDE DEF a, b
<1>4. a \in Seq(Nat) /\ b \in Seq(Nat)
  BY <1>2, <1>3, SizesFacts
<1>5. Len(b) = Len(a) + 1 /\ \A i \in 1 .. Len(a) : a[i] = b[i]
  <2>1. Len(b) = Len(a) + 1
    BY <1>1, <1>2, <1>3
  <2>2. ASSUME NEW i \in 1 .. m - 1 PROVE a[i] = b[i]
    <3>1. i \in 1..m
      BY <1>1
    <3> QED BY <1>2, <1>3, <3>1
  <2> QED BY <1>3, <2>1, <2>2
<1>6. SumSeq(b) = SumSeq(a) + b[Len(b)]
  BY <1>4, <1>5, SumOneMore
<1>7. b[Len(b)] = s[m] /\ s[m] \in Nat \ {0}
  BY <1>1, <1>2, ElementOfSeq
<1> QED BY <1>2, <1>3, <1>6, <1>7 DEF a, b

\* A burst is given what is spare, and packets are moved for what it lacks.
LEMMA BurstSpare ==
  ASSUME UpstreamInv, NEW f \in Flows, Spare(f), NEW bytes \in Nat \ {0},
         PrepareBurstFrom(f, bytes), frag' = frag
  PROVE  Spare(f)'
<1> DEFINE moved == PacketsToStage(f, bytes)
           front == SubSeq(aqm[f], 1, moved)
           free == Unscheduled(f, moved)
           burst == Min({bytes, free})
           pipe == transmitPipeline[f]
           total == TotalOf(pipe)
           held == DeviceBytes(f)
           new == [bytes |-> burst, in |-> PrepTicks]
<1>1. QueuesTyped /\ HeldInv /\ PerFlow
  BY DEF UpstreamInv
<1>2. /\ aqm'[f] = SubSeq(aqm[f], moved + 1, Len(aqm[f]))
      /\ device'[f] = device[f] \o front
      /\ transmitPipeline'[f] = IF burst > 0 THEN Append(pipe, new) ELSE pipe
  BY <1>1 DEF PrepareBurstFrom, PerFlow
<1>3. /\ aqm[f] \in Seq(Nat \ {0}) /\ device[f] \in Seq(Nat \ {0}) /\ pipe \in Seq(Grants)
      /\ aqm[f] \in Seq(Sizes) /\ Len(aqm[f]) \in Nat
      /\ \A i \in 1 .. Len(aqm[f]) : aqm[f][i] \in Sizes
  BY <1>1, LenProperties, ElementOfSeq DEF QueuesTyped, Spare
<1>4. /\ moved \in 0 .. Len(aqm[f])
      /\ bytes <= free \/ moved = Len(aqm[f])
      /\ moved > 0 => ~ (bytes <= Unscheduled(f, moved - 1))
  BY <1>1, StagedLeast
<1> HIDE DEF moved
<1>5. aqm'[f] \in Seq(Sizes)
  <2> DEFINE s == aqm[f]
  <2>1. s \in Seq(Sizes) /\ Len(s) \in Nat /\ moved \in 0 .. Len(s)
    BY <1>3, <1>4
  <2> HIDE DEF s
  <2>2. moved + 1 \in 1 .. Len(s) + 1 /\ Len(s) \in (moved + 1) - 1 .. Len(s)
    BY <2>1
  <2>3. SubSeq(s, moved + 1, Len(s)) \in Seq(Sizes)
    BY <2>1, <2>2, SubSeqProperties
  <2> QED BY <1>2, <2>3 DEF s
<1>6. SumSeq(front) \in Nat /\ front \in Seq(Nat \ {0})
  BY <1>3, <1>4, CutFacts
<1>7. free = held + SumSeq(front) - total
  BY DEF Unscheduled
<1>8. held \in Nat /\ total \in Nat /\ total <= held
  BY <1>1, <1>3, BytesFacts, TotalFacts DEF HeldInv
<1>9. DeviceBytes(f)' = held + SumSeq(front)
  <2>1. /\ DeviceBytes(f)' = SumSeq(device'[f]) + frag[f].size - frag[f].sent
        /\ held = SumSeq(device[f]) + frag[f].size - frag[f].sent
    BY DEF DeviceBytes
  <2>2. SumSeq(device[f]) \in Nat /\ frag[f].size \in Nat /\ frag[f].sent \in Nat
    BY <1>1, BytesFacts DEF QueuesTyped
  <2> HIDE DEF front, held
  <2>3. SumSeq(device[f] \o front) = SumSeq(device[f]) + SumSeq(front)
    BY <1>3, <1>6, SizesFacts, SumConcat
  <2> QED BY <1>2, <1>6, <2>1, <2>2, <2>3
<1>10. ASSUME moved = 0 PROVE SumSeq(front) = 0
  <2>1. front = <<>>
    BY <1>3, <1>6, <1>10, CutFacts, EmptySeq
  <2> QED BY <2>1, SumEmpty
<1>11. ASSUME moved > 0
       PROVE  \E size \in Sizes : size > 0 /\ held + SumSeq(front) - total < bytes + size
  <2> DEFINE size == aqm[f][moved]
             less == SumSeq(SubSeq(aqm[f], 1, moved - 1))
  <2>1. moved \in 1 .. Len(aqm[f])
    BY <1>3, <1>4, <1>11
  <2>2. size \in Sizes
    BY <1>3, <2>1
  <2>3. SumSeq(front) = less + size /\ less \in Nat /\ size \in Nat \ {0}
    BY <1>3, <2>1, OneMoreMoved
  <2>4. ~ (bytes <= held + less - total)
    BY <1>4, <1>11 DEF Unscheduled
  <2> HIDE DEF size, less, front, held, total
  <2>5. size > 0 /\ held + SumSeq(front) - total < bytes + size
    BY <1>8, <2>3, <2>4
  <2> QED BY <2>2, <2>5
<1>12. burst \in {bytes, free} /\ burst <= bytes /\ burst <= free /\ free \in Nat
  <2>1. free \in Nat
    BY <1>6, <1>7, <1>8
  <2> HIDE DEF free
  <2> QED BY <2>1, MinOfTwo
<1> HIDE DEF free, burst, front, held, pipe
<1>13. TotalOf(transmitPipeline'[f]) = total + burst
  <2>1. CASE burst > 0
    <3>1. new \in Grants /\ new.bytes = burst
      BY <1>12, <2>1, ConstantFacts DEF Grants
    <3> HIDE DEF new
    <3>2. Append(pipe, new) \in Seq(Grants) /\ GrantBytes[new] = burst
      BY <1>3, <3>1, AppendProperties, BytesAreWeights
    <3>3. TotalWeight(Append(pipe, new), GrantBytes) = TotalWeight(pipe, GrantBytes) + GrantBytes[new]
      BY <1>3, <3>1, BytesAreWeights, WeightAppend
    <3>4. TotalOf(Append(pipe, new)) = total + burst
      BY <1>3, <3>2, <3>3, TotalFacts
    <3> QED BY <1>2, <2>1, <3>4
  <2>2. CASE ~ (burst > 0)
    <3>1. burst = 0
      BY <1>12, <2>2
    <3> QED BY <1>2, <1>8, <2>2, <3>1
  <2> QED BY <2>1, <2>2
<1> HIDE DEF total
<1>14. held = 0 \/ \E size \in Sizes : held < total + size
  BY DEF Spare, held, total, pipe
<1>15. \A size \in Sizes : size \in Nat \ {0}
  BY TrafficAssumption
<1>16. held + SumSeq(front) = 0
         \/ \E size \in Sizes : held + SumSeq(front) < total + burst + size
  <2>1. CASE moved = 0
    <3>1. SumSeq(front) = 0
      BY <1>10, <2>1
    <3> QED BY <1>8, <1>12, <1>14, <1>15, <3>1
  <2>2. CASE moved # 0
    <3>1. PICK size \in Sizes : size > 0 /\ held + SumSeq(front) - total < bytes + size
      BY <1>3, <1>4, <1>11, <2>2
    <3>2. held + SumSeq(front) < total + burst + size
      BY <1>6, <1>7, <1>8, <1>12, <1>15, <3>1
    <3> QED BY <3>2
  <2> QED BY <2>1, <2>2
<1> QED BY <1>5, <1>9, <1>13, <1>16 DEF Spare

\* Frames send what bursts hold.
LEMMA SendSpare ==
  ASSUME UpstreamInv, NEW f \in Flows, \A g \in Flows : Spare(g), NEW allocated \in Nat,
         SendFrameFrom(f, allocated), aqm' = aqm, grantPipeline' = grantPipeline
  PROVE  \A g \in Flows : Spare(g)'
<1>1. QueuesTyped /\ HeldInv
  BY DEF UpstreamInv
<1>2. /\ \A g \in Flows : g # f => /\ Unsent(g)' = Unsent(g)
                                   /\ transmitPipeline'[g] = transmitPipeline[g]
      /\ \E m \in 0 .. TotalOf(transmitPipeline[f]) :
           /\ Unsent(f)' = Unsent(f) - m
           /\ TotalOf(transmitPipeline'[f]) = TotalOf(transmitPipeline[f]) - m
  BY TransmitFacts
<1>3. QueuesTyped'
  BY TransmitFacts
<1>4. ASSUME NEW g \in Flows
      PROVE  /\ AqmBytes(g)' = AqmBytes(g) /\ AqmBytes(g) \in Nat /\ DeviceBytes(g) \in Nat
             /\ Unsent(g)' = AqmBytes(g) + DeviceBytes(g)' /\ DeviceBytes(g)' \in Int
             /\ Unsent(g) = AqmBytes(g) + DeviceBytes(g)
             /\ TotalOf(transmitPipeline[g]) \in Nat
             /\ TotalOf(transmitPipeline[g]) <= DeviceBytes(g)
  <2>1. AqmBytes(g)' = AqmBytes(g) /\ Unsent(g)' = AqmBytes(g)' + DeviceBytes(g)'
    BY DEF AqmBytes, Unsent
  <2>2. AqmBytes(g) \in Nat /\ DeviceBytes(g) \in Nat /\ Unsent(g) = AqmBytes(g) + DeviceBytes(g)
    BY <1>1, BytesFacts
  <2>3. DeviceBytes(g)' \in Int
    <3>1. DeviceBytes(g)' = SumSeq(device'[g]) + frag'[g].size - frag'[g].sent
      BY DEF DeviceBytes
    <3>2. device'[g] \in Seq(Nat \ {0}) /\ frag'[g].size \in Nat /\ frag'[g].sent \in Nat
      BY <1>3 DEF QueuesTyped
    <3>3. SumSeq(device'[g]) \in Nat
      BY <3>2, SizesFacts
    <3> QED BY <3>1, <3>2, <3>3
  <2>4. TotalOf(transmitPipeline[g]) \in Nat /\ TotalOf(transmitPipeline[g]) <= DeviceBytes(g)
    BY <1>1, TotalFacts DEF QueuesTyped, HeldInv
  <2> QED BY <2>1, <2>2, <2>3, <2>4
<1>5. ASSUME NEW g \in Flows, NEW m \in Nat, Unsent(g)' = Unsent(g) - m
      PROVE  DeviceBytes(g)' = DeviceBytes(g) - m
  <2>1. /\ Unsent(g)' = AqmBytes(g) + DeviceBytes(g)' /\ AqmBytes(g) \in Nat
        /\ Unsent(g) = AqmBytes(g) + DeviceBytes(g)
        /\ DeviceBytes(g) \in Nat /\ DeviceBytes(g)' \in Int
    BY <1>4
  <2>2. AqmBytes(g) + DeviceBytes(g)' = (AqmBytes(g) + DeviceBytes(g)) - m
    BY <1>5, <2>1
  <2> QED BY <2>1, <2>2
<1>6. ASSUME NEW g \in Flows PROVE Spare(g)'
  <2> DEFINE held == DeviceBytes(g)
             total == TotalOf(transmitPipeline[g])
             after == DeviceBytes(g)'
             left == TotalOf(transmitPipeline'[g])
  <2>1. \E m \in 0..total : after = held - m /\ left = total - m
    <3>1. CASE g = f
      <4>1. PICK m \in 0..total : Unsent(g)' = Unsent(g) - m /\ left = total - m
        BY <1>2, <3>1
      <4>2. m \in Nat
        BY <1>4, <4>1
      <4>3. after = held - m
        BY <1>5, <4>1, <4>2
      <4> QED BY <4>1, <4>3
    <3>2. CASE g # f
      <4>1. Unsent(g)' = Unsent(g) /\ transmitPipeline'[g] = transmitPipeline[g]
        BY <1>2, <3>2
      <4>2. left = total /\ total \in Nat /\ held \in Nat /\ Unsent(g) = AqmBytes(g) + held
            /\ AqmBytes(g) \in Nat
        BY <1>4, <4>1
      <4> HIDE DEF left, total
      <4>3. Unsent(g)' = Unsent(g) - 0
        BY <4>1, <4>2
      <4>4. after = held - 0
        BY <1>5, <4>3
      <4>5. 0 \in 0..total /\ left = total - 0
        BY <4>2
      <4> QED BY <4>4, <4>5
    <3> QED BY <3>1, <3>2
  <2>2. held = 0 \/ \E size \in Sizes : held < total + size
    BY DEF Spare
  <2>3. held \in Nat /\ total \in Nat /\ total <= held
    BY <1>4
  <2>4. aqm'[g] \in Seq(Sizes)
    BY DEF Spare
  <2> HIDE DEF held, total, after, left
  <2>5. after = 0 \/ \E size \in Sizes : after < left + size
    BY <2>1, <2>2, <2>3, TrafficAssumption
  <2> QED BY <2>4, <2>5 DEF Spare, after, left
<1> QED BY <1>6

\* Every step keeps what is spare below a packet.
LEMMA StepSpared == UpstreamInv /\ Spared /\ [Next]_vars => Spared'
<1> SUFFICES ASSUME UpstreamInv, Spared, [Next]_vars PROVE Spared'
  OBVIOUS
<1>1. \A f \in Flows : Spare(f)
  BY DEF Spared
<1>2. ASSUME aqm' = aqm, device' = device, frag' = frag, transmitPipeline' = transmitPipeline
      PROVE  Spared'
  <2>1. ASSUME NEW f \in Flows PROVE Spare(f)'
    BY <1>1, <1>2, SameSpare
  <2> QED BY <2>1 DEF Spared
<1>3. CASE UNCHANGED vars
  BY <1>2, <1>3 DEF vars, queues, pipelines
<1>4. CASE AdvanceTime
  <2> DEFINE t == Head(agenda).in
  <2>1. /\ aqm' = aqm /\ device' = device /\ frag' = frag
        /\ transmitPipeline' = [f \in Flows |-> Aged(transmitPipeline[f], t)]
        /\ agenda # <<>>
    BY <1>4 DEF AdvanceTime, queues
  <2>2. t \in Nat
    BY <2>1, LaterAgrees DEF UpstreamInv, AgendaInv
  <2> HIDE DEF t
  <2>3. ASSUME NEW f \in Flows PROVE Spare(f)'
    <3>1. transmitPipeline[f] \in Seq(Grants)
      BY PipesTyped
    <3>2. TotalOf(Aged(transmitPipeline[f], t)) = TotalOf(transmitPipeline[f])
      BY <2>2, <3>1, AgedTotal
    <3>3. TotalOf(transmitPipeline'[f]) = TotalOf(transmitPipeline[f])
      BY <2>1, <3>2
    <3> QED BY <1>1, <2>1, <3>3, SameSpare
  <2> QED BY <2>3 DEF Spared
<1>5. ASSUME NEW layout \in Layouts, GenerateMap(layout) PROVE Spared'
  BY <1>2, <1>5 DEF GenerateMap, queues, pipelines
<1>6. CASE HandleMapMsg
  BY <1>2, <1>6 DEF HandleMapMsg, queues
<1>7. ASSUME NEW f \in Flows, FlowStep(f) PROVE Spared'
  <2>1. CASE MakeRequest(f)
    BY <1>2, <2>1 DEF MakeRequest, queues
  <2>2. CASE ReceiveRequest(f)
    BY <1>2, <2>2 DEF ReceiveRequest, queues, pipelines
  <2>3. CASE LoadMapState(f)
    BY <1>2, <2>3 DEF LoadMapState, queues, pipelines
  <2>4. CASE DumpGrant(f)
    BY <1>2, <2>4 DEF DumpGrant, queues, pipelines
  <2>5. CASE PrepareBurst(f)
    <3> DEFINE bytes == MinislotsToBytes(Arg.n)
    <3>1. Due("PrepareBurst") /\ PrepareBurstFrom(f, bytes) /\ frag' = frag
      BY <2>5 DEF PrepareBurst, DueFor, PrepareBurstFromCQueue, PrepareBurstFromLQueue
    <3>2. bytes \in Nat \ {0}
      <4>1. Head(agenda) \in BurstsDue
        BY <3>1, FrontFacts, EventFacts
      <4>2. Arg.n \in 1..MinislotsPerMap
        BY <4>1 DEF BurstsDue, EventsOf, FlowArgs, Arg
      <4>3. Arg.n \in Nat /\ Arg.n # 0
        BY <4>2
      <4> QED BY <4>3, MinislotFacts
    <3> HIDE DEF bytes
    <3>3. Spare(f)'
      BY <1>1, <3>1, <3>2, BurstSpare
    <3>4. ASSUME NEW g \in Flows, g # f PROVE Spare(g)'
      <4>1. /\ aqm'[g] = aqm[g] /\ device'[g] = device[g] /\ frag'[g] = frag[g]
            /\ transmitPipeline'[g] = transmitPipeline[g]
        BY <3>1, <3>4 DEF PrepareBurstFrom, UpstreamInv, PerFlow
      <4> QED BY <1>1, <4>1, SameSpare
    <3> QED BY <3>3, <3>4 DEF Spared
  <2>6. CASE SendFrame(f)
    <3> DEFINE allocated == MinislotsToBytes(Arg.n)
    <3>1. /\ Due("SendFrame") /\ SendFrameFrom(f, allocated) /\ aqm' = aqm
          /\ grantPipeline' = grantPipeline
      BY <2>6 DEF SendFrame, DueFor, SendFrameFromCQueue, SendFrameFromLQueue
    <3>2. allocated \in Nat
      <4>1. Head(agenda) \in FramesDue
        BY <3>1, FrontFacts, EventFacts
      <4>2. Arg.n \in Nat
        BY <4>1 DEF FramesDue, EventsOf, FlowArgs, Arg
      <4> QED BY <4>2, MinislotFacts
    <3> HIDE DEF allocated
    <3> QED BY <1>1, <3>1, <3>2, SendSpare DEF Spared
  <2> QED BY <1>7, <2>1, <2>2, <2>3, <2>4, <2>5, <2>6 DEF FlowStep
<1>8. ASSUME NEW f \in Flows, NEW size \in Sizes, SendFrom(f, size) PROVE Spared'
  <2>1. /\ aqm' = [aqm EXCEPT ![f] = Append(@, size)] /\ DOMAIN aqm = Flows
        /\ device' = device /\ frag' = frag /\ transmitPipeline' = transmitPipeline
    BY <1>8 DEF SendFrom, pipelines, UpstreamInv, PerFlow
  <2>2. ASSUME NEW g \in Flows PROVE Spare(g)'
    <3>1. DeviceBytes(g)' = DeviceBytes(g)
      BY <2>1 DEF DeviceBytes
    <3>2. aqm'[g] \in Seq(Sizes)
      <4>1. aqm[g] \in Seq(Sizes)
        BY <1>1 DEF Spare
      <4>2. Append(aqm[g], size) \in Seq(Sizes)
        BY <4>1, AppendProperties
      <4> QED BY <2>1, <4>1, <4>2
    <3> QED BY <1>1, <2>1, <3>1, <3>2 DEF Spare
  <2> QED BY <2>2 DEF Spared
<1> QED BY <1>3, <1>4, <1>5, <1>6, <1>7, <1>8 DEF Next, Simulate

\* Nothing is held at the start.
LEMMA StartSpared == Init => Spared
<1> SUFFICES ASSUME Init, NEW f \in Flows PROVE Spare(f)
  BY DEF Spared
<1>1. aqm[f] = <<>> /\ device[f] = <<>> /\ frag[f] = [size |-> 0, sent |-> 0]
  BY DEF Init, ForAllFlows, NoFragment
<1>2. DeviceBytes(f) = 0
  BY <1>1, SumEmpty DEF DeviceBytes
<1> QED BY <1>1, <1>2 DEF Spare

-----------------------------------------------------------------------------
(* Frames of a flow follow each other at their distance.                   *)

\* A frame of the flow is a frame away from its others, and ends before what is
\* described by a MAP that is still to come.
Clear(d, e, f) ==
  d \in FramesOf(f) =>
    /\ e \in FramesOf(f) => d.in + FrameTicks <= e.in \/ e.in + FrameTicks <= d.in
    /\ ToCome(e) => d.in + FrameTicks <= Begins(e)

\* So do all of a list, and none sends more than the minislots of a frame.
Paced(list, f) ==
  /\ \A i \in 1 .. Len(list) : list[i] \in FramesOf(f) => list[i].arg.n <= MinislotsPerFrame
  /\ \A i, j \in 1 .. Len(list) : i # j => Clear(list[i], list[j], f)

\* Events that are neither frames of the flow nor MAPs.
Neutral(list, f) == \A i \in 1 .. Len(list) : list[i] \notin FramesOf(f) /\ ~ ToCome(list[i])

\* All elements of a list are clear of all of another.
AllClear(s, t, f) ==
  \A i \in 1 .. Len(s), j \in 1 .. Len(t) : Clear(s[i], t[j], f) /\ Clear(t[j], s[i], f)

\* Neutral events are in the way of no frame.
LEMMA NeutralPaced ==
  ASSUME NEW s, NEW t, NEW f, Neutral(t, f)
  PROVE  Paced(t, f) /\ AllClear(s, t, f)
BY DEF Neutral, Paced, AllClear, Clear

\* The rest of a list.
LEMMA PacedRest ==
  ASSUME NEW list \in Seq(Events), list # <<>>, NEW f, Paced(list, f)
  PROVE  Paced(Tail(list), f)
<1>1. /\ Len(list) \in Nat /\ Len(Tail(list)) = Len(list) - 1
      /\ \A i \in 1 .. Len(Tail(list)) : Tail(list)[i] = list[i + 1]
  BY HeadTailProperties, LenProperties
<1>2. ASSUME NEW i \in 1 .. Len(Tail(list))
      PROVE  i + 1 \in 1 .. Len(list) /\ Tail(list)[i] = list[i + 1]
  BY <1>1
<1>3. ASSUME NEW i \in 1 .. Len(Tail(list)), Tail(list)[i] \in FramesOf(f)
      PROVE  Tail(list)[i].arg.n <= MinislotsPerFrame
  BY <1>2, <1>3 DEF Paced
<1>4. ASSUME NEW i \in 1 .. Len(Tail(list)), NEW j \in 1 .. Len(Tail(list)), i # j
      PROVE  Clear(Tail(list)[i], Tail(list)[j], f)
  <2>1. i + 1 # j + 1
    BY <1>4
  <2> QED BY <1>2, <2>1 DEF Paced
<1> QED BY <1>3, <1>4 DEF Paced

\* Time passes for all of them.
LEMMA PacedLater ==
  ASSUME NEW list \in Seq(Events), NEW later \in Seq(Events), Len(later) = Len(list),
         NEW t \in Nat,
         \A i \in 1 .. Len(list) :
           /\ later[i].in = list[i].in - t /\ later[i].event = list[i].event
           /\ later[i].arg = list[i].arg,
         NEW f, Paced(list, f)
  PROVE  Paced(later, f)
<1>1. ASSUME NEW i \in 1 .. Len(list)
      PROVE  /\ later[i].in = list[i].in - t /\ later[i].arg = list[i].arg
             /\ later[i] \in FramesOf(f) <=> list[i] \in FramesOf(f)
             /\ ToCome(later[i]) <=> ToCome(list[i])
             /\ Begins(later[i]) = Begins(list[i]) - t
             /\ list[i].in \in Nat /\ Begins(list[i]) \in Nat
  <2> DEFINE d == list[i]
             e == later[i]
  <2>1. d \in Events /\ e \in Events
    BY ElementOfSeq
  <2>2. e.in = d.in - t /\ e.event = d.event /\ e.arg = d.arg
    OBVIOUS
  <2> HIDE DEF d, e
  <2>3. e \in FramesOf(f) <=> d \in FramesOf(f)
    BY <2>1, <2>2, KindFacts
  <2>4. ToCome(e) <=> ToCome(d)
    BY <2>2 DEF ToCome
  <2>5. d.in \in Nat
    BY <2>1, EventFacts
  <2>6. Begins(e) = Begins(d) - t /\ Begins(d) \in Nat
    BY <2>2, <2>5, ConstantFacts DEF Begins
  <2> QED BY <2>2, <2>3, <2>4, <2>5, <2>6 DEF d, e
<1>2. ASSUME NEW i \in 1 .. Len(list), later[i] \in FramesOf(f)
      PROVE  later[i].arg.n <= MinislotsPerFrame
  BY <1>1, <1>2 DEF Paced
<1>3. ASSUME NEW i \in 1 .. Len(list), NEW j \in 1 .. Len(list), i # j
      PROVE  Clear(later[i], later[j], f)
  <2>1. Clear(list[i], list[j], f)
    BY <1>3 DEF Paced
  <2> DEFINE x == list[i].in
             y == list[j].in
             z == Begins(list[j])
  <2>2. FrameTicks \in Nat /\ x \in Nat /\ y \in Nat /\ z \in Nat
    BY <1>1, ConstantFacts
  <2>3. /\ later[i].in = x - t /\ later[j].in = y - t /\ Begins(later[j]) = z - t
        /\ later[i] \in FramesOf(f) <=> list[i] \in FramesOf(f)
        /\ later[j] \in FramesOf(f) <=> list[j] \in FramesOf(f)
        /\ ToCome(later[j]) <=> ToCome(list[j])
    BY <1>1
  <2>4. list[i] \in FramesOf(f) =>
          /\ list[j] \in FramesOf(f) => x + FrameTicks <= y \/ y + FrameTicks <= x
          /\ ToCome(list[j]) => x + FrameTicks <= z
    BY <2>1 DEF Clear
  <2> HIDE DEF x, y, z
  <2>5. /\ x + FrameTicks <= y => (x - t) + FrameTicks <= y - t
        /\ y + FrameTicks <= x => (y - t) + FrameTicks <= x - t
        /\ x + FrameTicks <= z => (x - t) + FrameTicks <= z - t
    BY <2>2
  <2> QED BY <2>3, <2>4, <2>5 DEF Clear
<1> QED BY <1>2, <1>3 DEF Paced

\* Two lists that are clear of each other, merged.
LEMMA PacedMerged ==
  ASSUME NEW old, NEW new, NEW events, NEW a, NEW b, Len(old) \in Nat, Len(events) \in Nat,
         Merged(new, old, events, Len(events), a, b), NEW f,
         Paced(old, f), Paced(events, f), AllClear(old, events, f)
  PROVE  Paced(new, f)
<1> DEFINE n == Len(old)
           m == Len(events)
<1>1. ASSUME NEW p \in 1 .. Len(new)
      PROVE  \/ \E i \in 1..n : p = a[i] /\ new[p] = old[i]
             \/ \E j \in 1..m : p = b[j] /\ new[p] = events[j]
  <2>1. (\E i \in 1..n : p = a[i]) \/ (\E j \in 1..m : p = b[j])
    BY DEF Merged
  <2>2. \A i \in 1..n : new[a[i]] = old[i]
    BY DEF Merged
  <2>3. \A j \in 1..m : new[b[j]] = events[j]
    BY DEF Merged
  <2> HIDE DEF n, m
  <2> QED BY <2>1, <2>2, <2>3
<1>2. /\ \A i, j \in 1..n : i # j => Clear(old[i], old[j], f)
      /\ \A i, j \in 1..m : i # j => Clear(events[i], events[j], f)
      /\ \A i \in 1..n, j \in 1..m : Clear(old[i], events[j], f) /\ Clear(events[j], old[i], f)
      /\ \A i \in 1..n : old[i] \in FramesOf(f) => old[i].arg.n <= MinislotsPerFrame
      /\ \A i \in 1..m : events[i] \in FramesOf(f) => events[i].arg.n <= MinislotsPerFrame
  BY DEF Paced, AllClear
<1> HIDE DEF n, m
<1>3. ASSUME NEW p \in 1 .. Len(new), new[p] \in FramesOf(f)
      PROVE  new[p].arg.n <= MinislotsPerFrame
  BY <1>1, <1>2, <1>3
<1>4. ASSUME NEW p \in 1 .. Len(new), NEW q \in 1 .. Len(new), p # q
      PROVE  Clear(new[p], new[q], f)
  <2>1. CASE (\E i \in 1..n : p = a[i] /\ new[p] = old[i])
               /\ (\E j \in 1..n : q = a[j] /\ new[q] = old[j])
    BY <1>2, <1>4, <2>1
  <2>2. CASE (\E i \in 1..n : p = a[i] /\ new[p] = old[i])
               /\ (\E j \in 1..m : q = b[j] /\ new[q] = events[j])
    BY <1>2, <2>2
  <2>3. CASE (\E i \in 1..m : p = b[i] /\ new[p] = events[i])
               /\ (\E j \in 1..n : q = a[j] /\ new[q] = old[j])
    BY <1>2, <2>3
  <2>4. CASE (\E i \in 1..m : p = b[i] /\ new[p] = events[i])
               /\ (\E j \in 1..m : q = b[j] /\ new[q] = events[j])
    BY <1>2, <1>4, <2>4
  <2> QED BY <1>1, <2>1, <2>2, <2>3, <2>4
<1> QED BY <1>3, <1>4 DEF Paced

\* Two lists that are clear of each other, one after the other.
LEMMA PacedConcat ==
  ASSUME NEW s \in Seq(Events), NEW t \in Seq(Events), NEW f,
         Paced(s, f), Paced(t, f), AllClear(s, t, f)
  PROVE  s \o t \in Seq(Events) /\ Paced(s \o t, f)
<1> DEFINE both == s \o t
           x == Len(s)
           y == Len(t)
<1>1. /\ both \in Seq(Events) /\ x \in Nat /\ y \in Nat /\ Len(both) = x + y
      /\ \A i \in 1 .. x + y : both[i] = IF i <= x THEN s[i] ELSE t[i - x]
  BY ConcatProperties, LenProperties
<1>2. /\ \A i, j \in 1..x : i # j => Clear(s[i], s[j], f)
      /\ \A i, j \in 1..y : i # j => Clear(t[i], t[j], f)
      /\ \A i \in 1..x, j \in 1..y : Clear(s[i], t[j], f) /\ Clear(t[j], s[i], f)
      /\ \A i \in 1..x : s[i] \in FramesOf(f) => s[i].arg.n <= MinislotsPerFrame
      /\ \A i \in 1..y : t[i] \in FramesOf(f) => t[i].arg.n <= MinislotsPerFrame
  BY DEF Paced, AllClear
<1> HIDE DEF both, x, y
<1>3. ASSUME NEW i \in 1 .. x + y
      PROVE  \/ i \in 1..x /\ both[i] = s[i]
             \/ i - x \in 1..y /\ both[i] = t[i - x] /\ i \notin 1..x
  <2>1. CASE i <= x
    BY <1>1, <2>1
  <2>2. CASE ~ (i <= x)
    <3>1. i - x \in 1..y /\ i \notin 1..x
      BY <1>1, <2>2
    <3> QED BY <1>1, <2>2, <3>1
  <2> QED BY <2>1, <2>2
<1>4. ASSUME NEW i \in 1 .. x + y, both[i] \in FramesOf(f)
      PROVE  both[i].arg.n <= MinislotsPerFrame
  BY <1>2, <1>3, <1>4
<1>5. ASSUME NEW i \in 1 .. x + y, NEW j \in 1 .. x + y, i # j
      PROVE  Clear(both[i], both[j], f)
  <2>0. i - x # j - x
    BY <1>1, <1>5
  <2>1. CASE i \in 1..x /\ j \in 1..x
    BY <1>2, <1>3, <1>5, <2>1
  <2>2. CASE i \in 1..x /\ j \notin 1..x
    <3>1. both[i] = s[i] /\ j - x \in 1..y /\ both[j] = t[j - x]
      BY <1>3, <2>2
    <3> QED BY <1>2, <2>2, <3>1
  <2>3. CASE i \notin 1..x /\ j \in 1..x
    <3>1. both[j] = s[j] /\ i - x \in 1..y /\ both[i] = t[i - x]
      BY <1>3, <2>3
    <3> QED BY <1>2, <2>3, <3>1
  <2>4. CASE i \notin 1..x /\ j \notin 1..x
    <3>1. i - x \in 1..y /\ both[i] = t[i - x] /\ j - x \in 1..y /\ both[j] = t[j - x]
      BY <1>3, <2>4
    <3> QED BY <1>2, <2>0, <3>1
  <2> QED BY <2>1, <2>2, <2>3, <2>4
<1>6. Paced(both, f)
  BY <1>1, <1>4, <1>5 DEF Paced
<1> QED BY <1>1, <1>6 DEF both

\* Neutral events join a list.
LEMMA PacedNeutral ==
  ASSUME NEW s \in Seq(Events), NEW t \in Seq(Events), NEW f, Neutral(t, f), Paced(s, f)
  PROVE  /\ s \o t \in Seq(Events) /\ t \o s \in Seq(Events)
         /\ Paced(s \o t, f) /\ Paced(t \o s, f)
<1>1. Paced(t, f) /\ AllClear(s, t, f)
  BY NeutralPaced
<1>2. AllClear(t, s, f)
  BY <1>1 DEF AllClear
<1>3. s \o t \in Seq(Events) /\ Paced(s \o t, f)
  BY <1>1, PacedConcat
<1>4. t \o s \in Seq(Events) /\ Paced(t \o s, f)
  BY <1>1, <1>2, PacedConcat
<1> QED BY <1>3, <1>4

\* Lists of neutral events put together.
LEMMA NeutralConcat ==
  ASSUME NEW s \in Seq(Events), NEW t \in Seq(Events), NEW f, Neutral(s, f), Neutral(t, f)
  PROVE  s \o t \in Seq(Events) /\ Neutral(s \o t, f)
<1> DEFINE T == {e \in Events : e \in FramesOf(f) \/ ToCome(e)}
<1>1. Avoids(s, T) /\ Avoids(t, T)
  BY DEF Neutral, Avoids
<1> HIDE DEF T
<1>2. s \o t \in Seq(Events) /\ Avoids(s \o t, T)
  BY <1>1, AvoidsConcat
<1>3. \A i \in 1 .. Len(s \o t) : (s \o t)[i] \in Events
  BY <1>2, ElementOfSeq
<1> QED BY <1>2, <1>3 DEF Neutral, Avoids, T

-----------------------------------------------------------------------------
(* The frames of a MAP.                                                    *)

\* A frame has no more minislots than a frame.
LEMMA AllocationFits ==
  ASSUME NEW grants, NEW k \in Nat
  PROVE  AllocationInFrame(grants, k) \in 0..MinislotsPerFrame
<1> DEFINE a == k * MinislotsPerFrame
           b == (k + 1) * MinislotsPerFrame - 1
           S == {m \in a..b : \E i \in DOMAIN grants :
                   m \in grants[i].offset .. grants[i].offset + grants[i].length - 1}
<1>1. a \in Nat /\ b = a + MinislotsPerFrame - 1 /\ MinislotsPerFrame \in Nat \ {0}
  <2>1. MinislotsPerFrame \in Nat \ {0}
    BY ConstantFacts
  <2>2. a \in Nat
    BY <2>1, ProductFacts
  <2>3. (k + 1) * MinislotsPerFrame = k * MinislotsPerFrame + MinislotsPerFrame
    BY <2>1
  <2> QED BY <2>1, <2>2, <2>3
<1>2. AllocationInFrame(grants, k) = Cardinality(S)
  BY DEF AllocationInFrame
<1> HIDE DEF a, b
<1>3. a \in Int /\ b \in Int /\ b - a + 1 = MinislotsPerFrame /\ ~ (a > b)
  BY <1>1
<1>4. IsFiniteSet(a..b) /\ Cardinality(a..b) = MinislotsPerFrame
  BY <1>3, FS_Interval
<1>5. S \in SUBSET (a..b)
  OBVIOUS
<1> HIDE DEF S
<1>6. IsFiniteSet(S) /\ Cardinality(S) <= Cardinality(a..b)
  BY <1>4, <1>5, FS_Subset
<1>7. Cardinality(S) \in Nat
  BY <1>6, FS_CardinalityType
<1> QED BY <1>1, <1>2, <1>4, <1>6, <1>7

\* Frames of the flow from the processing time on, the last of which is over at
\* a time.
Framed(list, f, end) ==
  /\ list \in Seq(Events) /\ Paced(list, f)
  /\ \A i \in 1 .. Len(list) :
       /\ list[i] \in FramesOf(f) /\ ProcTicks <= list[i].in
       /\ list[i].in + FrameTicks <= end

\* A frame more.
LEMMA FramedMore ==
  ASSUME NEW list, NEW f, NEW start \in Nat, Framed(list, f, start),
         NEW e \in FramesOf(f), e.in = start, ProcTicks <= start, e.arg.n <= MinislotsPerFrame
  PROVE  Framed(list \o <<e>>, f, start + FrameTicks)
<1>1. FrameTicks \in Nat
  BY ConstantFacts
<1>2. e \in Events /\ e.event = "SendFrame" /\ ~ ToCome(e)
  <2>1. e \in FramesDue
    BY DEF FramesOf
  <2>2. e \in Events
    BY <2>1 DEF Events
  <2>3. e.event = "SendFrame"
    BY <2>2, KindFacts
  <2> QED BY <2>2, <2>3 DEF ToCome
<1>3. /\ list \in Seq(Events) /\ Paced(list, f) /\ Len(list) \in Nat
      /\ \A i \in 1 .. Len(list) :
           /\ list[i] \in FramesOf(f) /\ ProcTicks <= list[i].in
           /\ list[i].in + FrameTicks <= start /\ list[i].in \in Nat /\ ~ ToCome(list[i])
  <2>1. /\ list \in Seq(Events) /\ Paced(list, f) /\ Len(list) \in Nat
        /\ \A i \in 1 .. Len(list) :
             /\ list[i] \in FramesOf(f) /\ ProcTicks <= list[i].in
             /\ list[i].in + FrameTicks <= start
    BY LenProperties DEF Framed
  <2>2. ASSUME NEW i \in 1 .. Len(list) PROVE list[i].in \in Nat /\ ~ ToCome(list[i])
    <3>1. list[i] \in Events /\ list[i] \in FramesOf(f)
      BY <2>1, ElementOfSeq
    <3>2. list[i].event = "SendFrame"
      BY <3>1, KindFacts
    <3> QED BY <3>1, <3>2, EventFacts DEF ToCome
  <2> QED BY <2>1, <2>2
<1>4. /\ <<e>> \in Seq(Events) /\ Len(<<e>>) = 1 /\ \A i \in 1..1 : <<e>>[i] = e
  BY <1>2
<1>5. Paced(<<e>>, f)
  BY <1>4 DEF Paced
<1>6. AllClear(list, <<e>>, f)
  <2> SUFFICES ASSUME NEW i \in 1 .. Len(list)
               PROVE  Clear(list[i], e, f) /\ Clear(e, list[i], f)
    BY <1>4 DEF AllClear
  <2> QED BY <1>2, <1>3 DEF Clear
<1>7. list \o <<e>> \in Seq(Events) /\ Paced(list \o <<e>>, f)
  BY <1>3, <1>4, <1>5, <1>6, PacedConcat
<1>8. /\ Len(list \o <<e>>) = Len(list) + 1
      /\ \A i \in 1 .. Len(list) + 1 : (list \o <<e>>)[i] = IF i <= Len(list) THEN list[i] ELSE e
  BY <1>3, <1>4, ConcatProperties
<1>9. ASSUME NEW i \in 1 .. Len(list \o <<e>>)
      PROVE  LET d == (list \o <<e>>)[i]
             IN  d \in FramesOf(f) /\ ProcTicks <= d.in /\ d.in + FrameTicks <= start + FrameTicks
  <2>1. CASE i <= Len(list)
    <3>1. i \in 1 .. Len(list) /\ (list \o <<e>>)[i] = list[i]
      BY <1>3, <1>8, <2>1
    <3> QED BY <1>1, <1>3, <3>1
  <2>2. CASE ~ (i <= Len(list))
    <3>1. (list \o <<e>>)[i] = e
      BY <1>8, <2>2
    <3> QED BY <1>1, <3>1
  <2> QED BY <2>1, <2>2
<1> QED BY <1>7, <1>9 DEF Framed

\* The frames of a MAP follow each other, and each grant begins in one of them.
LEMMA FramesPaced ==
  ASSUME NEW f \in Flows, NEW grants, Placed(grants), Len(grants) > 0
  PROVE  /\ Framed(FrameEvents(f, grants), f, Horizon)
         /\ \A i \in 1 .. Len(grants) : \E j \in 1 .. Len(FrameEvents(f, grants)) :
              FrameEvents(f, grants)[j].in = GrantTime(grants[i])
<1> DEFINE n == FramesPerMap
           event(k) == FlowEvent(ProcTicks + (k - 1) * FrameTicks, "SendFrame", f,
                                 AllocationInFrame(grants, k - 1))
           part(k) == IF AllocationInFrame(grants, k - 1) = 0 THEN <<>> ELSE <<event(k)>>
           parts == [k \in 1..n |-> part(k)]
<1>1. FrameEvents(f, grants) = FlattenSeq(parts)
  BY DEF FrameEvents
<1>2. n \in Nat /\ n > 0
  BY ConstantFacts
<1>3. ASSUME NEW k \in 1..n
      PROVE  /\ k - 1 \in Nat /\ AllocationInFrame(grants, k - 1) \in Nat
             /\ event(k) \in Events /\ event(k) \in FramesOf(f)
             /\ event(k).in = FrameTime(k - 1) /\ event(k).arg.n <= MinislotsPerFrame
             /\ FrameTime(k - 1) \in Nat /\ ProcTicks <= FrameTime(k - 1)
             /\ FrameTime(k) = FrameTime(k - 1) + FrameTicks
  <2>1. k - 1 \in Nat
    BY <1>2
  <2> DEFINE time == ProcTicks + (k - 1) * FrameTicks
  <2>2. time = FrameTime(k - 1) /\ FrameTime(k) = ProcTicks + k * FrameTicks
    BY DEF FrameTime
  <2>3. time \in Nat /\ ProcTicks <= time /\ time + FrameTicks = ProcTicks + k * FrameTicks
    <3>1. FrameTicks \in Nat /\ ProcTicks \in Nat
      BY ConstantFacts
    <3>2. (k - 1) * FrameTicks \in Nat
      BY <2>1, <3>1, ProductFacts
    <3>3. (k - 1) * FrameTicks + FrameTicks = k * FrameTicks
      BY <2>1, <3>1, Z3
    <3> HIDE DEF time
    <3> DEFINE x == (k - 1) * FrameTicks
               y == k * FrameTicks
    <3>4. x \in Nat /\ x + FrameTicks = y /\ time = ProcTicks + x
      BY <3>2, <3>3 DEF time
    <3> HIDE DEF x, y
    <3>5. time \in Nat /\ ProcTicks <= time /\ time + FrameTicks = ProcTicks + y
      BY <3>1, <3>4
    <3> QED BY <3>5 DEF y
  <2>4. AllocationInFrame(grants, k - 1) \in 0..MinislotsPerFrame
    BY <2>1, AllocationFits
  <2> HIDE DEF time
  <2>5. AllocationInFrame(grants, k - 1) \in Nat /\ AllocationInFrame(grants, k - 1) <= MinislotsPerFrame
    BY <2>4, ConstantFacts
  <2>6. FlowEvent(time, "SendFrame", f, AllocationInFrame(grants, k - 1)) \in FramesDue
    BY <2>3, <2>5 DEF FlowEvent, Event, FramesDue, EventsOf, FlowArgs
  <2>7. /\ event(k) \in FramesDue /\ event(k).in = time /\ event(k).arg.sfid = f
        /\ event(k).arg.n = AllocationInFrame(grants, k - 1)
    BY <2>6 DEF time, FlowEvent, Event
  <2> HIDE DEF event
  <2> QED BY <2>1, <2>2, <2>3, <2>5, <2>7 DEF FramesOf, Events
<1> HIDE DEF event
<1>4. ASSUME NEW k \in 1..n PROVE part(k) \in Seq(Events)
  BY <1>3
<1>5. parts \in Seq(Seq(Events)) /\ Len(parts) = n /\ DOMAIN parts = 1..n
        /\ \A k \in 1..n : parts[k] = part(k)
  <2> HIDE DEF part, n
  <2>1. parts \in [1..n -> Seq(Events)] /\ \A k \in 1..n : parts[k] = part(k)
    BY <1>4
  <2> QED BY <2>1, <1>2, SeqDef, LenProperties
<1> HIDE DEF parts
<1>6. PICK F : Flattened(Events, parts, n, F) /\ FlattenSeq(parts) = F[n]
  BY <1>2, <1>5, FlattenSteps
<1>7. F[0] = <<>> /\ \A k \in 1..n : F[k] = F[k - 1] \o part(k)
  BY <1>5, <1>6 DEF Flattened
<1> HIDE DEF part
<1>8. Framed(F[n], f, FrameTime(n))
  <2> DEFINE T == {k \in 0..n : Framed(F[k], f, FrameTime(k))}
  <2>1. 0 \in T
    <3>1. Len(<<>>) = 0 /\ <<>> \in Seq(Events) /\ 0 \in 0..n
      BY <1>2
    <3>2. Framed(<<>>, f, FrameTime(0))
      BY <3>1 DEF Framed, Paced
    <3> QED BY <1>7, <3>1, <3>2
  <2>2. ASSUME NEW k \in 1..n, k - 1 \in T PROVE k \in T
    <3>1. Framed(F[k - 1], f, FrameTime(k - 1)) /\ k \in 0..n
      BY <1>2, <2>2
    <3>2. F[k - 1] \in Seq(Events) /\ FrameTicks \in Nat
      BY <3>1, ConstantFacts DEF Framed
    <3>3. CASE part(k) = <<>>
      <4>1. F[k] = F[k - 1]
        BY <1>7, <3>2, <3>3, ConcatEmptySeq
      <4>2. ASSUME NEW i \in 1 .. Len(F[k - 1]) PROVE F[k - 1][i].in + FrameTicks <= FrameTime(k)
        <5>1. F[k - 1][i] \in Events /\ F[k - 1][i].in + FrameTicks <= FrameTime(k - 1)
          BY <3>1, <3>2, ElementOfSeq DEF Framed
        <5>2. F[k - 1][i].in \in Nat
          BY <5>1, EventFacts
        <5> QED BY <1>3, <3>2, <5>1, <5>2
      <4>3. Framed(F[k], f, FrameTime(k))
        BY <3>1, <4>1, <4>2 DEF Framed
      <4> QED BY <3>1, <4>3
    <3>4. CASE part(k) # <<>>
      <4>1. part(k) = <<event(k)>>
        BY <3>4 DEF part
      <4>2. F[k] = F[k - 1] \o <<event(k)>>
        BY <1>7, <4>1
      <4>3. Framed(F[k - 1] \o <<event(k)>>, f, FrameTime(k - 1) + FrameTicks)
        BY <1>3, <3>1, FramedMore
      <4>4. Framed(F[k], f, FrameTime(k))
        BY <1>3, <4>2, <4>3
      <4> QED BY <3>1, <4>4
    <3> QED BY <3>3, <3>4
  <2> HIDE DEF T
  <2>3. n \in T
    BY <1>2, <2>1, <2>2, CountUp
  <2> QED BY <2>3 DEF T
<1>9. FrameTime(n) = Horizon
  BY DEF FrameTime, Horizon, MapInterval
<1>10. ASSUME NEW i \in 1 .. Len(grants)
       PROVE  \E j \in 1 .. Len(F[n]) : F[n][j].in = GrantTime(grants[i])
  <2> DEFINE k == GetFrameForMinislot(grants[i].offset)
  <2>1. DOMAIN grants = 1 .. Len(grants)
    BY GrantFacts
  <2>2. /\ grants[i].offset \in Nat /\ grants[i].offset < MinislotsPerMap
        /\ grants[i].length \in Nat \ {0}
    BY GrantFacts
  <2>3. /\ k \in 0 .. n - 1
        /\ grants[i].offset \in k * MinislotsPerFrame .. (k + 1) * MinislotsPerFrame - 1
    BY <2>2, FrameFacts
  <2>4. GrantTime(grants[i]) = FrameTime(k)
    BY DEF GrantTime, FrameTime
  <2> HIDE DEF k
  <2>5. k + 1 \in 1..n /\ (k + 1) - 1 = k /\ k \in Nat
    BY <1>2, <2>3
  <2>6. AllocationInFrame(grants, k) # 0
    BY <2>1, <2>2, <2>3, <2>5, AllocationFacts
  <2>7. parts[k + 1] = <<event(k + 1)>>
    <3>1. part(k + 1) = <<event(k + 1)>>
      BY <2>5, <2>6 DEF part
    <3> QED BY <1>5, <2>5, <3>1
  <2>8. Len(parts[k + 1]) = 1 /\ parts[k + 1][1] = event(k + 1) /\ event(k + 1).in = FrameTime(k)
    BY <1>3, <2>5, <2>7
  <2>9. StandsIn(parts, n, F, k + 1)
    <3>1. k + 1 \in 1 .. Len(parts) /\ Flattened(Events, parts, Len(parts), F)
      BY <1>5, <1>6, <2>5
    <3> QED BY <1>5, <3>1, FlattenParts
  <2> DEFINE p == Len(F[(k + 1) - 1])
  <2>10. /\ p \in Nat /\ Len(F[k + 1]) = p + 1 /\ Len(F[k + 1]) <= Len(F[n]) /\ Len(F[n]) \in Nat
         /\ F[n][p + 1] = event(k + 1)
    BY <2>8, <2>9 DEF StandsIn
  <2> HIDE DEF p
  <2>11. p + 1 \in 1 .. Len(F[n])
    BY <2>10
  <2> QED BY <2>4, <2>8, <2>10, <2>11
<1> QED BY <1>1, <1>6, <1>8, <1>9, <1>10

-----------------------------------------------------------------------------
(* The events of a MAP.                                                    *)

\* Events made for the flow but for its frames.
LEMMA MadeNeutral ==
  ASSUME NEW f \in Flows, NEW list \in Seq(MadeFor(f)), NEW g,
         f # g \/ Avoids(list, FramesOf(g))
  PROVE  list \in Seq(Events) /\ Neutral(list, g)
<1>1. list \in Seq(Events)
  BY MadeList
<1>2. ASSUME NEW i \in 1 .. Len(list) PROVE list[i] \notin FramesOf(g) /\ ~ ToCome(list[i])
  <2>1. list[i] \in MadeFor(f)
    BY ElementOfSeq
  <2>2. ~ ToCome(list[i]) /\ list[i] \in Events
    BY <2>1, MadeFacts
  <2>3. CASE f # g
    BY <2>1, <2>2, <2>3 DEF MadeFor, FramesOf
  <2>4. CASE f = g
    BY <2>2, <2>4 DEF Avoids
  <2> QED BY <2>2, <2>3, <2>4
<1> QED BY <1>1, <1>2 DEF Neutral

\* A flow's grants are dumped at these times.
DumpedAt(list, f, u) == \E i \in 1 .. Len(list) : list[i] \in DumpsOf(f) /\ list[i].in = u

\* From a grant's first frame to the dump of its MAP it takes at most the rest of
\* the MAP.
LastAfter == (MapInterval - FrameTicks) + 1
Follow(list, granted, f) ==
  \A k \in 1 .. Len(granted) :
    \E u \in Nat : DumpedAt(list, f, u) /\ granted[k].in < u /\ u <= granted[k].in + LastAfter

\* So it does from the burst of what is prepared, and nothing prepared is for a
\* frame behind that dump.
Await(list, prepared, f) ==
  prepared = <<>> \/
    \E u \in Nat : /\ DumpedAt(list, f, u) /\ u <= PrepTicks + LastAfter
                   /\ \A k \in 1 .. Len(prepared) : prepared[k].in <= u

\* What a MAP makes: frames at their distance that end with it, and a dump after
\* the frames of each grant.
Late(f) == {e \in FramesOf(f) : ~ (e.in + FrameTicks <= Horizon)}
Describes(list, granted, f) ==
  Paced(list, f) /\ Avoids(list, Late(f)) /\ Follow(list, granted, f)

\* A list that is part of another.
LEMMA DumpedConcat ==
  ASSUME NEW s \in Seq(Events), NEW t \in Seq(Events), NEW f, NEW u, DumpedAt(s, f, u)
  PROVE  DumpedAt(s \o t, f, u) /\ DumpedAt(t \o s, f, u)
<1>1. PICK i \in 1 .. Len(s) : s[i] \in DumpsOf(f) /\ s[i].in = u
  BY DEF DumpedAt
<1> DEFINE x == Len(s)
           y == Len(t)
           st == s \o t
           ts == t \o s
<1>2. /\ x \in Nat /\ y \in Nat /\ Len(st) = x + y /\ Len(ts) = y + x
      /\ \A j \in 1 .. x + y : st[j] = IF j <= x THEN s[j] ELSE t[j - x]
      /\ \A j \in 1 .. y + x : ts[j] = IF j <= y THEN t[j] ELSE s[j - y]
  BY ConcatProperties, LenProperties
<1> HIDE DEF st, ts, y
<1>3. i \in Nat /\ i >= 1 /\ i <= x
  BY <1>2
<1> HIDE DEF x
<1>4. i \in 1 .. Len(st) /\ st[i] = s[i]
  BY <1>2, <1>3
<1>5. y + i \in 1 .. Len(ts) /\ ~ (y + i <= y) /\ (y + i) - y = i
  BY <1>2, <1>3
<1>6. ts[y + i] = s[i]
  BY <1>2, <1>5
<1> QED BY <1>1, <1>4, <1>5, <1>6 DEF DumpedAt, st, ts

\* Neutral events join what a MAP makes.
LEMMA DescribesMore ==
  ASSUME NEW s \in Seq(Events), NEW t \in Seq(Events), NEW f, NEW granted,
         Describes(s, granted, f), Neutral(t, f)
  PROVE  Describes(s \o t, granted, f) /\ Describes(t \o s, granted, f)
<1>1. Paced(s, f) /\ Avoids(s, Late(f)) /\ Follow(s, granted, f)
  BY DEF Describes
<1>2. Paced(s \o t, f) /\ Paced(t \o s, f)
  BY <1>1, PacedNeutral
<1>3. Avoids(t, Late(f))
  BY DEF Neutral, Avoids, Late
<1>4. Avoids(s \o t, Late(f)) /\ Avoids(t \o s, Late(f))
  BY <1>1, <1>3, AvoidsConcat
<1>5. Follow(s \o t, granted, f) /\ Follow(t \o s, granted, f)
  <2> SUFFICES ASSUME NEW k \in 1 .. Len(granted)
               PROVE  \E u \in Nat :
                        /\ DumpedAt(s \o t, f, u) /\ DumpedAt(t \o s, f, u)
                        /\ granted[k].in < u /\ u <= granted[k].in + LastAfter
    BY DEF Follow
  <2>1. PICK u \in Nat : /\ DumpedAt(s, f, u)
                         /\ granted[k].in < u /\ u <= granted[k].in + LastAfter
    BY <1>1 DEF Follow
  <2>2. DumpedAt(s \o t, f, u) /\ DumpedAt(t \o s, f, u)
    BY <2>1, DumpedConcat
  <2> QED BY <2>1, <2>2
<1> QED BY <1>2, <1>4, <1>5 DEF Describes

\* What the grants of a MAP make.
LEMMA GrantDescribes ==
  ASSUME NEW f \in Flows, NEW grants, Placed(grants), Len(grants) > 0
  PROVE  Describes(GrantEvents(f, grants), Pipelined(grants), f)
<1> DEFINE bursts == BurstEvents(f, grants)
           load == FlowEvent(ProcTicks, "LoadMapState", f, GrantedBytes(grants))
           frames == FrameEvents(f, grants)
           end == Last(frames).in + 1
           dump == FlowEvent(end, "DumpGrant", f, 0)
           first == bursts \o <<load>>
           ended == frames \o <<dump>>
           granted == Pipelined(grants)
<1>1. /\ Framed(frames, f, Horizon)
      /\ \A i \in 1 .. Len(grants) : \E j \in 1 .. Len(frames) :
           frames[j].in = GrantTime(grants[i])
  BY FramesPaced
<1>2. /\ frames \in Seq(Events) /\ frames # <<>> /\ Len(frames) \in 1 .. Len(frames)
      /\ end \in Nat /\ end \in Interval /\ \A i \in 1 .. Len(frames) : frames[i].in < end
      /\ Last(frames) = frames[Len(frames)]
  <2>1. frames # <<>>
    BY FramesAccounted
  <2>2. /\ frames \in Seq(Events) /\ end \in Nat /\ end \in Interval
        /\ \A i \in 1 .. Len(frames) : frames[i].in < end
    BY FramesEnd
  <2> HIDE DEF frames, end
  <2>3. Len(frames) \in 1 .. Len(frames) /\ Last(frames) = frames[Len(frames)]
    BY <2>1, <2>2, EmptySeq, LenProperties DEF Last
  <2> QED BY <2>1, <2>2, <2>3
<1>3. /\ load \in MadeFor(f) /\ dump \in MadeFor(f) /\ bursts \in Seq(MadeFor(f))
      /\ load.event = "LoadMapState" /\ dump.event = "DumpGrant" /\ dump.in = end
      /\ dump.arg.sfid = f
  <2>1. ProcTicks \in Nat /\ ProcTicks \in Interval
    BY ConstantFacts, MapIntervalFacts DEF Interval
  <2>2. GrantedBytes(grants) \in Nat
    BY GrantFacts
  <2> HIDE DEF end
  <2>3. load \in MadeFor(f) /\ dump \in MadeFor(f)
    <3>1. load \in MadeFor(f)
      BY <2>1, <2>2, FlowEventFacts
    <3>2. dump \in MadeFor(f)
      BY <1>2, FlowEventFacts
    <3> QED BY <3>1, <3>2
  <2>4. bursts \in Seq(MadeFor(f))
    BY BurstEventsFacts
  <2>5. load.event = "LoadMapState" /\ dump.event = "DumpGrant" /\ dump.in = end
        /\ dump.arg.sfid = f
    BY DEF FlowEvent, Event
  <2> QED BY <2>3, <2>4, <2>5
<1>4. GrantEvents(f, grants) = first \o ended
  <2>1. GrantEvents(f, grants) = ((bursts \o <<load>>) \o frames) \o <<dump>>
    BY DEF GrantEvents
  <2>2. <<load>> \in Seq(MadeFor(f)) /\ <<dump>> \in Seq(MadeFor(f))
    BY <1>3
  <2>3. <<load>> \in Seq(Events) /\ <<dump>> \in Seq(Events) /\ bursts \in Seq(Events)
    BY <1>3, <2>2, MadeList
  <2> HIDE DEF bursts, load, frames, dump
  <2>4. first \in Seq(Events)
    BY <2>3, ConcatProperties
  <2> HIDE DEF first
  <2>5. (first \o frames) \o <<dump>> = first \o (frames \o <<dump>>)
    <3>1. first \in Seq(Events) /\ frames \in Seq(Events) /\ <<dump>> \in Seq(Events)
      BY <1>2, <2>3, <2>4
    <3> QED BY <3>1, ConcatAssociative
  <2> QED BY <2>1, <2>5 DEF first
<1> HIDE DEF bursts, load, frames, end
<1>5. dump \in DumpsOf(f) /\ dump \in Events
  <2> HIDE DEF dump
  <2>1. dump \in Events
    BY <1>3, MadeFacts
  <2> QED BY <1>3, <2>1, KindFacts
<1> HIDE DEF dump
<1>6. first \in Seq(Events) /\ Neutral(first, f)
  <2>1. Avoids(bursts, FramesOf(f))
    <3>1. Avoids(bursts, ReportsOf(f))
      BY BurstsAvoid DEF bursts
    <3> QED BY <3>1 DEF Avoids, ReportsOf, FramesOf
  <2>2. bursts \in Seq(Events) /\ Neutral(bursts, f)
    BY <1>3, <2>1, MadeNeutral
  <2>3. load \notin FramesOf(f)
    BY <1>3, MadeFacts, KindFacts
  <2>4. <<load>> \in Seq(MadeFor(f)) /\ Avoids(<<load>>, FramesOf(f))
    BY <1>3, <2>3 DEF Avoids
  <2>5. <<load>> \in Seq(Events) /\ Neutral(<<load>>, f)
    BY <2>4, MadeNeutral
  <2> QED BY <2>2, <2>5, NeutralConcat
<1> HIDE DEF first
<1>7. <<dump>> \in Seq(Events) /\ Neutral(<<dump>>, f)
  <2>1. dump \notin FramesOf(f)
    BY <1>3, <1>5, KindFacts
  <2>2. <<dump>> \in Seq(MadeFor(f)) /\ Avoids(<<dump>>, FramesOf(f))
    BY <1>3, <2>1 DEF Avoids
  <2> QED BY <2>2, MadeNeutral
<1>8. ended \in Seq(Events) /\ Paced(ended, f) /\ Avoids(ended, Late(f))
  <2>1. Paced(frames, f) /\ Avoids(frames, Late(f))
    BY <1>1 DEF Framed, Avoids, Late
  <2>2. Avoids(<<dump>>, Late(f))
    BY <1>7 DEF Neutral, Avoids, Late
  <2> QED BY <1>2, <1>7, <2>1, <2>2, PacedNeutral, AvoidsConcat
<1>9. DumpedAt(ended, f, end)
  <2>1. Len(<<dump>>) = 1 /\ <<dump>>[1] = dump
    OBVIOUS
  <2>2. DumpedAt(<<dump>>, f, end)
    BY <1>3, <1>5, <2>1 DEF DumpedAt
  <2> QED BY <1>2, <1>7, <2>2, DumpedConcat
<1>10. /\ granted \in Seq(Grants) /\ Len(granted) = Len(grants)
       /\ \A k \in 1 .. Len(grants) : granted[k].in = GrantTime(grants[k])
  <2> HIDE DEF granted
  <2>1. /\ granted \in Seq(Grants) /\ Len(granted) = Len(grants)
        /\ \A k \in 1 .. Len(grants) :
             granted[k] = [bytes |-> MinislotsToBytes(grants[k].length),
                           in |-> GrantTime(grants[k])]
    BY PipelinedFacts DEF granted
  <2>2. ASSUME NEW k \in 1 .. Len(grants) PROVE granted[k].in = GrantTime(grants[k])
    <3> DEFINE grant == [bytes |-> MinislotsToBytes(grants[k].length),
                         in |-> GrantTime(grants[k])]
    <3>1. granted[k] = grant
      BY <2>1
    <3>2. grant.in = GrantTime(grants[k])
      OBVIOUS
    <3> QED BY <3>1, <3>2
  <2> QED BY <2>1, <2>2
<1> HIDE DEF ended, granted
<1>11. Follow(ended, granted, f)
  <2> SUFFICES ASSUME NEW k \in 1 .. Len(granted)
               PROVE  granted[k].in < end /\ end <= granted[k].in + LastAfter
    BY <1>2, <1>9 DEF Follow
  <2>1. k \in 1 .. Len(grants) /\ granted[k].in = GrantTime(grants[k])
    BY <1>10
  <2>2. PICK j \in 1 .. Len(frames) : frames[j].in = granted[k].in
    BY <1>1, <2>1
  <2>3. granted[k].in < end
    BY <1>2, <2>2
  <2>4. GrantTime(grants[k]) \in Nat /\ GrantTime(grants[k]) >= ProcTicks
    BY <2>1, GrantFacts
  <2>5. end = Last(frames).in + 1
    BY DEF end
  <2>6. Last(frames).in + FrameTicks <= Horizon
    BY <1>1, <1>2 DEF Framed
  <2>7. Last(frames).in \in Nat
    BY <1>2, ListFacts
  <2> DEFINE g == granted[k].in
             last == Last(frames).in
  <2>8. g \in Nat /\ g >= ProcTicks /\ last \in Nat /\ last + FrameTicks <= ProcTicks + MapInterval
        /\ end = last + 1
    BY <2>1, <2>4, <2>5, <2>6, <2>7 DEF Horizon
  <2> HIDE DEF g, last
  <2>9. end <= g + LastAfter
    BY <2>8, ConstantFacts, MapIntervalFacts DEF LastAfter
  <2> QED BY <2>3, <2>9 DEF g
<1>12. Describes(ended, granted, f)
  BY <1>8, <1>11 DEF Describes
<1>13. Describes(first \o ended, granted, f)
  BY <1>6, <1>8, <1>12, DescribesMore
<1> QED BY <1>4, <1>13 DEF granted

\* What a MAP makes for a flow.
LEMMA FlowDescribes ==
  ASSUME NEW f \in Flows, NEW layout \in Layouts, NEW offset \in RequestOffsets
  PROVE  Describes(FlowEvents(f, layout, offset), Pipelined(layout[f]), f)
<1>1. Placed(layout[f])
  BY LayoutFacts
<1>2. CASE layout[f] # <<>>
  <2>1. Len(layout[f]) > 0
    BY <1>1, <1>2, EmptySeq DEF Placed
  <2>2. FlowEvents(f, layout, offset) = GrantEvents(f, layout[f])
    BY <1>2 DEF FlowEvents
  <2> QED BY <1>1, <2>1, <2>2, GrantDescribes
<1>3. CASE layout[f] = <<>>
  <2> DEFINE list == FlowEvents(f, layout, offset)
             granted == Pipelined(layout[f])
             e == FlowEvent(ProcTicks + offset, "MakeRequest", f, 0)
  <2>1. list = <<e>>
    BY <1>3 DEF FlowEvents, ContentionRequest
  <2>2. list \in Seq(Events) /\ list \in Seq(MadeFor(f))
    BY FlowEventsFacts, MadeList
  <2>3. e.event = "MakeRequest"
    BY DEF FlowEvent, Event
  <2>4. Len(granted) = Len(layout[f]) /\ Len(layout[f]) = 0
    BY <1>1, <1>3, PipelinedFacts
  <2> HIDE DEF e, list, granted
  <2>5. Len(list) = 1 /\ list[1] = e /\ e \in Events
    BY <2>1, <2>2, ElementOfSeq
  <2>6. e \notin FramesOf(f)
    BY <2>3, <2>5, KindFacts
  <2>7. Avoids(list, FramesOf(f))
    BY <2>5, <2>6 DEF Avoids
  <2>8. Neutral(list, f)
    BY <2>2, <2>7, MadeNeutral
  <2>9. Paced(list, f)
    BY <2>8, NeutralPaced
  <2>10. Avoids(list, Late(f))
    BY <2>7 DEF Avoids, Late
  <2>11. Follow(list, granted, f)
    BY <2>4 DEF Follow
  <2> QED BY <2>9, <2>10, <2>11 DEF Describes, list, granted
<1> QED BY <1>2, <1>3

\* What a MAP makes, for each flow.
LEMMA MadeDescribes ==
  ASSUME NEW made, \A g \in Flows : made[g] \in Seq(MadeFor(g)), NEW f \in Flows,
         NEW granted, Describes(made[f], granted, f)
  PROVE  Describes(InFlowOrder(made), granted, f)
<1> DEFINE c == CLASSIC_SFID
           l == LOW_LATENCY_SFID
<1>1. c \in Flows /\ c # l /\ \A g \in Flows : g \in {c, l}
  BY ConstantFacts
<1> HIDE DEF c, l
<1>2. \A g \in Flows : made[g] \in Seq(Events)
  BY MadeList
<1>3. ASSUME NEW g \in Flows, g # f PROVE Neutral(made[g], f)
  BY <1>3, MadeNeutral
<1>4. CASE l \in Flows
  <2>1. InFlowOrder(made) = made[c] \o made[l]
    BY <1>4 DEF InFlowOrder, c, l
  <2>2. made[c] \in Seq(Events) /\ made[l] \in Seq(Events)
    BY <1>1, <1>2, <1>4
  <2>3. CASE f = c
    <3>1. Neutral(made[l], f) /\ Describes(made[c], granted, f)
      BY <1>1, <1>3, <1>4, <2>3
    <3> QED BY <2>1, <2>2, <3>1, DescribesMore
  <2>4. CASE f # c
    <3>1. Neutral(made[c], f) /\ Describes(made[l], granted, f)
      BY <1>1, <1>3, <1>4, <2>4
    <3> QED BY <2>1, <2>2, <3>1, DescribesMore
  <2> QED BY <2>3, <2>4
<1>5. CASE l \notin Flows
  <2>1. InFlowOrder(made) = made[c] \o <<>>
    BY <1>5 DEF InFlowOrder, c, l
  <2>2. InFlowOrder(made) = made[c]
    BY <1>1, <1>2, <2>1, ConcatEmptySeq
  <2> QED BY <1>1, <1>5, <2>2
<1> QED BY <1>4, <1>5

-----------------------------------------------------------------------------
(* What a step does to frames and dumps.                                   *)

\* Dumps of a list that is merged with another.
LEMMA DumpedMerged ==
  ASSUME NEW old, NEW new, NEW events, NEW a, NEW b,
         Merged(new, old, events, Len(events), a, b), NEW f, NEW u,
         DumpedAt(old, f, u) \/ DumpedAt(events, f, u)
  PROVE  DumpedAt(new, f, u)
<1>1. CASE DumpedAt(old, f, u)
  <2>1. PICK i \in 1 .. Len(old) : old[i] \in DumpsOf(f) /\ old[i].in = u
    BY <1>1 DEF DumpedAt
  <2>2. a[i] \in 1 .. Len(new) /\ new[a[i]] = old[i]
    BY DEF Merged
  <2> QED BY <2>1, <2>2 DEF DumpedAt
<1>2. CASE DumpedAt(events, f, u)
  <2>1. PICK i \in 1 .. Len(events) : events[i] \in DumpsOf(f) /\ events[i].in = u
    BY <1>2 DEF DumpedAt
  <2>2. b[i] \in 1 .. Len(new) /\ new[b[i]] = events[i]
    BY DEF Merged
  <2> QED BY <2>1, <2>2 DEF DumpedAt
<1> QED BY <1>1, <1>2

\* Dumps of a list from which another event leaves.
LEMMA DumpedRest ==
  ASSUME NEW list \in Seq(Events), list # <<>>, NEW f, NEW u, DumpedAt(list, f, u),
         Head(list) \notin DumpsOf(f) \/ Head(list).in # u
  PROVE  DumpedAt(Tail(list), f, u)
<1>1. PICK i \in 1 .. Len(list) : list[i] \in DumpsOf(f) /\ list[i].in = u
  BY DEF DumpedAt
<1>2. /\ Len(list) \in Nat /\ Len(Tail(list)) = Len(list) - 1 /\ Head(list) = list[1]
      /\ \A k \in 1 .. Len(Tail(list)) : Tail(list)[k] = list[k + 1]
  BY HeadTailProperties, LenProperties
<1>3. i # 1
  BY <1>1, <1>2
<1>4. i - 1 \in 1 .. Len(Tail(list)) /\ (i - 1) + 1 = i
  BY <1>2, <1>3
<1>5. Tail(list)[i - 1] = list[i]
  BY <1>2, <1>4
<1> QED BY <1>1, <1>4, <1>5 DEF DumpedAt

\* Time brings the dumps nearer.
LEMMA DumpedLater ==
  ASSUME NEW list \in Seq(Events), NEW later \in Seq(Events), Len(later) = Len(list),
         NEW t \in Nat,
         \A i \in 1 .. Len(list) :
           /\ later[i].in = list[i].in - t /\ later[i].event = list[i].event
           /\ later[i].arg = list[i].arg,
         NEW f, NEW u \in Nat, DumpedAt(list, f, u)
  PROVE  u - t \in Nat /\ DumpedAt(later, f, u - t)
<1>1. PICK i \in 1 .. Len(list) : list[i] \in DumpsOf(f) /\ list[i].in = u
  BY DEF DumpedAt
<1> DEFINE d == list[i]
           e == later[i]
<1>2. d \in Events /\ e \in Events
  BY ElementOfSeq
<1>3. e.in = d.in - t /\ e.event = d.event /\ e.arg = d.arg
  OBVIOUS
<1>4. d \in DumpsOf(f) /\ d.in = u
  BY <1>1
<1> HIDE DEF d, e
<1>5. e \in DumpsOf(f) /\ e.in = u - t /\ e.in \in Nat
  BY <1>2, <1>3, <1>4, KindFacts, EventFacts
<1> QED BY <1>5 DEF DumpedAt, e

\* Dumps that stay are enough.
LEMMA StayDumped ==
  ASSUME NEW old, NEW new, NEW f, NEW granted, NEW prepared,
         \A u \in Nat : DumpedAt(old, f, u) => DumpedAt(new, f, u),
         Follow(old, granted, f), Await(old, prepared, f)
  PROVE  Follow(new, granted, f) /\ Await(new, prepared, f)
BY DEF Follow, Await

\* Frames and bursts wait for no less when time has passed.
LEMMA LaterDumped ==
  ASSUME NEW list \in Seq(Events), NEW later \in Seq(Events), Len(later) = Len(list),
         NEW t \in Nat,
         \A i \in 1 .. Len(list) :
           /\ later[i].in = list[i].in - t /\ later[i].event = list[i].event
           /\ later[i].arg = list[i].arg,
         NEW f, NEW granted \in Seq(Grants), Later(granted, t) \in Seq(Grants),
         NEW prepared \in Seq(Grants), Follow(list, granted, f), Await(list, prepared, f)
  PROVE  Follow(later, Later(granted, t), f) /\ Await(later, Aged(prepared, t), f)
<1>0. LastAfter \in Int /\ PrepTicks \in Nat
  BY ConstantFacts, MapIntervalFacts DEF LastAfter
<1>1. ASSUME NEW u \in Nat, DumpedAt(list, f, u)
      PROVE  u - t \in Nat /\ DumpedAt(later, f, u - t)
  BY <1>1, DumpedLater
<1>2. Follow(later, Later(granted, t), f)
  <2> DEFINE aged == Later(granted, t)
  <2>1. /\ Len(granted) \in Nat /\ DOMAIN granted = 1 .. Len(granted)
        /\ \A k \in 1 .. Len(granted) : granted[k] \in Grants
    BY LenProperties, ElementOfSeq
  <2>2. aged = [k \in 1 .. Len(granted) |-> [granted[k] EXCEPT !.in = @ - t]]
    BY <2>1 DEF Later
  <2>3. Len(aged) = Len(granted)
    <3>1. DOMAIN aged = 1 .. Len(granted) /\ DOMAIN aged = 1 .. Len(aged) /\ Len(aged) \in Nat
      BY <2>2, LenProperties
    <3> HIDE DEF aged
    <3> QED BY <2>1, <3>1
  <2>4. \A k \in 1 .. Len(granted) : aged[k].in = granted[k].in - t /\ granted[k].in \in Nat
    BY <2>1, <2>2 DEF Grants
  <2> HIDE DEF aged
  <2> SUFFICES ASSUME NEW k \in 1 .. Len(granted)
               PROVE  \E v \in Nat : /\ DumpedAt(later, f, v)
                                     /\ aged[k].in < v /\ v <= aged[k].in + LastAfter
    BY <2>3 DEF Follow, aged
  <2>5. PICK u \in Nat : DumpedAt(list, f, u) /\ granted[k].in < u /\ u <= granted[k].in + LastAfter
    BY DEF Follow
  <2>6. u - t \in Nat /\ DumpedAt(later, f, u - t)
    BY <1>1, <2>5
  <2>7. aged[k].in < u - t /\ u - t <= aged[k].in + LastAfter
    BY <1>0, <2>4, <2>5
  <2> QED BY <2>6, <2>7
<1>3. Await(later, Aged(prepared, t), f)
  <2> DEFINE aged == Aged(prepared, t)
  <2>1. /\ aged \in Seq(Grants) /\ Len(aged) = Len(prepared)
        /\ \A k \in 1 .. Len(prepared) :
             /\ prepared[k] \in Grants /\ aged[k] \in Grants
             /\ aged[k].bytes = prepared[k].bytes
             /\ aged[k].in = IF prepared[k].in <= t THEN 0 ELSE prepared[k].in - t
    BY AgedTimes
  <2> HIDE DEF aged
  <2>2. CASE prepared = <<>>
    <3>1. Len(aged) = 0
      BY <2>1, <2>2
    <3>2. aged = <<>>
      BY <2>1, <3>1, EmptySeq
    <3> QED BY <3>2 DEF Await, aged
  <2>3. CASE prepared # <<>>
    <3>1. PICK u \in Nat : /\ DumpedAt(list, f, u) /\ u <= PrepTicks + LastAfter
                           /\ \A k \in 1 .. Len(prepared) : prepared[k].in <= u
      BY <2>3 DEF Await
    <3>2. u - t \in Nat /\ DumpedAt(later, f, u - t)
      BY <1>1, <3>1
    <3>3. u - t <= PrepTicks + LastAfter
      BY <1>0, <3>1
    <3>4. ASSUME NEW k \in 1 .. Len(prepared) PROVE aged[k].in <= u - t
      <4>1. prepared[k].in \in Nat
        BY <2>1 DEF Grants
      <4> QED BY <2>1, <3>1, <3>2, <4>1
    <3> QED BY <2>1, <3>2, <3>3, <3>4 DEF Await, aged
  <2> QED BY <2>2, <2>3
<1> QED BY <1>2, <1>3

\* A burst waits for the dump of its grant.
LEMMA BurstAwaits ==
  ASSUME NEW list, NEW f, NEW granted \in Seq(Grants), granted # <<>>,
         Head(granted).in = PrepTicks, Follow(list, granted, f),
         NEW prepared \in Seq(Grants), Ascending(prepared), Await(list, prepared, f)
  PROVE  /\ Follow(list, Tail(granted), f)
         /\ \A g \in Grants : g.in = PrepTicks => Await(list, Append(prepared, g), f)
<1>1. /\ Len(granted) \in Nat /\ Len(granted) > 0 /\ Head(granted) = granted[1]
      /\ Len(Tail(granted)) = Len(granted) - 1
      /\ \A k \in 1 .. Len(Tail(granted)) : Tail(granted)[k] = granted[k + 1]
  <2>1. Len(granted) \in Nat \ {0}
    BY EmptySeq, LenProperties
  <2> QED BY <2>1, HeadTailProperties
<1>2. Follow(list, Tail(granted), f)
  <2> SUFFICES ASSUME NEW k \in 1 .. Len(Tail(granted))
               PROVE  \E u \in Nat : /\ DumpedAt(list, f, u) /\ Tail(granted)[k].in < u
                                     /\ u <= Tail(granted)[k].in + LastAfter
    BY DEF Follow
  <2>1. k + 1 \in 1 .. Len(granted) /\ Tail(granted)[k] = granted[k + 1]
    BY <1>1
  <2> QED BY <2>1 DEF Follow
<1>3. PICK u \in Nat : /\ DumpedAt(list, f, u) /\ PrepTicks < u /\ u <= PrepTicks + LastAfter
  <2>1. 1 \in 1 .. Len(granted) /\ granted[1].in = PrepTicks
    BY <1>1
  <2> QED BY <2>1 DEF Follow
<1>4. ASSUME NEW g \in Grants, g.in = PrepTicks PROVE Await(list, Append(prepared, g), f)
  <2> DEFINE t == Append(prepared, g)
  <2>1. t \in Seq(Grants) /\ Ascending(t)
    BY <1>4, AscendingAppend
  <2> HIDE DEF t
  <2>2. ASSUME NEW k \in 1 .. Len(t) PROVE t[k].in <= u
    <3>1. t[k].in <= PrepTicks
      BY <2>1 DEF Ascending
    <3>2. t[k] \in Grants
      BY <2>1, ElementOfSeq
    <3> QED BY <1>3, <3>1, <3>2, ConstantFacts DEF Grants
  <2> QED BY <1>3, <2>2 DEF Await, t
<1> QED BY <1>2, <1>4

\* So does what is left of them.
LEMMA LeftAwaits ==
  ASSUME NEW list, NEW f, NEW prepared \in Seq(Grants), NEW left \in Seq(Grants),
         TimesOf(left, prepared), Await(list, prepared, f)
  PROVE  Await(list, left, f)
<1>1. CASE left = <<>>
  BY <1>1 DEF Await
<1>2. CASE left # <<>>
  <2>1. Len(left) \in Nat \ {0} /\ Len(prepared) \in Nat
    BY <1>2, EmptySeq, LenProperties
  <2>2. prepared # <<>>
    <3>1. 1 \in 1 .. Len(left)
      BY <2>1
    <3>2. PICK j \in 1 .. Len(prepared) : left[1].in = prepared[j].in
      BY <3>1 DEF TimesOf
    <3>3. Len(<<>>) = 0 /\ ~ \E i : i \in 1..0
      OBVIOUS
    <3> QED BY <3>2, <3>3
  <2>3. PICK u \in Nat : /\ DumpedAt(list, f, u) /\ u <= PrepTicks + LastAfter
                         /\ \A k \in 1 .. Len(prepared) : prepared[k].in <= u
    BY <2>2 DEF Await
  <2>4. \A k \in 1 .. Len(left) : left[k].in <= u
    BY <2>3 DEF TimesOf
  <2> QED BY <2>3, <2>4 DEF Await
<1> QED BY <1>1, <1>2

\* The grants of another MAP join.
LEMMA FollowBoth ==
  ASSUME NEW list, NEW f, NEW granted \in Seq(Grants), NEW added \in Seq(Grants),
         Follow(list, granted, f), Follow(list, added, f)
  PROVE  Follow(list, granted \o added, f)
<1> DEFINE both == granted \o added
           x == Len(granted)
           y == Len(added)
<1>1. /\ x \in Nat /\ y \in Nat /\ Len(both) = x + y
      /\ \A k \in 1 .. x + y : both[k] = IF k <= x THEN granted[k] ELSE added[k - x]
  BY ConcatProperties, LenProperties
<1> HIDE DEF both, x, y
<1> SUFFICES ASSUME NEW k \in 1 .. x + y
             PROVE  \E u \in Nat : /\ DumpedAt(list, f, u) /\ both[k].in < u
                                   /\ u <= both[k].in + LastAfter
  BY <1>1 DEF Follow, both
<1>2. CASE k <= x
  <2>1. k \in 1..x /\ both[k] = granted[k]
    BY <1>1, <1>2
  <2> QED BY <2>1 DEF Follow, x
<1>3. CASE ~ (k <= x)
  <2>1. k - x \in 1..y /\ both[k] = added[k - x]
    BY <1>1, <1>3
  <2> QED BY <2>1 DEF Follow, y
<1> QED BY <1>2, <1>3

\* A MAP that is made is further away than the frames of those that are handled.
LEMMA MapsClear ==
  ASSUME NEW list \in Seq(Events), list # <<>>, NEW f, Paced(list, f),
         Head(list).event = "GenerateMap", Head(list).in = 0, NEW events \in Seq(Events),
         \A j \in 1 .. Len(events) :
           /\ events[j] \notin FramesOf(f)
           /\ ToCome(events[j]) => Begins(events[j]) >= ProcTicks + MapTicks
              /\ Begins(events[j]) \in Nat
  PROVE  AllClear(Tail(list), events, f)
<1> DEFINE h == Head(list)
           rest == Tail(list)
<1>1. /\ Len(list) \in Nat /\ Len(list) > 0 /\ h = list[1] /\ Len(rest) = Len(list) - 1
      /\ \A i \in 1 .. Len(rest) : rest[i] = list[i + 1]
  BY HeadTailProperties, ListFacts
<1>2. Begins(h) = ProcTicks + MapTicks /\ ToCome(h)
  BY ConstantFacts DEF Begins, ToCome
<1> HIDE DEF h, rest
<1>3. ASSUME NEW i \in 1 .. Len(rest), NEW j \in 1 .. Len(events)
      PROVE  Clear(rest[i], events[j], f) /\ Clear(events[j], rest[i], f)
  <2>1. i + 1 \in 1 .. Len(list) /\ 1 \in 1 .. Len(list) /\ i + 1 # 1 /\ rest[i] = list[i + 1]
    BY <1>1
  <2>2. Clear(rest[i], h, f)
    BY <1>1, <2>1 DEF Paced
  <2>3. list[i + 1].in \in Nat
    BY <2>1, ListFacts
  <2>4. Clear(rest[i], events[j], f)
    BY <1>2, <2>1, <2>2, <2>3, ConstantFacts DEF Clear
  <2>5. Clear(events[j], rest[i], f)
    BY DEF Clear
  <2> QED BY <2>4, <2>5
<1> QED BY <1>3 DEF AllClear, rest

\* The frames of a MAP lie between those of the MAPs before and the MAPs to come.
LEMMA MadeClear ==
  ASSUME NEW list \in Seq(Events), Sorted(list), Spaced(list), list # <<>>,
         NEW f, Paced(list, f),
         Head(list).event = "HandleMapMsg", Head(list).in = 0, NEW events \in Seq(Made),
         NEW added, LiesBehind(events, added, f), Avoids(events, Late(f))
  PROVE  AllClear(Tail(list), events, f)
<1> DEFINE h == Head(list)
           rest == Tail(list)
<1>1. /\ Len(list) \in Nat /\ Len(list) > 0 /\ h = list[1] /\ Len(rest) = Len(list) - 1
      /\ \A i \in 1 .. Len(rest) : rest[i] = list[i + 1]
  BY HeadTailProperties, ListFacts
<1>2. Begins(h) = ProcTicks /\ ToCome(h) /\ h.event = "HandleMapMsg"
  BY ConstantFacts DEF Begins, ToCome
<1>3. \A i \in 1 .. Len(rest) : Apart(rest[i], h) /\ Apart(h, rest[i])
  BY RestFacts
<1> HIDE DEF h, rest
<1>4. ASSUME NEW i \in 1 .. Len(rest), NEW j \in 1 .. Len(events)
      PROVE  Clear(rest[i], events[j], f) /\ Clear(events[j], rest[i], f)
  <2> DEFINE d == rest[i]
             e == events[j]
  <2>1. i + 1 \in 1 .. Len(list) /\ 1 \in 1 .. Len(list) /\ i + 1 # 1 /\ d = list[i + 1]
    BY <1>1
  <2>2. Clear(d, h, f)
    BY <1>1, <2>1 DEF Paced
  <2>3. d \in Events /\ d.in \in Nat
    BY <2>1, ListFacts
  <2>4. e \in Events /\ e.in \in Nat /\ ~ ToCome(e)
    <3>1. e \in Made
      BY ElementOfSeq
    <3>2. PICK g \in Flows : e \in MadeFor(g)
      BY <3>1 DEF Made
    <3>3. e \in Events /\ ~ ToCome(e)
      BY <3>2, MadeFacts
    <3> QED BY <3>3, EventFacts
  <2>5. e \in FramesOf(f) => e.in >= ProcTicks /\ e.in + FrameTicks <= Horizon
    <3>1. e \in FramesOf(f) => e.in >= ProcTicks
      BY DEF LiesBehind
    <3>2. e \notin Late(f)
      BY DEF Avoids
    <3> QED BY <3>1, <3>2 DEF Late
  <2>6. d \in FramesOf(f) => d.in + FrameTicks <= ProcTicks
    BY <1>2, <2>2 DEF Clear
  <2>7. ToCome(d) => Horizon <= Begins(d) /\ Begins(d) \in Nat
    <3> SUFFICES ASSUME ToCome(d) PROVE Horizon <= Begins(d) /\ Begins(d) \in Nat
      OBVIOUS
    <3>1. Begins(d) \in Nat /\ Begins(d) >= ProcTicks
      BY <2>3, ConstantFacts DEF Begins
    <3>2. Begins(h) + MapInterval <= Begins(d) \/ Begins(d) + MapInterval <= Begins(h)
      BY <1>2, <1>3 DEF Apart, ToCome
    <3> QED BY <1>2, <3>1, <3>2, ConstantFacts, MapIntervalFacts DEF Horizon
  <2> HIDE DEF d, e
  <2>8. Clear(d, e, f)
    BY <2>3, <2>4, <2>5, <2>6, ConstantFacts DEF Clear
  <2>9. Clear(e, d, f)
    <3>1. Horizon \in Nat
      BY ConstantFacts, MapIntervalFacts DEF Horizon
    <3> QED BY <2>3, <2>4, <2>5, <2>6, <2>7, <3>1, ConstantFacts DEF Clear
  <2> QED BY <2>8, <2>9 DEF d, e
<1> QED BY <1>4 DEF AllClear, rest

-----------------------------------------------------------------------------
(* The steps, and the distance of frames and dumps.                        *)

\* The frames of a flow keep their distance, and its dumps come soon enough after
\* its grants and bursts.
Reaches(f) ==
  /\ Paced(agenda, f) /\ Follow(agenda, grantPipeline[f], f)
  /\ Await(agenda, transmitPipeline[f], f)
Reached == \A f \in Flows : Reaches(f)

\* When a grant is dumped, what is prepared waits for a later dump.
LEMMA LaterDump ==
  ASSUME UpstreamInv, Drained, Due("DumpGrant"), NEW f \in Flows, Head(agenda).arg.sfid = f,
         transmitPipeline[f] # <<>>,
         NEW u \in Nat, \A k \in 1 .. Len(transmitPipeline[f]) : transmitPipeline[f][k].in <= u
  PROVE  u # 0
<1> SUFFICES ASSUME u = 0 PROVE FALSE
  OBVIOUS
<1> DEFINE pipe == transmitPipeline[f]
           ready == [i \in DOMAIN pipe |-> IF pipe[i].in <= 0 THEN pipe[i].bytes ELSE 0]
<1>1. DrainedAtDump
  BY DrainedNow
<1>2. GetEligible(pipe) = 0
  BY <1>1 DEF DrainedAtDump, DueFor
<1>3. SumSeq(ready) = 0
  BY <1>2 DEF GetEligible
<1>4. pipe \in Seq(Grants)
  BY PipesTyped
<1>5. /\ DOMAIN pipe = 1 .. Len(pipe) /\ Len(pipe) \in Nat \ {0}
      /\ \A k \in 1 .. Len(pipe) : pipe[k] \in Grants /\ pipe[k].in <= 0
  <2>1. Len(pipe) \in Nat \ {0}
    BY <1>4, EmptySeq, LenProperties
  <2> QED BY <1>4, <2>1, LenProperties, ElementOfSeq
<1>6. ready = [i \in 1 .. Len(pipe) |-> IF pipe[i].in <= 0 THEN pipe[i].bytes ELSE 0]
  BY <1>5
<1> HIDE DEF ready, pipe
<1>7. \A k \in 1 .. Len(pipe) : ready[k] \in Nat /\ 1 <= ready[k]
  BY <1>5, <1>6 DEF Grants
<1>8. ready \in Seq(Nat) /\ Len(ready) = Len(pipe)
  <2>1. ready \in [1 .. Len(pipe) -> Nat]
    BY <1>6, <1>7
  <2> QED BY <1>5, <2>1, SeqDef, LenProperties
<1>9. 1 * Len(ready) <= SumSeq(ready)
  BY <1>7, <1>8, SumAtLeast
<1> QED BY <1>3, <1>5, <1>8, <1>9

\* An event leaves the list.
LEMMA LeaveReaches ==
  ASSUME UpstreamInv, Drained, Reached, NEW name, Due(name), NEW f \in Flows
  PROVE  /\ Paced(Rest, f) /\ Follow(Rest, grantPipeline[f], f)
         /\ Await(Rest, transmitPipeline[f], f)
<1> DEFINE granted == grantPipeline[f]
           prepared == transmitPipeline[f]
           h == Head(agenda)
<1>1. /\ agenda \in Seq(Events) /\ agenda # <<>> /\ Rest = Tail(agenda) /\ h.in = 0
      /\ h \in Events /\ h.event = name
  BY ReportedList, FrontFacts
<1>2. Paced(agenda, f) /\ Follow(agenda, granted, f) /\ Await(agenda, prepared, f)
  BY DEF Reached, Reaches
<1>3. Paced(Rest, f)
  BY <1>1, <1>2, PacedRest
<1>4. \A u \in Nat : DumpedAt(agenda, f, u) /\ u # 0 => DumpedAt(Rest, f, u)
  BY <1>1, DumpedRest
<1>5. h \in DumpsOf(f) => Due("DumpGrant") /\ h.arg.sfid = f
  BY <1>1, KindFacts
<1>6. granted \in Seq(Grants) /\ prepared \in Seq(Grants)
  BY PipesTyped
<1>7. Follow(Rest, granted, f)
  <2> SUFFICES ASSUME NEW k \in 1 .. Len(granted)
               PROVE  \E u \in Nat : /\ DumpedAt(Rest, f, u) /\ granted[k].in < u
                                     /\ u <= granted[k].in + LastAfter
    BY DEF Follow
  <2>1. PICK u \in Nat : /\ DumpedAt(agenda, f, u) /\ granted[k].in < u
                         /\ u <= granted[k].in + LastAfter
    BY <1>2 DEF Follow
  <2>2. granted[k].in \in Nat
    <3>1. granted[k] \in Grants
      BY <1>6, ElementOfSeq
    <3> QED BY <3>1 DEF Grants
  <2>3. u # 0
    BY <2>1, <2>2
  <2> QED BY <1>4, <2>1, <2>3
<1>8. CASE h \notin DumpsOf(f)
  <2>1. \A u \in Nat : DumpedAt(agenda, f, u) => DumpedAt(Rest, f, u)
    BY <1>1, <1>8, DumpedRest
  <2>2. Await(Rest, prepared, f)
    BY <1>2, <2>1 DEF Await
  <2> QED BY <1>3, <1>7, <2>2
<1>9. CASE h \in DumpsOf(f)
  <2>1. CASE prepared = <<>>
    BY <1>3, <1>7, <2>1 DEF Await
  <2>2. CASE prepared # <<>>
    <3>1. PICK u \in Nat : /\ DumpedAt(agenda, f, u) /\ u <= PrepTicks + LastAfter
                           /\ \A k \in 1 .. Len(prepared) : prepared[k].in <= u
      BY <1>2, <2>2 DEF Await
    <3>2. u # 0
      BY <1>5, <1>9, <2>2, <3>1, LaterDump
    <3>3. Await(Rest, prepared, f)
      BY <1>4, <3>1, <3>2 DEF Await
    <3> QED BY <1>3, <1>7, <3>3
  <2> QED BY <2>1, <2>2
<1> QED BY <1>8, <1>9

\* A flow to which nothing else happens.
LEMMA OthersReach ==
  ASSUME UpstreamInv, Drained, Reached, NEW name, Due(name), agenda' = Rest, NEW f \in Flows,
         grantPipeline'[f] = grantPipeline[f], transmitPipeline'[f] = transmitPipeline[f]
  PROVE  Reaches(f)'
BY LeaveReaches DEF Reaches

\* Nothing else happens to any flow.
LEMMA LeaveReached ==
  ASSUME UpstreamInv, Drained, Reached, NEW name, Due(name), agenda' = Rest,
         grantPipeline' = grantPipeline, transmitPipeline' = transmitPipeline
  PROVE  Reached'
<1>1. ASSUME NEW f \in Flows PROVE Reaches(f)'
  BY OthersReach
<1> QED BY <1>1 DEF Reached

\* Events that are clear of the others join the list.
LEMMA JoinReached ==
  ASSUME UpstreamInv, Drained, Reached, NEW name, Due(name),
         grantPipeline' = grantPipeline, transmitPipeline' = transmitPipeline,
         NEW events \in Seq(Events), NEW a, NEW b,
         Merged(agenda', Rest, events, Len(events), a, b),
         \A f \in Flows : Paced(events, f) /\ AllClear(Rest, events, f)
  PROVE  Reached'
<1>1. ASSUME NEW f \in Flows PROVE Reaches(f)'
  <2>1. /\ Paced(Rest, f) /\ Follow(Rest, grantPipeline[f], f)
        /\ Await(Rest, transmitPipeline[f], f)
    BY LeaveReaches
  <2>2. Len(Rest) \in Nat /\ Len(events) \in Nat
    BY ReportedList, LenProperties
  <2>3. Paced(events, f) /\ AllClear(Rest, events, f)
    OBVIOUS
  <2>4. Paced(agenda', f)
    BY <2>1, <2>2, <2>3, PacedMerged
  <2>5. \A u \in Nat : DumpedAt(Rest, f, u) => DumpedAt(agenda', f, u)
    BY DumpedMerged
  <2>6. Follow(agenda', grantPipeline[f], f) /\ Await(agenda', transmitPipeline[f], f)
    BY <2>1, <2>5, StayDumped
  <2> QED BY <2>4, <2>6 DEF Reaches
<1> QED BY <1>1 DEF Reached

\* A request on its way.
LEMMA RequestReached ==
  ASSUME UpstreamInv, Drained, Reached, NEW f \in Flows, Due("MakeRequest"),
         NEW bytes \in 0..MaxUnsent, SendRequest(f, bytes),
         grantPipeline' = grantPipeline, transmitPipeline' = transmitPipeline
  PROVE  Reached'
<1> DEFINE event == FlowEvent(RequestTicks, "ReceiveRequest", f, bytes)
<1>1. event \in Events /\ event.event = "ReceiveRequest"
  BY ConstantFacts DEF FlowEvent, Event, Events, RequestsSent, EventsOf, FlowArgs
<1>2. agenda' = Schedule(Rest, event)
  BY DEF SendRequest
<1> HIDE DEF event
<1>3. Rest \in Seq(Events) /\ Sorted(Rest)
  BY ReportedList
<1>4. PICK a, b : Merged(Schedule(Rest, event), Rest, <<event>>, 1, a, b)
  BY <1>1, <1>3, ScheduleMerges
<1>5. <<event>> \in Seq(Events) /\ Len(<<event>>) = 1 /\ \A j \in 1..1 : <<event>>[j] = event
  BY <1>1
<1>6. Merged(agenda', Rest, <<event>>, Len(<<event>>), a, b)
  BY <1>2, <1>4, <1>5
<1>7. ASSUME NEW g \in Flows PROVE Paced(<<event>>, g) /\ AllClear(Rest, <<event>>, g)
  <2>1. event \notin FramesOf(g) /\ ~ ToCome(event)
    BY <1>1, KindFacts DEF ToCome
  <2>2. Neutral(<<event>>, g)
    BY <1>5, <2>1 DEF Neutral
  <2> QED BY <2>2, NeutralPaced
<1> QED BY <1>5, <1>6, <1>7, JoinReached

\* MakeRequest.
LEMMA MakeRequestReached ==
  ASSUME UpstreamInv, Drained, Reached, NEW f \in Flows, MakeRequest(f)
  PROVE  Reached'
<1>1. /\ Due("MakeRequest") /\ grantPipeline' = grantPipeline
      /\ transmitPipeline' = transmitPipeline
  BY DEF MakeRequest, DueFor
<1>2. CountersTyped
  BY DEF UpstreamInv
<1>3. CASE NothingToRequest(f)
  <2>1. agenda' = Rest
    BY <1>3 DEF NothingToRequest
  <2> QED BY <1>1, <2>1, LeaveReached
<1>4. CASE f = CLASSIC_SFID /\ MakeClassicRequest
  <2>1. NewRequest(f) > 0 /\ NewRequest(f) \in 0..MaxUnsent /\ NewRequest(f) \in Nat
    BY <1>4, AskedBytes DEF MakeClassicRequest
  <2>2. CASE SendRequest(CLASSIC_SFID, NewRequest(CLASSIC_SFID))
    BY <1>1, <1>4, <2>1, <2>2, RequestReached
  <2>3. CASE Rate # 0 /\ SendRequest(CLASSIC_SFID, ShapeRequest(NewRequest(CLASSIC_SFID))[1])
    <3> DEFINE shaped == ShapeRequest(NewRequest(f))
    <3>1. shaped[1] \in 0..NewRequest(f)
      BY <1>2, <2>1, <2>3, ShapedFacts
    <3>2. SendRequest(f, shaped[1])
      BY <1>4, <2>3
    <3> HIDE DEF shaped
    <3>3. shaped[1] \in 0..MaxUnsent
      BY <2>1, <3>1, ConstantFacts
    <3> QED BY <1>1, <3>2, <3>3, RequestReached
  <2> QED BY <1>4, <2>2, <2>3 DEF MakeClassicRequest
<1>5. CASE f = LOW_LATENCY_SFID /\ MakeLowLatencyRequest
  <2>1. NewRequest(f) \in 0..MaxUnsent
    BY <1>5, AskedBytes DEF MakeLowLatencyRequest
  <2>2. SendRequest(f, NewRequest(f))
    BY <1>5 DEF MakeLowLatencyRequest
  <2> QED BY <1>1, <2>1, <2>2, RequestReached
<1> QED BY <1>3, <1>4, <1>5 DEF MakeRequest

\* A MAP is made: its frames lie behind those of the MAPs before.
LEMMA MapMadeReached ==
  ASSUME UpstreamInv, Drained, Reached, NEW layout \in Layouts, GenerateMap(layout)
  PROVE  Reached'
<1> DEFINE sent == Event(MapTicks, "HandleMapMsg", layout)
           next == Event(MapInterval, "GenerateMap", 0)
           events == <<sent, next>>
<1>1. /\ Due("GenerateMap") /\ grantPipeline' = grantPipeline
      /\ transmitPipeline' = transmitPipeline /\ agenda' = ScheduleAll(Rest, events)
  BY DEF GenerateMap, pipelines
<1>2. /\ sent.event = "HandleMapMsg" /\ sent.in = MapTicks
      /\ next.event = "GenerateMap" /\ next.in = MapInterval
      /\ Len(events) = 2 /\ \A i \in 1 .. Len(events) : events[i] = sent \/ events[i] = next
  <2>1. events[1] = sent /\ events[2] = next /\ Len(events) = 2
    OBVIOUS
  <2>2. /\ sent.event = "HandleMapMsg" /\ sent.in = MapTicks
        /\ next.event = "GenerateMap" /\ next.in = MapInterval
    BY DEF Event
  <2> QED BY <2>1, <2>2
<1> HIDE DEF sent, next
<1>3. events \in Seq(Events) /\ Timed(events)
  BY ConstantFacts, MapEvents DEF sent, next
<1> HIDE DEF events
<1>4. Rest \in Seq(Events) /\ Sorted(Rest) /\ Timed(Rest)
  BY <1>1, ReportedList, ListFacts
<1>5. PICK a, b : Merged(agenda', Rest, events, Len(events), a, b)
  BY <1>1, <1>3, <1>4, ScheduleAllMerges
<1>6. ASSUME NEW g, NEW i \in 1 .. Len(events)
      PROVE  events[i] \notin FramesOf(g)
  <2>1. events[i] \in Events
    BY <1>3, ElementOfSeq
  <2>2. events[i].event \in {"HandleMapMsg", "GenerateMap"}
    BY <1>2
  <2> QED BY <2>1, <2>2, KindFacts
<1>7. ASSUME NEW i \in 1 .. Len(events)
      PROVE  Begins(events[i]) >= ProcTicks + MapTicks /\ Begins(events[i]) \in Nat
  <2>1. ProcTicks \in Nat /\ MapTicks \in Nat /\ MapInterval \in Nat
    BY ConstantFacts, MapIntervalFacts
  <2>2. Begins(sent) = MapTicks + ProcTicks
    BY <1>2, <2>1 DEF Begins
  <2>3. Begins(next) = (MapInterval + MapTicks) + ProcTicks
    BY <1>2, <2>1 DEF Begins
  <2> QED BY <1>2, <2>1, <2>2, <2>3
<1>8. /\ agenda \in Seq(Events) /\ agenda # <<>> /\ Head(agenda).event = "GenerateMap"
      /\ Head(agenda).in = 0 /\ Rest = Tail(agenda)
  BY <1>1, ReportedList, FrontFacts
<1>9. ASSUME NEW g \in Flows PROVE Paced(events, g) /\ AllClear(Rest, events, g)
  <2>1. Paced(agenda, g)
    BY DEF Reached, Reaches
  <2>2. Paced(events, g)
    BY <1>6 DEF Paced, Clear
  <2>3. \A j \in 1 .. Len(events) :
          /\ events[j] \notin FramesOf(g)
          /\ ToCome(events[j]) => Begins(events[j]) >= ProcTicks + MapTicks
             /\ Begins(events[j]) \in Nat
    BY <1>6, <1>7
  <2>4. AllClear(Rest, events, g)
    BY <1>3, <1>8, <2>1, <2>3, MapsClear
  <2> QED BY <2>2, <2>4
<1> QED BY <1>1, <1>3, <1>5, <1>9, JoinReached

\* Time passes.
LEMMA TimeReached ==
  ASSUME UpstreamInv, Reached, AdvanceTime
  PROVE  Reached'
<1> DEFINE t == Head(agenda).in
<1>1. /\ agenda # <<>> /\ agenda' = Later(agenda, t)
      /\ grantPipeline' = [f \in Flows |-> Later(grantPipeline[f], t)]
      /\ transmitPipeline' = [f \in Flows |-> Aged(transmitPipeline[f], t)]
  BY DEF AdvanceTime
<1>2. agenda \in Seq(Events) /\ Sorted(agenda) /\ Spaced(agenda) /\ Agrees(agenda, grantPipeline)
  BY DEF UpstreamInv, AgendaInv, Agrees
<1>3. /\ t \in Nat /\ agenda' \in Seq(Events) /\ Len(agenda') = Len(agenda)
      /\ \A i \in 1 .. Len(agenda) :
           /\ agenda'[i].in = agenda[i].in - t /\ agenda'[i].event = agenda[i].event
           /\ agenda'[i].arg = agenda[i].arg
  BY <1>1, <1>2, LaterList
<1>4. Agrees(Later(agenda, t), [f \in Flows |-> Later(grantPipeline[f], t)])
  BY <1>1, <1>2, LaterAgrees
<1> HIDE DEF t
<1>5. ASSUME NEW f \in Flows PROVE Reaches(f)'
  <2>1. Later(grantPipeline[f], t) \in Seq(Grants)
    <3>1. [g \in Flows |-> Later(grantPipeline[g], t)][f] \in Seq(Grants)
      BY <1>4 DEF Agrees
    <3> QED BY <3>1
  <2>2. grantPipeline[f] \in Seq(Grants) /\ transmitPipeline[f] \in Seq(Grants)
    BY PipesTyped
  <2>3. /\ Paced(agenda, f) /\ Follow(agenda, grantPipeline[f], f)
        /\ Await(agenda, transmitPipeline[f], f)
    BY DEF Reached, Reaches
  <2>4. Paced(agenda', f)
    BY <1>2, <1>3, <2>3, PacedLater
  <2>5. /\ Follow(agenda', Later(grantPipeline[f], t), f)
        /\ Await(agenda', Aged(transmitPipeline[f], t), f)
    BY <1>2, <1>3, <2>1, <2>2, <2>3, LaterDumped
  <2>6. /\ grantPipeline'[f] = Later(grantPipeline[f], t)
        /\ transmitPipeline'[f] = Aged(transmitPipeline[f], t)
    BY <1>1
  <2> QED BY <2>4, <2>5, <2>6 DEF Reaches
<1> QED BY <1>5 DEF Reached

\* A burst waits for the dump of its grant.
LEMMA BurstReached ==
  ASSUME UpstreamInv, Drained, Reached, NEW f \in Flows, PrepareBurst(f)
  PROVE  Reached'
<1> DEFINE bytes == MinislotsToBytes(Arg.n)
           burst == Min({bytes, Unscheduled(f, PacketsToStage(f, bytes))})
           pipe == transmitPipeline[f]
           granted == grantPipeline[f]
           new == [bytes |-> burst, in |-> PrepTicks]
<1>1. /\ Due("PrepareBurst") /\ Head(agenda).arg.sfid = f /\ agenda' = Rest
      /\ PrepareBurstFrom(f, bytes)
  BY DEF PrepareBurst, DueFor, PrepareBurstFromCQueue, PrepareBurstFromLQueue
<1>2. /\ grantPipeline' = [grantPipeline EXCEPT ![f] = Tail(@)]
      /\ transmitPipeline' = IF burst > 0
                             THEN [transmitPipeline EXCEPT ![f] = Append(@, new)]
                             ELSE transmitPipeline
      /\ DOMAIN grantPipeline = Flows /\ DOMAIN transmitPipeline = Flows
  BY <1>1 DEF PrepareBurstFrom, UpstreamInv, PerFlow
<1>3. /\ agenda # <<>> /\ Agrees(agenda, grantPipeline) /\ Head(agenda) \in BurstsDue
      /\ Head(agenda).in = 0 /\ agenda \in Seq(Events) /\ Rest = Tail(agenda)
  BY <1>1, FrontFacts, ReportedList, EventFacts
<1>4. Head(agenda) \in BurstsOf(f) /\ bytes \in Nat
  <2>1. Arg.n \in 1..MinislotsPerMap
    BY <1>3 DEF BurstsDue, EventsOf, FlowArgs, Arg
  <2>2. Arg.n \in Nat
    BY <2>1
  <2>3. bytes \in Nat
    BY <2>2, MinislotFacts
  <2> QED BY <1>1, <1>3, <2>3 DEF BurstsOf
<1>5. granted # <<>> /\ Head(granted) = GrantOf(Head(agenda))
  BY <1>2, <1>3, <1>4, BurstAgrees
<1>6. Head(granted).in = PrepTicks
  <2>1. 0 + PrepTicks = PrepTicks
    BY ConstantFacts
  <2> QED BY <1>3, <1>5, <2>1 DEF GrantOf
<1>7. burst > 0 => burst \in Nat \ {0}
  <2> DEFINE moved == PacketsToStage(f, bytes)
             free == Unscheduled(f, moved)
  <2>1. moved \in 0 .. Len(aqm[f])
    BY StagedCount DEF UpstreamInv
  <2>2. free \in Int
    <3> HIDE DEF moved
    <3>1. SumSeq(SubSeq(aqm[f], 1, moved)) \in Nat
      BY <2>1, CutFacts DEF UpstreamInv, QueuesTyped
    <3>2. TotalOf(pipe) \in Nat /\ DeviceBytes(f) \in Nat
      BY PipesTyped, BytesFacts, TotalFacts DEF UpstreamInv
    <3> QED BY <3>1, <3>2 DEF Unscheduled
  <2> HIDE DEF free, bytes
  <2>3. burst \in {bytes, free}
    <3>1. bytes \in Int /\ free \in Int
      BY <1>4, <2>2
    <3> QED BY <3>1, MinOfTwo DEF free
  <2> HIDE DEF burst
  <2> QED BY <1>4, <2>2, <2>3
<1> HIDE DEF burst, bytes
<1>8. /\ granted \in Seq(Grants) /\ pipe \in Seq(Grants) /\ Ascending(pipe)
      /\ Paced(Rest, f) /\ Follow(Rest, granted, f) /\ Await(Rest, pipe, f)
  <2>1. granted \in Seq(Grants) /\ pipe \in Seq(Grants) /\ Ascending(pipe)
    BY PipesTyped DEF Drained, Drains
  <2>2. Paced(Rest, f) /\ Follow(Rest, granted, f) /\ Await(Rest, pipe, f)
    BY <1>1, LeaveReaches
  <2> QED BY <2>1, <2>2
<1>9. grantPipeline'[f] = Tail(granted)
  BY <1>2
<1> HIDE DEF granted, pipe
<1>10. /\ Follow(Rest, Tail(granted), f)
       /\ \A g \in Grants : g.in = PrepTicks => Await(Rest, Append(pipe, g), f)
  BY <1>5, <1>6, <1>8, BurstAwaits
<1>11. Await(Rest, transmitPipeline'[f], f)
  <2>1. CASE burst > 0
    <3>1. new \in Grants /\ new.in = PrepTicks
      <4>1. burst \in Nat \ {0} /\ PrepTicks \in Nat
        BY <1>7, <2>1, ConstantFacts
      <4> QED BY <4>1 DEF Grants
    <3> HIDE DEF new
    <3>2. transmitPipeline'[f] = Append(pipe, new)
      BY <1>2, <2>1 DEF pipe
    <3> QED BY <1>10, <3>1, <3>2
  <2>2. CASE ~ (burst > 0)
    BY <1>2, <1>8, <2>2 DEF pipe
  <2> QED BY <2>1, <2>2
<1>12. Reaches(f)'
  BY <1>1, <1>8, <1>9, <1>10, <1>11 DEF Reaches
<1>13. ASSUME NEW g \in Flows, g # f PROVE Reaches(g)'
  <2>1. grantPipeline'[g] = grantPipeline[g] /\ transmitPipeline'[g] = transmitPipeline[g]
    BY <1>2, <1>13
  <2> QED BY <1>1, <2>1, OthersReach
<1> QED BY <1>12, <1>13 DEF Reached

\* What a frame leaves in the pipeline waits for no less.
LEMMA SendReached ==
  ASSUME UpstreamInv, Drained, Reached, NEW f \in Flows, SendFrame(f)
  PROVE  Reached'
<1> DEFINE allocated == MinislotsToBytes(Arg.n)
           pipe == transmitPipeline[f]
           ready == GetEligible(pipe)
           toSend == Min({allocated, ready})
           used == Min({toSend, DeviceBytes(f)})
<1>1. /\ Due("SendFrame") /\ Head(agenda).arg.sfid = f /\ agenda' = Rest
      /\ grantPipeline' = grantPipeline /\ SendFrameFrom(f, allocated)
  BY DEF SendFrame, DueFor, SendFrameFromCQueue, SendFrameFromLQueue
<1>2. /\ transmitPipeline' = [transmitPipeline EXCEPT ![f] = RemoveBytes(@, used)]
      /\ DOMAIN transmitPipeline = Flows
  BY <1>1 DEF SendFrameFrom, UpstreamInv, PerFlow
<1>3. Head(agenda) \in FramesDue
  BY <1>1, FrontFacts, EventFacts
<1>4. allocated \in Nat
  <2>1. Arg.n \in Nat
    BY <1>3 DEF FramesDue, EventsOf, FlowArgs, Arg
  <2> QED BY <2>1, MinislotFacts
<1>5. pipe \in Seq(Grants) /\ Ascending(pipe)
  BY PipesTyped DEF Drained, Drains
<1>6. ready \in Nat /\ DeviceBytes(f) \in Nat
  BY <1>5, TotalFacts, BytesFacts DEF UpstreamInv
<1> HIDE DEF ready, allocated
<1>7. toSend \in {allocated, ready}
  <2>1. allocated \in Int /\ ready \in Int
    BY <1>4, <1>6
  <2> QED BY <2>1, MinOfTwo
<1> HIDE DEF toSend
<1>8. used \in {toSend, DeviceBytes(f)}
  <2>1. toSend \in Int /\ DeviceBytes(f) \in Int
    BY <1>4, <1>6, <1>7
  <2> QED BY <2>1, MinOfTwo
<1> HIDE DEF used
<1>9. used \in Nat
  BY <1>4, <1>6, <1>7, <1>8
<1>10. transmitPipeline'[f] = RemoveBytes(pipe, used)
  BY <1>2 DEF pipe
<1>11. Paced(Rest, f) /\ Follow(Rest, grantPipeline[f], f) /\ Await(Rest, pipe, f)
  BY <1>1, LeaveReaches
<1> HIDE DEF pipe
<1>12. TimesOf(RemoveBytes(pipe, used), pipe) /\ RemoveBytes(pipe, used) \in Seq(Grants)
  BY <1>5, <1>9, AscendingRemoved
<1>13. Await(Rest, RemoveBytes(pipe, used), f)
  BY <1>5, <1>11, <1>12, LeftAwaits
<1>14. Reaches(f)'
  BY <1>1, <1>10, <1>11, <1>13 DEF Reaches
<1>15. ASSUME NEW g \in Flows, g # f PROVE Reaches(g)'
  <2>1. grantPipeline'[g] = grantPipeline[g] /\ transmitPipeline'[g] = transmitPipeline[g]
    BY <1>1, <1>2, <1>15
  <2> QED BY <1>1, <2>1, OthersReach
<1> QED BY <1>14, <1>15 DEF Reached

\* A MAP brings frames between those before and those to come, and dumps behind
\* the grants it brings.
LEMMA MapHandledReached ==
  ASSUME UpstreamInv, Drained, Reached, HandleMapMsg
  PROVE  Reached'
<1> DEFINE layout == Arg
<1>1. /\ Due("HandleMapMsg") /\ transmitPipeline' = transmitPipeline
      /\ grantPipeline' = [f \in Flows |-> grantPipeline[f] \o Pipelined(layout[f])]
  BY DEF HandleMapMsg
<1>2. PICK offset \in [Flows -> RequestOffsets] :
        agenda' = ScheduleAll(Rest,
                    InFlowOrder([f \in Flows |-> FlowEvents(f, layout, offset[f])]))
  BY DEF HandleMapMsg
<1> DEFINE made == [f \in Flows |-> FlowEvents(f, layout, offset[f])]
           events == InFlowOrder(made)
           added == [f \in Flows |-> Pipelined(layout[f])]
<1>3. /\ agenda \in Seq(Events) /\ Sorted(agenda) /\ Spaced(agenda) /\ agenda # <<>>
      /\ Head(agenda).event = "HandleMapMsg" /\ Head(agenda).in = 0
      /\ Rest \in Seq(Events) /\ Sorted(Rest) /\ Rest = Tail(agenda)
  BY <1>1, ReportedList, FrontFacts
<1>4. layout \in Layouts
  <2>1. Head(agenda) \in MapsSent
    BY <1>1, <1>3, ReportedList, EventFacts
  <2> QED BY <2>1 DEF MapsSent, EventsOf, Arg
<1> HIDE DEF layout
<1>5. ASSUME NEW f \in Flows
      PROVE  /\ made[f] \in Seq(MadeFor(f)) /\ added[f] \in Seq(Grants)
             /\ Aligned(added[f], made[f], f) /\ Describes(made[f], added[f], f)
  <2>1. /\ FlowEvents(f, layout, offset[f]) \in Seq(MadeFor(f))
        /\ Aligned(Pipelined(layout[f]), FlowEvents(f, layout, offset[f]), f)
    BY <1>4, FlowEventsFacts
  <2>2. Pipelined(layout[f]) \in Seq(Grants)
    BY <1>4, LayoutFacts, PipelinedFacts
  <2>3. Describes(FlowEvents(f, layout, offset[f]), Pipelined(layout[f]), f)
    <3>1. offset[f] \in RequestOffsets
      OBVIOUS
    <3> QED BY <1>4, <3>1, FlowDescribes
  <2>4. made[f] = FlowEvents(f, layout, offset[f]) /\ added[f] = Pipelined(layout[f])
    OBVIOUS
  <2> HIDE DEF made, added
  <2> QED BY <2>1, <2>2, <2>3, <2>4
<1>6. ASSUME NEW f \in Flows
      PROVE  /\ added[f] = Pipelined(layout[f])
             /\ grantPipeline'[f] = grantPipeline[f] \o added[f]
  BY <1>1
<1> HIDE DEF made, added
<1>7. events \in Seq(Made) /\ events \in Seq(Events)
  <2>1. \A g \in Flows : /\ made[g] \in Seq(MadeFor(g)) /\ added[g] \in Seq(Grants)
                         /\ Aligned(added[g], made[g], g)
    BY <1>5
  <2> QED BY <2>1, InFlowOrderFacts
<1>8. ASSUME NEW f \in Flows PROVE Describes(events, added[f], f)
  <2>1. \A g \in Flows : made[g] \in Seq(MadeFor(g))
    BY <1>5
  <2>2. Describes(made[f], added[f], f)
    BY <1>5
  <2> QED BY <2>1, <2>2, MadeDescribes
<1>9. agenda' = ScheduleAll(Rest, events)
  BY <1>2 DEF events, made
<1> HIDE DEF events
<1>10. PICK a, b : Merged(agenda', Rest, events, Len(events), a, b)
  <2>1. Timed(Rest) /\ Timed(events)
    BY <1>3, <1>7, ListFacts
  <2> QED BY <1>3, <1>7, <1>9, <2>1, ScheduleAllMerges
<1>11. ASSUME NEW f \in Flows PROVE Reaches(f)'
  <2>1. Paced(Rest, f) /\ Follow(Rest, grantPipeline[f], f) /\ Await(Rest, transmitPipeline[f], f)
    BY <1>1, LeaveReaches
  <2>2. grantPipeline[f] \in Seq(Grants) /\ added[f] \in Seq(Grants)
    BY <1>5, PipesTyped
  <2>3. Paced(events, f) /\ Avoids(events, Late(f)) /\ Follow(events, added[f], f)
    BY <1>8 DEF Describes
  <2>4. LiesBehind(events, added[f], f)
    BY <1>4, <1>6, <1>7, MadeLiesBehind
  <2>5. Paced(agenda, f)
    BY DEF Reached, Reaches
  <2>6. AllClear(Rest, events, f)
    BY <1>3, <1>7, <2>3, <2>4, <2>5, MadeClear
  <2>7. Len(Rest) \in Nat /\ Len(events) \in Nat
    BY <1>3, <1>7, LenProperties
  <2>8. Paced(agenda', f)
    BY <1>10, <2>1, <2>3, <2>6, <2>7, PacedMerged
  <2>9. \A u \in Nat : DumpedAt(Rest, f, u) => DumpedAt(agenda', f, u)
    BY <1>10, DumpedMerged
  <2>10. \A u \in Nat : DumpedAt(events, f, u) => DumpedAt(agenda', f, u)
    BY <1>10, DumpedMerged
  <2>11. /\ Follow(agenda', grantPipeline[f], f)
         /\ Await(agenda', transmitPipeline[f], f)
    BY <2>1, <2>9, StayDumped
  <2>12. Follow(agenda', added[f], f)
    BY <2>3, <2>10 DEF Follow
  <2>13. Follow(agenda', grantPipeline[f] \o added[f], f)
    BY <2>2, <2>11, <2>12, FollowBoth
  <2>14. grantPipeline'[f] = grantPipeline[f] \o added[f]
    BY <1>6
  <2> QED BY <1>1, <2>8, <2>11, <2>13, <2>14 DEF Reaches
<1> QED BY <1>11 DEF Reached

\* Only requests and the first MAP are scheduled at the start.
LEMMA StartReached == Init => Reached
<1> SUFFICES ASSUME Init, NEW f \in Flows PROVE Reaches(f)
  BY DEF Reached
<1> DEFINE first == Event(FirstGenerateMap, "GenerateMap", 0)
<1>1. PICK offset \in [Flows -> [1..StartupMaps -> RequestOffsets]] :
        agenda = ScheduleAll(<<first>>,
                   InFlowOrder([g \in Flows |-> StartupRequests(g, offset[g])]))
  BY DEF Init
<1> DEFINE made == [g \in Flows |-> StartupRequests(g, offset[g])]
           events == InFlowOrder(made)
<1>2. first \in Events /\ first.in \in Nat /\ first.event = "GenerateMap"
  BY MapIntervalFacts DEF Event, Events, MapsMade, EventsOf
<1> HIDE DEF first
<1>3. <<first>> \in Seq(Events) /\ Len(<<first>>) = 1 /\ \A i \in 1..1 : <<first>>[i] = first
  BY <1>2
<1>4. DOMAIN <<first>> = 1..1 /\ Timed(<<first>>)
  BY <1>3, LenProperties, ListFacts
<1>5. Sorted(<<first>>)
  <2>1. \A i \in 1..1 : i = 1
    OBVIOUS
  <2> QED BY <2>1, <1>2, <1>3, <1>4 DEF Sorted
<1>6. /\ events \in Seq(Events)
      /\ \A j \in 1 .. Len(events) : events[j] \in RequestsDue
  BY StartupList
<1>7. agenda = ScheduleAll(<<first>>, events)
  BY <1>1
<1> HIDE DEF made, events
<1>8. PICK a, b : Merged(agenda, <<first>>, events, Len(events), a, b)
  BY <1>3, <1>4, <1>5, <1>6, <1>7, ListFacts, ScheduleAllMerges
<1>9. Neutral(events, f)
  <2>1. ASSUME NEW j \in 1 .. Len(events)
        PROVE  events[j] \notin FramesOf(f) /\ ~ ToCome(events[j])
    <3>1. events[j] \in Events /\ events[j].event = "MakeRequest"
      BY <1>6, ElementOfSeq DEF RequestsDue, EventsOf
    <3> QED BY <3>1, KindFacts DEF ToCome
  <2> QED BY <2>1 DEF Neutral
<1>10. Paced(<<first>>, f)
  <2>1. first \notin FramesOf(f)
    BY <1>2, KindFacts
  <2>2. \A i, j \in 1..1 : i = j
    OBVIOUS
  <2> QED BY <1>3, <2>1, <2>2 DEF Paced
<1>11. Paced(agenda, f)
  <2>1. Paced(events, f) /\ AllClear(<<first>>, events, f)
    BY <1>9, NeutralPaced
  <2>2. Len(<<first>>) \in Nat /\ Len(events) \in Nat
    BY <1>3, <1>6, LenProperties
  <2> QED BY <1>8, <1>10, <2>1, <2>2, PacedMerged
<1>12. grantPipeline[f] = <<>> /\ transmitPipeline[f] = <<>>
  BY DEF Init, ForAllFlows
<1>13. Follow(agenda, <<>>, f)
  <2>1. \A k : k \notin 1 .. Len(<<>>)
    OBVIOUS
  <2> QED BY <2>1 DEF Follow
<1>14. Await(agenda, <<>>, f)
  BY DEF Await
<1> QED BY <1>11, <1>12, <1>13, <1>14 DEF Reaches

\* Every step keeps them at their distance.
LEMMA StepReached == UpstreamInv /\ Drained /\ Reached /\ [Next]_vars => Reached'
<1> SUFFICES ASSUME UpstreamInv, Drained, Reached, [Next]_vars PROVE Reached'
  OBVIOUS
<1>1. ASSUME grantPipeline' = grantPipeline, transmitPipeline' = transmitPipeline,
             agenda' = agenda
      PROVE  Reached'
  BY <1>1 DEF Reached, Reaches
<1>2. CASE UNCHANGED vars
  BY <1>1, <1>2 DEF vars, pipelines
<1>3. CASE AdvanceTime
  BY <1>3, TimeReached
<1>4. ASSUME NEW layout \in Layouts, GenerateMap(layout) PROVE Reached'
  BY <1>4, MapMadeReached
<1>5. CASE HandleMapMsg
  BY <1>5, MapHandledReached
<1>6. ASSUME NEW f \in Flows, FlowStep(f) PROVE Reached'
  <2>1. ASSUME NEW name, Due(name), agenda' = Rest, UNCHANGED pipelines
        PROVE  Reached'
    BY <2>1, LeaveReached DEF pipelines
  <2>2. CASE ReceiveRequest(f)
    BY <2>1, <2>2 DEF ReceiveRequest, DueFor
  <2>3. CASE LoadMapState(f)
    BY <2>1, <2>3 DEF LoadMapState, DueFor
  <2>4. CASE DumpGrant(f)
    BY <2>1, <2>4 DEF DumpGrant, DueFor
  <2> QED BY <1>6, <2>2, <2>3, <2>4, MakeRequestReached, BurstReached, SendReached
          DEF FlowStep
<1>7. ASSUME NEW f \in Flows, NEW size \in Sizes, SendFrom(f, size) PROVE Reached'
  BY <1>1, <1>7 DEF SendFrom, pipelines
<1> QED BY <1>2, <1>3, <1>4, <1>5, <1>6, <1>7 DEF Next, Simulate

-----------------------------------------------------------------------------
(* The bytes that the staging queue holds.                                 *)

\* Bytes of a frame.
FrameBytes == MinislotsToBytes(MinislotsPerFrame)

\* Frames that end by a time send no more than fits into it.
EndBy(list, f, u, k, t) ==
  \A i \in 1..k : list[i] \in FramesOf(f) /\ list[i].in < u => list[i].in + FrameTicks <= t

\* No more bytes leave than there are frames, one after the other, times their
\* minislots.
LEMMA FramesHold ==
  ASSUME NEW list \in Seq(Events), Sorted(list), NEW f, Paced(list, f), NEW u \in Nat,
         NEW t \in Nat, EndBy(list, f, u, Len(list), t)
  PROVE  \E c \in Nat : /\ TotalWeight(list, SentWithin(f, 0, u)) <= FrameBytes * c
                        /\ c * FrameTicks <= t
<1> DEFINE w == SentWithin(f, 0, u)
           ws == Weights(list, w)
           n == Len(list)
           F == FrameBytes
<1>1. /\ n \in Nat /\ DOMAIN list = 1..n
      /\ \A i \in 1..n : list[i] \in Events /\ list[i].in \in Nat
  BY LenProperties, ListFacts
<1>2. F \in Nat
  BY ConstantFacts, MinislotFacts DEF FrameBytes
<1>3. /\ w \in [Events -> Nat]
      /\ \A e \in Events : w[e] = IF e \in FramesOf(f) /\ 0 <= e.in /\ e.in < u
                                  THEN MinislotsToBytes(e.arg.n) ELSE 0
  BY SentFrameFacts
<1> HIDE DEF w
<1>4. ws \in Seq(Nat) /\ Len(ws) = n /\ \A i \in 1..n : ws[i] = w[list[i]]
  BY <1>3, WeightFacts
<1>5. PICK P : Sums(ws, P) /\ SumSeq(ws) = P[n]
  BY <1>4, SumsExist
<1>6. TotalWeight(list, w) = P[n]
  BY <1>5 DEF TotalWeight
<1> HIDE DEF ws, n, F
<1>7. P \in [0..n -> Nat] /\ P[0] = 0 /\ \A k \in 1..n : P[k] = P[k - 1] + ws[k]
  BY <1>4, <1>5 DEF Sums
<1> DEFINE Holds(k) == \A s \in Nat : EndBy(list, f, u, k, s) =>
                         \E c \in Nat : P[k] <= F * c /\ c * FrameTicks <= s
           T == {k \in 0..n : Holds(k)}
<1>8. 0 \in T
  <2>1. 0 \in Nat /\ P[0] <= F * 0 /\ \A s \in Nat : 0 * FrameTicks <= s
    BY <1>2, <1>7, ConstantFacts
  <2>2. Holds(0)
    BY <2>1
  <2> QED BY <1>1, <2>2 DEF n
<1>9. ASSUME NEW k \in 1..n, k - 1 \in T PROVE k \in T
  <2>1. Holds(k - 1)
    BY <1>9
  <2> SUFFICES ASSUME NEW s \in Nat, EndBy(list, f, u, k, s)
               PROVE  \E c \in Nat : P[k] <= F * c /\ c * FrameTicks <= s
    OBVIOUS
  <2> DEFINE e == list[k]
  <2>2. /\ e \in Events /\ e.in \in Nat /\ ws[k] = w[e] /\ P[k] = P[k - 1] + ws[k]
        /\ P[k - 1] \in Nat /\ n \in Nat /\ k \in Nat /\ k >= 1 /\ k - 1 \in Nat
        /\ k \in 1 .. Len(list)
    <3>1. n \in Nat
      BY <1>1
    <3>2. k \in Nat /\ k >= 1 /\ k - 1 \in Nat /\ k - 1 \in 0..n
      BY <3>1
    <3> QED BY <1>1, <1>4, <1>7, <3>1, <3>2 DEF n
  <2>3. CASE ~ (e \in FramesOf(f) /\ e.in < u)
    <3>1. ws[k] = 0
      BY <1>3, <2>2, <2>3
    <3>2. EndBy(list, f, u, k - 1, s)
      <4>1. \A i \in 1 .. k - 1 : i \in 1..k
        BY <2>2
      <4> QED BY <4>1 DEF EndBy
    <3>3. PICK c \in Nat : P[k - 1] <= F * c /\ c * FrameTicks <= s
      BY <2>1, <3>2
    <3>4. P[k] = P[k - 1]
      BY <2>2, <3>1
    <3> QED BY <3>3, <3>4
  <2>4. CASE e \in FramesOf(f) /\ e.in < u
    <3>1. EndBy(list, f, u, k - 1, e.in)
      <4> SUFFICES ASSUME NEW i \in 1 .. k - 1, list[i] \in FramesOf(f), list[i].in < u
                   PROVE  list[i].in + FrameTicks <= e.in
        BY DEF EndBy
      <4>1. i \in 1 .. Len(list) /\ i # k /\ i < k
        BY <1>1, <2>2
      <4>2. Clear(list[i], e, f)
        BY <2>2, <4>1 DEF Paced
      <4>3. list[i].in + FrameTicks <= e.in \/ e.in + FrameTicks <= list[i].in
        BY <2>4, <4>2 DEF Clear
      <4>4. list[i].in <= e.in
        BY <1>1, <2>2, <4>1 DEF Sorted, n
      <4>5. list[i].in \in Nat
        BY <1>1, <4>1 DEF n
      <4> QED BY <2>2, <4>3, <4>4, <4>5, ConstantFacts
    <3>2. PICK c \in Nat : P[k - 1] <= F * c /\ c * FrameTicks <= e.in
      BY <2>1, <2>2, <3>1
    <3>3. ws[k] <= F /\ ws[k] \in Nat
      <4>1. ws[k] = MinislotsToBytes(e.arg.n)
        BY <1>3, <2>2, <2>4
      <4>2. e.arg.n <= MinislotsPerFrame
        BY <2>2, <2>4 DEF Paced
      <4>3. e.arg.n \in Nat
        BY <2>4 DEF FramesOf, FramesDue, EventsOf, FlowArgs
      <4>4. MinislotsToBytes(e.arg.n) \in Nat
        BY <4>3, MinislotFacts
      <4>5. e.arg.n * Capacity <= MinislotsPerFrame * Capacity
        <5> DEFINE a == e.arg.n
        <5>1. a \in Nat /\ a <= MinislotsPerFrame /\ MinislotsPerFrame \in Nat /\ Capacity \in Nat
          BY <4>2, <4>3, ConstantFacts
        <5> HIDE DEF a
        <5>2. a * Capacity <= MinislotsPerFrame * Capacity
          BY <5>1, ProductFacts
        <5> QED BY <5>2 DEF a
      <4> QED BY <4>1, <4>4, <4>5 DEF MinislotsToBytes, FrameBytes, F
    <3>4. e.in + FrameTicks <= s
      <4>1. k \in 1..k
        BY <2>2
      <4> QED BY <2>4, <4>1 DEF EndBy
    <3>5. F * (c + 1) = F * c + F /\ (c + 1) * FrameTicks = c * FrameTicks + FrameTicks
          /\ F * c \in Nat /\ c * FrameTicks \in Nat
      <4>1. F * c \in Nat /\ c * FrameTicks \in Nat /\ FrameTicks \in Nat
        BY <1>2, ConstantFacts, ProductFacts
      <4>2. F * (c + 1) = F * c + F
        BY <1>2
      <4>3. (c + 1) * FrameTicks = c * FrameTicks + FrameTicks
        BY <4>1
      <4> QED BY <4>1, <4>2, <4>3
    <3>6. P[k] <= F * (c + 1)
      BY <1>2, <2>2, <3>2, <3>3, <3>5
    <3>7. (c + 1) * FrameTicks <= s
      BY <2>2, <3>2, <3>4, <3>5, ConstantFacts
    <3>8. c + 1 \in Nat
      OBVIOUS
    <3> QED BY <3>6, <3>7, <3>8
  <2> QED BY <2>3, <2>4
<1>10. n \in Nat
  BY <1>1 DEF n
<1> HIDE DEF T
<1>11. \A k \in 0..n : k \in T
  BY <1>8, <1>9, <1>10, CountUp
<1>12. n \in T
  BY <1>10, <1>11
<1>13. Holds(n)
  BY <1>12 DEF T
<1>14. PICK c \in Nat : P[n] <= F * c /\ c * FrameTicks <= t
  BY <1>13 DEF n
<1> QED BY <1>6, <1>14 DEF w, F

\* Frames that fit into a MAP and a time before.
LEMMA FewFrames ==
  ASSUME NEW c \in Nat, c * FrameTicks <= PrepTicks + MapInterval
  PROVE  FrameBytes * c <= (PrepTicks \div FrameTicks) * FrameBytes + GrantedInAMap
<1> DEFINE t == FrameTicks
           q == PrepTicks \div FrameTicks
           m == FramesPerMap
           F == FrameBytes
<1>1. t \in Nat /\ t > 0 /\ PrepTicks \in Nat /\ m \in Nat /\ F \in Nat
  BY ConstantFacts, MinislotFacts DEF FrameBytes
<1>2. q \in Nat /\ PrepTicks < (q + 1) * t
  BY <1>1, Z3
<1>3. c * t <= PrepTicks + m * t
  BY DEF MapInterval
<1>4. GrantedInAMap = F * m
  BY ConstantFacts DEF GrantedInAMap, FrameBytes, MinislotsToBytes, MinislotsPerMap
<1> HIDE DEF t, q, m, F
<1>5. c <= q + m
  <2> SUFFICES ASSUME c >= q + m + 1 PROVE FALSE
    BY <1>1, <1>2
  <2>1. (q + m + 1) * t <= c * t
    BY <1>1, <1>2, ProductFacts
  <2>2. (q + m + 1) * t = (q + 1) * t + m * t
    BY <1>1, <1>2
  <2>3. (q + 1) * t \in Nat /\ m * t \in Nat /\ c * t \in Nat
    BY <1>1, <1>2, ProductFacts
  <2> QED BY <1>1, <1>2, <1>3, <2>1, <2>2, <2>3
<1>6. F * c <= F * (q + m)
  BY <1>1, <1>2, <1>5, ProductFacts
<1>7. F * (q + m) = q * F + F * m
  BY <1>1, <1>2
<1> QED BY <1>4, <1>6, <1>7 DEF F, q

\* What fits is a number.
LEMMA RoomIsNumber == (PrepTicks \div FrameTicks) * FrameBytes + GrantedInAMap \in Nat
<1>1. FrameBytes \in Nat /\ GrantedInAMap \in Nat
  <2>1. MinislotsPerFrame \in Nat /\ MinislotsPerMap \in Nat
    BY ConstantFacts, ProductFacts DEF MinislotsPerMap
  <2> QED BY <2>1, MinislotFacts DEF FrameBytes, GrantedInAMap
<1>2. PrepTicks \div FrameTicks \in Nat
  <2>1. PrepTicks \in Nat /\ FrameTicks \in Nat /\ FrameTicks > 0
    BY ConstantFacts
  <2> QED BY <2>1, Z3
<1>3. (PrepTicks \div FrameTicks) * FrameBytes \in Nat
  BY <1>1, <1>2, ProductFacts
<1> QED BY <1>1, <1>3

\* What is prepared is for the frames until one dump, which are few.
LEMMA PreparedFits ==
  ASSUME UpstreamInv, Drained, Reached, NEW f \in Flows
  PROVE  TotalOf(transmitPipeline[f]) <= (PrepTicks \div FrameTicks) * FrameBytes + GrantedInAMap
<1> DEFINE granted == grantPipeline[f]
           prepared == transmitPipeline[f]
           room == (PrepTicks \div FrameTicks) * FrameBytes + GrantedInAMap
           t == PrepTicks + MapInterval
<1>1. /\ agenda \in Seq(Events) /\ Sorted(agenda) /\ granted \in Seq(Grants)
      /\ prepared \in Seq(Grants)
  BY PipesTyped
<1>2. Backs(agenda, granted, prepared, f)
  BY DEF Drained, Drains
<1>3. Paced(agenda, f) /\ Await(agenda, prepared, f)
  BY DEF Reached, Reaches
<1>4. /\ PrepTicks \in Nat /\ FrameTicks \in Nat /\ MapInterval \in Nat /\ t \in Nat
      /\ LastAfter = (MapInterval - FrameTicks) + 1
  BY ConstantFacts, MapIntervalFacts DEF LastAfter
<1>5. ASSUME NEW u \in Nat, u <= PrepTicks + LastAfter
      PROVE  EndBy(agenda, f, u, Len(agenda), t)
  <2> SUFFICES ASSUME NEW i \in 1 .. Len(agenda), agenda[i].in < u
               PROVE  agenda[i].in + FrameTicks <= t
    BY DEF EndBy
  <2>1. agenda[i].in \in Nat
    BY <1>1, ListFacts
  <2> QED BY <1>4, <1>5, <2>1
<1>6. ASSUME NEW u \in Nat, u <= PrepTicks + LastAfter
      PROVE  TotalWeight(agenda, SentWithin(f, 0, u)) <= room
  <2> DEFINE sent == TotalWeight(agenda, SentWithin(f, 0, u))
  <2>1. EndBy(agenda, f, u, Len(agenda), t)
    BY <1>5, <1>6
  <2> HIDE DEF t
  <2>2. PICK c \in Nat : sent <= FrameBytes * c /\ c * FrameTicks <= t
    BY <1>1, <1>3, <1>4, <2>1, FramesHold
  <2>3. FrameBytes * c <= room
    <3>1. c * FrameTicks <= PrepTicks + MapInterval
      BY <2>2 DEF t
    <3> QED BY <3>1, FewFrames
  <2>4. sent \in Nat
    BY <1>1, RoomFacts
  <2>5. FrameBytes * c \in Nat /\ room \in Int
    <3>1. FrameBytes \in Nat
      BY ConstantFacts, MinislotFacts DEF FrameBytes
    <3>2. FrameBytes * c \in Nat
      BY <3>1, ProductFacts
    <3> QED BY <3>2, RoomIsNumber
  <2> HIDE DEF sent, room
  <2>6. sent <= room
    BY <2>2, <2>3, <2>4, <2>5
  <2> QED BY <2>6 DEF sent
<1>7. TotalOf(prepared) = TotalWeight(prepared, GrantBytes) /\ TotalOf(prepared) \in Nat
  BY <1>1, TotalFacts
<1>8. ASSUME NEW u \in Nat, u <= PrepTicks + LastAfter, u \in Closings(agenda, f),
             \A k \in 1 .. Len(prepared) : prepared[k].in <= u
      PROVE  TotalOf(prepared) <= room
  <2> DEFINE w == Within(0, u)
  <2>1. w \in [Grants -> Nat]
        /\ \A g \in Grants : w[g] = IF 0 <= g.in /\ g.in <= u THEN g.bytes ELSE 0
    BY WindowFacts
  <2>2. TotalWeight(prepared, w) + TotalWeight(granted, w) <= TotalWeight(agenda, SentWithin(f, 0, u))
    BY <1>2, <1>8 DEF Backs
  <2>3. /\ TotalWeight(prepared, w) \in Nat /\ TotalWeight(granted, w) \in Nat
        /\ TotalWeight(agenda, SentWithin(f, 0, u)) \in Nat
    BY <1>1, RoomFacts
  <2>4. GrantBytes \in [Grants -> Nat]
    BY DEF Grants, GrantBytes
  <2> HIDE DEF w
  <2>5. ASSUME NEW k \in 1 .. Len(prepared) PROVE GrantBytes[prepared[k]] <= w[prepared[k]]
    <3> DEFINE g == prepared[k]
    <3>1. g \in Grants /\ g.in <= u
      BY <1>1, <1>8, ElementOfSeq
    <3> HIDE DEF g
    <3>2. g.in \in Nat /\ g.bytes \in Nat /\ GrantBytes[g] = g.bytes
      BY <3>1 DEF Grants, GrantBytes
    <3>3. w[g] = g.bytes
      BY <2>1, <3>1, <3>2
    <3> QED BY <3>2, <3>3 DEF g
  <2>6. TotalWeight(prepared, GrantBytes) <= TotalWeight(prepared, w)
    BY <1>1, <2>1, <2>4, <2>5, WeightLess
  <2>7. TotalWeight(agenda, SentWithin(f, 0, u)) <= room
    BY <1>6, <1>8
  <2>8. TotalOf(prepared) <= TotalWeight(agenda, SentWithin(f, 0, u))
    BY <1>7, <2>2, <2>3, <2>6
  <2>9. room \in Int
    BY RoomIsNumber
  <2> HIDE DEF room
  <2> QED BY <1>7, <2>3, <2>7, <2>8, <2>9
<1>9. CASE prepared = <<>>
  <2>1. TotalOf(prepared) = 0
    <3>1. \A i \in 1 .. Len(prepared) : GrantBytes[prepared[i]] = 0
      BY <1>9
    <3>2. GrantBytes \in [Grants -> Nat]
      BY DEF Grants, GrantBytes
    <3> QED BY <1>1, <1>7, <3>1, <3>2, WeightZero
  <2>2. room \in Nat
    BY RoomIsNumber
  <2> QED BY <2>1, <2>2
<1>10. CASE prepared # <<>>
  <2>1. PICK u \in Nat : /\ DumpedAt(agenda, f, u) /\ u <= PrepTicks + LastAfter
                         /\ \A k \in 1 .. Len(prepared) : prepared[k].in <= u
    BY <1>3, <1>10 DEF Await
  <2>2. u \in Closings(agenda, f)
    BY <2>1 DEF DumpedAt, Closings
  <2> QED BY <1>8, <2>1, <2>2
<1> QED BY <1>9, <1>10

\* So the staging queue has room for the packets of all that is prepared.
LEMMA StagedFits ==
  ASSUME UpstreamInv, Drained, Spared, Reached, StagingFits
  PROVE  DeviceQueueFits
<1> SUFFICES ASSUME NEW f \in Flows PROVE SumSeq(device[f]) <= DeviceQueueSize
  BY DEF DeviceQueueFits
<1> DEFINE staged == SumSeq(device[f])
           held == DeviceBytes(f)
           total == TotalOf(transmitPipeline[f])
           before == (PrepTicks \div FrameTicks) * FrameBytes
<1>1. held = staged + frag[f].size - frag[f].sent
  BY DEF DeviceBytes
<1>2. /\ frag[f].size \in Nat /\ frag[f].sent \in Nat /\ frag[f].sent <= frag[f].size
      /\ staged \in Nat
  BY BytesFacts, SumIsNat DEF UpstreamInv, QueuesTyped
<1>3. total <= before + GrantedInAMap /\ total \in Nat
  BY PreparedFits, PipesTyped, TotalFacts
<1>4. before \in Int /\ GrantedInAMap \in Nat /\ DeviceQueueSize = 2 * GrantedInAMap
  <2>1. FrameBytes \in Nat /\ GrantedInAMap \in Nat
    <3>1. MinislotsPerFrame \in Nat /\ MinislotsPerMap \in Nat
      BY ConstantFacts, ProductFacts DEF MinislotsPerMap
    <3> QED BY <3>1, MinislotFacts DEF FrameBytes, GrantedInAMap
  <2>2. PrepTicks \div FrameTicks \in Nat
    <3>1. PrepTicks \in Nat /\ FrameTicks \in Nat /\ FrameTicks > 0
      BY ConstantFacts
    <3> QED BY <3>1, Z3
  <2> QED BY <2>1, <2>2, ProductFacts DEF DeviceQueueSize, GrantedInAMap
<1>5. held = 0 \/ \E size \in Sizes : held < total + size
  BY DEF Spared, Spare
<1>6. ASSUME NEW size \in Sizes PROVE before + size <= GrantedInAMap + 1 /\ size \in Nat
  BY TrafficAssumption DEF StagingFits, FrameBytes, GrantedInAMap
<1> HIDE DEF staged, held, total, before
<1>7. staged <= 2 * GrantedInAMap
  <2>1. CASE held = 0
    BY <1>1, <1>2, <1>4, <2>1
  <2>2. ASSUME NEW size \in Sizes, held < total + size PROVE staged <= 2 * GrantedInAMap
    BY <1>1, <1>2, <1>3, <1>4, <1>6, <2>2
  <2> QED BY <1>5, <2>1, <2>2
<1> QED BY <1>4, <1>7 DEF staged

\* The staging queue never fills, so PrepareBurst does not end in a fatal error,
\* if a packet and the frames of the preparation time are no more than a MAP: what
\* is prepared is for the frames until the dump of the last grant, and these
\* follow each other within the preparation time and a MAP.
THEOREM DeviceNeverFull == StagingFits => (Spec => []DeviceQueueFits)
<1> SUFFICES ASSUME StagingFits PROVE Spec => []DeviceQueueFits
  OBVIOUS
<1>1. Init => Drained /\ Spared /\ Reached
  BY StartDrained, StartSpared, StartReached
<1>2. UpstreamInv /\ (Drained /\ Spared /\ Reached) /\ [Next]_vars => (Drained /\ Spared /\ Reached)'
  BY StepDrained, StepSpared, StepReached
<1>3. UpstreamInv /\ (Drained /\ Spared /\ Reached) => DeviceQueueFits
  BY StagedFits
<1> QED BY <1>1, <1>2, <1>3, UpstreamInvariant, PTL DEF Spec
=============================================================================
