--------------------------- MODULE ChannelsProofs ---------------------------
(* Theorems about Channels, for every value of its constants.              *)
EXTENDS Channels, CollectionLemmas

(* Below the threshold it was measured with, and no trace of an earlier    *)
(* switch-off.                                                             *)
Sound(x) == x.enabled => (x.failures = 0 \/ x.failures < x.measured) /\ ~x.off

RowsTyped ==
    /\ disableAfter \in Thresholds
    /\ row \in [Channels -> Row \cup {None}]
    /\ editor \in [channel: Channels, copy: Row] \cup {None}

(* A copy that waits to be saved is as sound as the row it was read from,  *)
(* unless that was a row a save had put back.                              *)
CopySound == editor # None /\ editor.channel \notin revived => Sound(editor.copy)

(* The inductive invariant.                                                *)
ChannelsInv == RowsTyped /\ EnabledIsSound /\ CopySound

-----------------------------------------------------------------------------
(* Rows.                                                                   *)

LEMMA RowOrNone ==
    ASSUME RowsTyped, NEW c \in Channels
    PROVE  Exists(c) => row[c] \in Row
BY DEF RowsTyped, Exists

LEMMA NewRowSound ==
    ASSUME NEW w \in Weights
    PROVE  NewRow(w) \in Row /\ Sound(NewRow(w))
BY ChannelsAssumption DEF NewRow, Row, Sound

(* What a failure makes of a row.                                          *)
Failed(x) ==
    [x EXCEPT !.failures = @ + 1,
              !.enabled = StaysEnabled(x, x.failures + 1),
              !.off = @ \/ (x.enabled /\ ~StaysEnabled(x, x.failures + 1)),
              !.measured = disableAfter]

LEMMA FailedRow ==
    ASSUME RowsTyped, NEW x \in Row, x.failures < MaxFailures
    PROVE  Failed(x) \in Row /\ (Sound(x) => Sound(Failed(x)))
<1> DEFINE n == x.failures + 1
           stays == StaysEnabled(x, n)
           off == x.off \/ (x.enabled /\ ~stays)
           m == disableAfter
<1>1. Failed(x) = [x EXCEPT !.failures = n, !.enabled = stays, !.off = off, !.measured = m]
  BY DEF Failed, Row
<1>2. n \in 0 .. MaxFailures /\ stays \in BOOLEAN /\ off \in BOOLEAN /\ m \in 0 .. MaxFailures
  BY ChannelsAssumption DEF Row, StaysEnabled, RowsTyped
<1>3. stays => x.enabled /\ n < m
  BY DEF StaysEnabled
<1>4. stays /\ x.enabled /\ ~x.off => ~off
  OBVIOUS
<1> HIDE DEF n, stays, off, m
<1>5. /\ Failed(x) \in Row
      /\ Failed(x).failures = n /\ Failed(x).enabled = stays /\ Failed(x).off = off
      /\ Failed(x).measured = m
  BY <1>1, <1>2 DEF Row
<1> QED
  BY <1>3, <1>4, <1>5 DEF Sound

LEMMA ClearedRow ==
    ASSUME NEW x \in Row
    PROVE  /\ [x EXCEPT !.failures = 0, !.measured = 0] \in Row
           /\ Sound(x) => Sound([x EXCEPT !.failures = 0, !.measured = 0])
<1> DEFINE none == 0
<1>1. none \in 0 .. MaxFailures /\ none = 0
  BY ChannelsAssumption
<1>2. [x EXCEPT !.failures = 0, !.measured = 0] = [x EXCEPT !.failures = none, !.measured = none]
  OBVIOUS
<1> HIDE DEF none
<1>3. /\ [x EXCEPT !.failures = none, !.measured = none] \in Row
      /\ Sound(x) => Sound([x EXCEPT !.failures = none, !.measured = none])
  BY <1>1 DEF Row, Sound
<1> QED
  BY <1>2, <1>3

(* A report on a channel, by whoever it is.                                *)
Report(c) == RecordChannelFailure(c) \/ RecordChannelSuccess(c) \/ UNCHANGED row

LEMMA ReportKeepsSound ==
    ASSUME RowsTyped, EnabledIsSound, NEW c, Report(c)
    PROVE  /\ row' \in [Channels -> Row \cup {None}]
           /\ \A d \in Channels \ revived : Exists(d)' => Sound(row'[d])
<1>1. \A d \in Channels \ revived : Exists(d) => Sound(row[d])
  BY DEF EnabledIsSound, Sound
<1>2. row \in [Channels -> Row \cup {None}]
  BY DEF RowsTyped
<1>3. CASE row' = row
  BY <1>1, <1>2, <1>3 DEF Exists
<1>4. ASSUME c \in Channels, Exists(c), NEW y \in Row, row' = [row EXCEPT ![c] = y],
             Sound(row[c]) => Sound(y)
      PROVE  /\ row' \in [Channels -> Row \cup {None}]
             /\ \A d \in Channels \ revived : Exists(d)' => Sound(row'[d])
  BY <1>1, <1>2, <1>4 DEF Exists
<1>5. CASE c \in Channels /\ Exists(c) /\ row' # row
  <2>1. row[c] \in Row
    BY <1>5, RowOrNone
  <2>2. CASE RecordChannelFailure(c)
    <3>1. row' = [row EXCEPT ![c] = Failed(row[c])] /\ row[c].failures < MaxFailures
      BY <1>5, <2>2 DEF RecordChannelFailure, Failed
    <3> QED
      BY <1>4, <1>5, <2>1, <3>1, FailedRow
  <2>3. CASE RecordChannelSuccess(c)
    <3>1. row' = [row EXCEPT ![c] = [row[c] EXCEPT !.failures = 0, !.measured = 0]]
      BY <1>2, <1>5, <2>3 DEF RecordChannelSuccess
    <3> QED
      BY <1>4, <1>5, <2>1, <3>1, ClearedRow
  <2> QED
    BY <1>5, <2>2, <2>3 DEF Report
<1>6. CASE ~(c \in Channels /\ Exists(c))
  <2>1. c \notin Channels \/ ~Exists(c)
    BY <1>6
  <2>2. row' = row
    BY <1>2, <2>1 DEF Report, RecordChannelFailure, RecordChannelSuccess
  <2> QED
    BY <1>3, <2>2
<1> QED
  BY <1>3, <1>5, <1>6

(* The edited row is as sound as the copy it was made from.                *)
LEMMA EditedRow ==
    ASSUME NEW x \in Row, NEW enabled \in BOOLEAN, NEW w \in Weights
    PROVE  /\ Edited(x, enabled, w) \in Row
           /\ [Edited(x, enabled, w) EXCEPT !.enabled = TRUE] \in Row
           /\ Sound(x) => Sound(Edited(x, enabled, w))
<1> DEFINE on == TRUE
           out == FALSE
           none == 0
           new == Edited(x, enabled, w)
<1>1. on \in BOOLEAN /\ out \in BOOLEAN /\ none \in 0 .. MaxFailures
      /\ none = 0 /\ ~out
  BY ChannelsAssumption
<1>2. \/ new = [x EXCEPT !.enabled = on, !.failures = none, !.off = out, !.weight = w,
                        !.measured = none]
      \/ new = [x EXCEPT !.enabled = enabled, !.weight = w] /\ (enabled => x.enabled)
  BY DEF Edited
<1>3. [new EXCEPT !.enabled = TRUE] = [new EXCEPT !.enabled = on]
  OBVIOUS
<1> HIDE DEF on, out, none, new
<1>4. new \in Row /\ (Sound(x) => Sound(new))
  BY <1>1, <1>2 DEF Row, Sound
<1>5. [new EXCEPT !.enabled = on] \in Row
  BY <1>1, <1>4 DEF Row
<1> QED
  BY <1>3, <1>4, <1>5 DEF new

-----------------------------------------------------------------------------
(* Preservation.                                                           *)

(* The steps that leave rows, copies and the history of saves alone.       *)
LEMMA QuietStepPreserves ==
    ASSUME ChannelsInv, UNCHANGED <<row, disableAfter, editor, revived>>
    PROVE  ChannelsInv'
BY DEF ChannelsInv, RowsTyped, EnabledIsSound, CopySound, Exists, Sound

LEMMA ReportPreserves ==
    ASSUME ChannelsInv, NEW c, Report(c), UNCHANGED <<disableAfter, editor, revived>>
    PROVE  ChannelsInv'
<1>1. /\ row' \in [Channels -> Row \cup {None}]
      /\ \A d \in Channels \ revived : Exists(d)' => Sound(row'[d])
  BY ReportKeepsSound DEF ChannelsInv
<1> QED
  BY <1>1 DEF ChannelsInv, RowsTyped, EnabledIsSound, CopySound, Exists, Sound

LEMMA RecoveryPreserves ==
    ASSUME ChannelsInv, recoverAutoDisabledChannels
    PROVE  ChannelsInv'
<1>1. row \in [Channels -> Row \cup {None}] /\ UNCHANGED <<disableAfter, editor, revived>>
  BY DEF ChannelsInv, RowsTyped, recoverAutoDisabledChannels
<1>2. row' = [c \in Channels |->
                IF Exists(c) /\ Recoverable(row[c]) THEN NewRow(row[c].weight) ELSE row[c]]
  BY DEF recoverAutoDisabledChannels
<1>3. ASSUME NEW c \in Channels
      PROVE  \/ row'[c] = row[c]
             \/ row'[c] \in Row /\ Sound(row'[c])
  <2>1. CASE Exists(c) /\ Recoverable(row[c])
    <3>1. row[c] \in Row
      BY <2>1, RowOrNone DEF ChannelsInv
    <3>2. row[c].weight \in Weights
      BY <3>1 DEF Row
    <3> QED
      BY <1>2, <2>1, <3>2, NewRowSound
  <2> QED
    BY <1>2, <2>1
<1>4. row' \in [Channels -> Row \cup {None}]
  <2>1. \A c \in Channels : row'[c] \in Row \cup {None}
    BY <1>1, <1>3
  <2>2. row' = [c \in Channels |-> row'[c]]
    BY <1>2
  <2> QED
    BY <2>1, <2>2
<1>5. EnabledIsSound'
  BY <1>1, <1>3 DEF ChannelsInv, EnabledIsSound, Exists, Sound
<1> QED
  BY <1>1, <1>4, <1>5 DEF ChannelsInv, RowsTyped, CopySound

LEMMA AdministratorPreserves ==
    ASSUME ChannelsInv,
           \/ \E c \in Channels : BeginUpdate(c) \/ Delete(c)
           \/ \E enabled \in BOOLEAN, w \in Weights : Update(enabled, w)
    PROVE  ChannelsInv'
<1>1. row \in [Channels -> Row \cup {None}] /\ editor \in [channel: Channels, copy: Row] \cup {None}
  BY DEF ChannelsInv, RowsTyped
<1>2. ASSUME NEW c \in Channels, BeginUpdate(c)
      PROVE  ChannelsInv'
  <2>1. Exists(c) /\ editor' = [channel |-> c, copy |-> row[c]] /\ UNCHANGED <<row, disableAfter, revived>>
    BY <1>2 DEF BeginUpdate
  <2>2. row[c] \in Row /\ (c \notin revived => Sound(row[c]))
    BY <2>1, RowOrNone DEF ChannelsInv, EnabledIsSound, Sound
  <2> QED
    BY <1>1, <2>1, <2>2 DEF ChannelsInv, RowsTyped, EnabledIsSound, CopySound, Exists
<1>3. ASSUME NEW c \in Channels, Delete(c)
      PROVE  ChannelsInv'
  BY <1>1, <1>3 DEF Delete, ChannelsInv, RowsTyped, EnabledIsSound, CopySound, Exists
<1>4. ASSUME NEW enabled \in BOOLEAN, NEW w \in Weights, Update(enabled, w)
      PROVE  ChannelsInv'
  <2> DEFINE c == editor.channel
             copy == editor.copy
             new == Edited(copy, enabled, w)
             back == [new EXCEPT !.enabled = TRUE]
  <2>1. /\ editor # None /\ editor' = None
        /\ row' = [row EXCEPT ![c] = IF Exists(c) THEN new ELSE back]
        /\ revived' = IF Exists(c) THEN revived ELSE revived \cup {c}
        /\ disableAfter' = disableAfter /\ disableAfter \in Thresholds
    BY <1>4 DEF Update, ChannelsInv, RowsTyped
  <2>2. c \in Channels /\ copy \in Row /\ (c \notin revived => Sound(copy))
    BY <1>1, <2>1 DEF ChannelsInv, CopySound
  <2>3. new \in Row /\ back \in Row /\ (Sound(copy) => Sound(new))
    <3> HIDE DEF copy
    <3> QED
      BY <2>2, EditedRow
  <2> HIDE DEF c, copy, new, back
  <2>4. RowsTyped'
    BY <1>1, <2>1, <2>2, <2>3 DEF RowsTyped
  <2>5. ASSUME NEW d \in Channels, d \notin revived', Exists(d)'
        PROVE  Sound(row'[d])
    <3>1. CASE d = c
      <4>1. Exists(c) /\ row'[c] = new /\ c \notin revived
        BY <1>1, <2>1, <2>2, <2>5, <3>1
      <4> QED
        BY <2>2, <2>3, <3>1, <4>1
    <3>2. CASE d # c
      <4>1. row'[d] = row[d] /\ d \notin revived
        BY <1>1, <2>1, <2>5, <3>2
      <4> QED
        BY <2>5, <4>1 DEF ChannelsInv, EnabledIsSound, Sound, Exists
    <3> QED
      BY <3>1, <3>2
  <2>6. EnabledIsSound'
    BY <2>5 DEF EnabledIsSound, Sound
  <2> QED
    BY <2>1, <2>4, <2>6 DEF ChannelsInv, CopySound
<1> QED
  BY <1>2, <1>3, <1>4

-----------------------------------------------------------------------------
(* The theorem.                                                            *)

LEMMA ChannelsInitial == ChannelsInit => ChannelsInv
<1> SUFFICES ASSUME ChannelsInit
             PROVE  ChannelsInv
  OBVIOUS
<1>1. \A c \in Channels : row[c] \in Row /\ Sound(row[c])
  BY NewRowSound, ChannelsAssumption DEF ChannelsInit
<1>2. row \in [Channels -> Row \cup {None}] /\ editor = None /\ disableAfter \in Thresholds
  BY <1>1 DEF ChannelsInit
<1> QED
  BY <1>1, <1>2 DEF ChannelsInv, RowsTyped, EnabledIsSound, CopySound, Sound

LEMMA ChannelsStep == ChannelsInv /\ [ChannelsNext]_channelVars => ChannelsInv'
<1> SUFFICES ASSUME ChannelsInv, [ChannelsNext]_channelVars
             PROVE  ChannelsInv'
  OBVIOUS
<1>1. ASSUME NEW r \in Requests, resolveTarget(r) \/ Select(r)
      PROVE  ChannelsInv'
  <2>1. UNCHANGED <<row, disableAfter, editor, revived>>
    BY <1>1 DEF resolveTarget, Select, Untouched
  <2> QED
    BY <2>1, QuietStepPreserves
<1>2. ASSUME NEW r \in Requests, recordUpstreamResult(r)
      PROVE  ChannelsInv'
  <2>1. Report(request[r].channel) /\ UNCHANGED <<disableAfter, editor, revived>>
    BY <1>2 DEF recordUpstreamResult, Report
  <2> QED
    BY <2>1, ReportPreserves
<1>3. CASE checkChannel
  <2>1. Report(Min(prober)) /\ UNCHANGED <<disableAfter, editor, revived>>
    BY <1>3 DEF checkChannel, Report
  <2> QED
    BY <2>1, ReportPreserves
<1>4. CASE recoverAutoDisabledChannels
  BY <1>4, RecoveryPreserves
<1>5. CASE \/ \E due \in SUBSET Channels : ScanDue(due)
           \/ UNCHANGED channelVars
  <2>1. UNCHANGED <<row, disableAfter, editor, revived>>
    BY <1>5 DEF ScanDue, channelVars
  <2> QED
    BY <2>1, QuietStepPreserves
<1>6. ASSUME NEW on \in SUBSET Settings, NEW n \in Thresholds, UpdateSettings(on, n)
      PROVE  ChannelsInv'
  BY <1>6 DEF UpdateSettings, ChannelsInv, RowsTyped, EnabledIsSound, CopySound, Exists, Sound
<1> QED
  BY <1>1, <1>2, <1>3, <1>4, <1>5, <1>6, AdministratorPreserves DEF ChannelsNext

(* An enabled channel is below the threshold its last failure was measured *)
(* with and bears no trace of an earlier switch-off, for any number of     *)
(* channels, requests, administrators' saves and changes of the threshold: *)
(* however reports, checks, recoveries and saves of old copies interleave. *)
THEOREM EnabledChannelsSound == ChannelsSpec => []EnabledIsSound
<1>1. ChannelsInv => EnabledIsSound
  BY DEF ChannelsInv
<1> QED
  BY <1>1, ChannelsInitial, ChannelsStep, PTL DEF ChannelsSpec

-----------------------------------------------------------------------------
(* Arithmetic of rounds.                                                   *)

(* A round visits each of its positions.                                   *)
LEMMA OtherPosition ==
    ASSUME NEW a \in Nat, NEW k \in Nat, NEW n \in Nat, 0 < k, k < n
    PROVE  (a + k) % n # a % n
<1> DEFINE p == a \div n
           q == (a + k) \div n
           r == a % n
           s == (a + k) % n
<1>1. p \in Int /\ q \in Int /\ r \in Int /\ s \in Int
  OBVIOUS
<1>2. a = (n * p) + r
  OBVIOUS
<1>3. a + k \in Nat
  OBVIOUS
<1>4. a + k = (n * q) + s
  BY <1>3
<1> HIDE DEF p, q, r, s
<1>5. ASSUME r = s PROVE FALSE
  <2> DEFINE np == n * p
             nq == n * q
  <2>1. np \in Int /\ nq \in Int
    BY <1>1
  <2>2. a = np + r /\ a + k = nq + r
    BY <1>2, <1>4, <1>5
  <2>3. p < q => np + n <= nq
    BY <1>1
  <2>4. ~(p < q) => nq <= np
    BY <1>1
  <2> HIDE DEF np, nq
  <2>5. nq - np = k
    BY <1>1, <2>1, <2>2
  <2> QED
    BY <2>1, <2>3, <2>4, <2>5
<1> QED
  BY <1>5 DEF r, s

(* The positions of n draws that begin with draw b.                        *)
Rotation(b, n) == [j \in 1 .. n |-> (b + j - 1) % n]

LEMMA RotationVisitsAll ==
    ASSUME NEW b \in Nat, NEW n \in Nat, n > 0
    PROVE  Rotation(b, n) \in Bijection(1 .. n, 0 .. n - 1)
<1> DEFINE f == Rotation(b, n)
<1>1. \A j \in 1 .. n : b + j - 1 \in Nat
  OBVIOUS
<1>2. ASSUME NEW j \in 1 .. n PROVE f[j] \in 0 .. n - 1
  <2>1. f[j] = (b + j - 1) % n
    BY DEF Rotation
  <2>2. PICK a \in Nat : a = b + j - 1
    BY <1>1
  <2>3. a % n \in 0 .. n - 1
    OBVIOUS
  <2> QED
    BY <2>1, <2>2, <2>3
<1>3. f \in [1 .. n -> 0 .. n - 1]
  BY <1>2 DEF Rotation
<1>4. ASSUME NEW i \in 1 .. n, NEW j \in 1 .. n, i < j
      PROVE  f[i] # f[j]
  <2>1. PICK a \in Nat : a = b + i - 1
    BY <1>1
  <2>2. PICK k \in Nat : k = j - i
    BY <1>4
  <2>3. 0 < k /\ k < n /\ a + k = b + j - 1
    BY <1>4, <2>1, <2>2
  <2>4. (a + k) % n # a % n
    BY <2>3, OtherPosition
  <2>5. f[i] = a % n /\ f[j] = (a + k) % n
    BY <2>1, <2>3 DEF Rotation
  <2> QED
    BY <2>4, <2>5
<1> HIDE DEF f
<1>5. \A i, j \in 1 .. n : f[i] = f[j] => i = j
  <2> SUFFICES ASSUME NEW i \in 1 .. n, NEW j \in 1 .. n, i # j
               PROVE  f[i] # f[j]
    OBVIOUS
  <2>1. i < j \/ j < i
    OBVIOUS
  <2> QED
    BY <2>1, <1>4
<1>6. f \in Injection(1 .. n, 0 .. n - 1)
  BY <1>3, <1>5 DEF Injection, IsInjective
<1>7. /\ IsFiniteSet(1 .. n) /\ Cardinality(1 .. n) = n
      /\ IsFiniteSet(0 .. n - 1) /\ Cardinality(0 .. n - 1) = n
  <2>1. /\ IsFiniteSet(1 .. n) /\ Cardinality(1 .. n) = IF 1 > n THEN 0 ELSE n - 1 + 1
        /\ IsFiniteSet(0 .. n - 1)
        /\ Cardinality(0 .. n - 1) = IF 0 > n - 1 THEN 0 ELSE n - 1 - 0 + 1
    BY FS_Interval
  <2> QED
    BY <2>1
<1>8. f \in Surjection(1 .. n, 0 .. n - 1)
  BY <1>6, <1>7, FS_Injection
<1> QED
  BY <1>6, <1>8 DEF f, Bijection

(* Those of them that fall on an interval of positions.                    *)
DrawnOn(b, n, low, high) ==
    {j \in 1 .. n : low <= (b + j - 1) % n /\ (b + j - 1) % n < high}

LEMMA DrawsOnInterval ==
    ASSUME NEW b \in Nat, NEW n \in Nat, n > 0,
           NEW low \in Nat, NEW high \in Nat, low <= high, high <= n
    PROVE  Cardinality(DrawnOn(b, n, low, high)) = high - low
<1> DEFINE f == Rotation(b, n)
           drawn == {j \in 1 .. n : low <= f[j] /\ f[j] < high}
           wanted == low .. high - 1
           g == [j \in drawn |-> f[j]]
<1>1. drawn = DrawnOn(b, n, low, high)
  BY DEF Rotation, DrawnOn
<1>2. f \in Bijection(1 .. n, 0 .. n - 1)
  BY RotationVisitsAll
<1> HIDE DEF f
<1>3. f \in [1 .. n -> 0 .. n - 1] /\ \A i, j \in 1 .. n : f[i] = f[j] => i = j
  BY <1>2 DEF Bijection, Injection, IsInjective
<1>4. \A t \in 0 .. n - 1 : \E s \in 1 .. n : f[s] = t
  BY <1>2 DEF Bijection, Surjection
<1>5. g \in [drawn -> wanted]
  <2> SUFFICES ASSUME NEW j \in drawn PROVE f[j] \in wanted
    OBVIOUS
  <2>1. f[j] \in 0 .. n - 1 /\ low <= f[j] /\ f[j] < high
    BY <1>3
  <2> QED
    BY <2>1
<1>6. \A i, j \in drawn : g[i] = g[j] => i = j
  BY <1>3
<1>7. ASSUME NEW t \in wanted PROVE \E s \in drawn : g[s] = t
  <2>1. t \in 0 .. n - 1 /\ low <= t /\ t < high
    OBVIOUS
  <2>2. PICK s \in 1 .. n : f[s] = t
    BY <1>4, <2>1
  <2> QED
    BY <2>1, <2>2
<1>8. IsFiniteSet(1 .. n)
  BY FS_Interval
<1>9. IsFiniteSet(drawn)
  <2>1. drawn \in SUBSET (1 .. n)
    OBVIOUS
  <2> HIDE DEF drawn
  <2> QED
    BY <1>8, <2>1, FS_Subset
<1>10. Cardinality(wanted) = high - low
  <2>1. Cardinality(low .. high - 1) = IF low > high - 1 THEN 0 ELSE high - 1 - low + 1
    BY FS_Interval
  <2> QED
    BY <2>1
<1> HIDE DEF g, drawn, wanted
<1>11. g \in Bijection(drawn, wanted)
  BY <1>5, <1>6, <1>7 DEF Bijection, Injection, Surjection, IsInjective
<1>12. Cardinality(wanted) = Cardinality(drawn)
  BY <1>9, <1>11, FS_Bijection DEF ExistsBijection
<1> QED
  BY <1>1, <1>10, <1>12

-----------------------------------------------------------------------------
(* The shares of the candidates.                                           *)

(* Candidates in an order, no channel twice, and the weights they had.     *)
Lined(cands, weight) ==
    /\ cands \in Seq(Channels) /\ weight \in [Channels -> Int]
    /\ \A i, j \in DOMAIN cands : cands[i] = cands[j] => i = j

LEMMA ShareIs ==
    ASSUME NEW cands, NEW weight, Lined(cands, weight), NEW i \in 1 .. Len(cands)
    PROVE  Share(cands, weight, i) \in Nat \ {0}
<1>1. cands[i] \in Channels
  BY DEF Lined
<1>2. weight[cands[i]] \in Int
  BY <1>1 DEF Lined
<1> QED
  BY <1>2 DEF Share, normalizedChannelWeight

LEMMA BeforeGrows ==
    ASSUME NEW cands, NEW weight, Lined(cands, weight)
    PROVE  /\ SharesBefore(cands, weight, 0) = 0
           /\ \A i \in 1 .. Len(cands) :
                SharesBefore(cands, weight, i)
                  = SharesBefore(cands, weight, i - 1) + Share(cands, weight, i)
<1> DEFINE share(j) == Share(cands, weight, j)
           f(i) == [j \in 1 .. i |-> share(j)]
<1>1. \A i : SharesBefore(cands, weight, i) = SumFunctionOnSet(f(i), 1 .. i)
  BY DEF SharesBefore
<1>2. \A i \in 1 .. Len(cands) : share(i) \in Int
  BY ShareIs
<1> HIDE DEF share
<1>3. SumFunctionOnSet(f(0), 1 .. 0) = 0
  <2>1. 1 .. 0 = {}
    OBVIOUS
  <2> QED
    BY <2>1, SumOfNone
<1>4. ASSUME NEW i \in 1 .. Len(cands)
      PROVE  SumFunctionOnSet(f(i), 1 .. i) = SumFunctionOnSet(f(i - 1), 1 .. i - 1) + share(i)
  <2> DEFINE old == f(i - 1)
             new == f(i)
             S == 1 .. i - 1
  <2>1. Len(cands) \in Nat
    BY DEF Lined
  <2>2. IsFiniteSet(S) /\ i \notin S /\ S \cup {i} = 1 .. i
    <3>1. i \in Nat \ {0} /\ i - 1 \in Int
      BY <2>1
    <3>2. IsFiniteSet(S)
      BY <3>1, FS_Interval
    <3> QED
      BY <3>1, <3>2
  <2>3. new[i] = share(i)
    OBVIOUS
  <2>4. \A y \in S : old[y] \in Int /\ new[y] = old[y]
    BY <1>2, <2>1
  <2>5. share(i) \in Int
    BY <1>2
  <2> HIDE DEF old, new, S
  <2>6. SumFunctionOnSet(new, S \cup {i}) = SumFunctionOnSet(old, S) + new[i]
    BY <2>2, <2>3, <2>4, <2>5, SumGrows
  <2> QED
    BY <2>2, <2>3, <2>6 DEF old, new, S
<1> QED
  BY <1>1, <1>3, <1>4 DEF share

LEMMA BeforeOrdered ==
    ASSUME NEW cands, NEW weight, Lined(cands, weight)
    PROVE  \A i \in 0 .. Len(cands) :
             /\ SharesBefore(cands, weight, i) \in Nat
             /\ SharesBefore(cands, weight, i) >= i
             /\ \A j \in 0 .. i : SharesBefore(cands, weight, j) <= SharesBefore(cands, weight, i)
<1> DEFINE before(i) == SharesBefore(cands, weight, i)
           share(i) == Share(cands, weight, i)
           Good(i) == before(i) \in Nat /\ before(i) >= i /\ \A j \in 0 .. i : before(j) <= before(i)
           n == Len(cands)
           T == {i \in Nat : i > n \/ \A k \in 0 .. i : Good(k)}
<1>1. n \in Nat
  BY DEF Lined
<1>2. before(0) = 0 /\ \A i \in 1 .. n : before(i) = before(i - 1) + share(i)
  BY BeforeGrows
<1>3. \A i \in 1 .. n : share(i) \in Nat \ {0}
  BY ShareIs
<1> HIDE DEF before, share, n
<1>4. 0 \in T
  BY <1>2
<1>5. ASSUME NEW i \in T PROVE i + 1 \in T
  <2>1. i \in Nat
    OBVIOUS
  <2>2. CASE i + 1 > n
    BY <2>1, <2>2
  <2>3. CASE i + 1 <= n
    <3>1. \A k \in 0 .. i : Good(k)
      BY <1>1, <2>1, <2>3
    <3>2. before(i) \in Nat /\ before(i) >= i /\ \A j \in 0 .. i : before(j) <= before(i)
      BY <2>1, <3>1
    <3>3. i + 1 \in 1 .. n /\ (i + 1) - 1 = i
      BY <1>1, <2>1, <2>3
    <3>4. before(i + 1) = before(i) + share(i + 1) /\ share(i + 1) \in Nat \ {0}
      BY <1>2, <1>3, <3>3
    <3>5. \A j \in 0 .. i : before(j) \in Nat
      BY <3>1
    <3>6. ASSUME NEW j \in 0 .. i + 1 PROVE before(j) <= before(i + 1)
      <4>1. j \in 0 .. i \/ j = i + 1
        BY <2>1
      <4> QED
        BY <3>2, <3>4, <3>5, <4>1
    <3>7. before(i + 1) \in Nat /\ before(i + 1) >= i + 1
      BY <2>1, <3>2, <3>4
    <3>8. Good(i + 1)
      BY <3>6, <3>7
    <3>9. \A k \in 0 .. i + 1 : k \in 0 .. i \/ k = i + 1
      BY <2>1
    <3> HIDE DEF Good
    <3>10. \A k \in 0 .. i + 1 : Good(k)
      BY <3>1, <3>8, <3>9
    <3> QED
      BY <2>1, <3>10
  <2> QED
    BY <1>1, <2>1, <2>2, <2>3
<1>6. T = Nat
  <2>1. T \in SUBSET Nat
    OBVIOUS
  <2> HIDE DEF T
  <2> QED
    BY <1>4, <1>5, <2>1, SetInduction
<1>7. n \in T
  BY <1>1, <1>6
<1>8. \A k \in 0 .. n : Good(k)
  BY <1>1, <1>7
<1> QED
  BY <1>8 DEF before, n

(* The candidate that holds a position.                                    *)
Holder(cands, weight, p) ==
    CHOOSE i \in DOMAIN cands :
      /\ p < SharesBefore(cands, weight, i)
      /\ \A j \in 1 .. i - 1 : p >= SharesBefore(cands, weight, j)

LEMMA PositionIs ==
    ASSUME NEW cands, NEW weight, NEW n
    PROVE  Position(cands, weight, n)
             = cands[Holder(cands, weight, n % RoundLength(cands, weight))]
BY DEF Position, Holder

LEMMA HolderOfPosition ==
    ASSUME NEW cands, NEW weight, Lined(cands, weight),
           NEW p \in Nat, p < RoundLength(cands, weight)
    PROVE  /\ Holder(cands, weight, p) \in 1 .. Len(cands)
           /\ \A i \in 1 .. Len(cands) :
                Holder(cands, weight, p) = i
                  <=> SharesBefore(cands, weight, i - 1) <= p /\ p < SharesBefore(cands, weight, i)
<1> DEFINE before(i) == SharesBefore(cands, weight, i)
           n == Len(cands)
           T == {i \in 1 .. n : p < before(i)}
           h == Holder(cands, weight, p)
<1>1. n \in Nat /\ DOMAIN cands = 1 .. n
  BY DEF Lined
<1>2. \A i \in 0 .. n : before(i) \in Nat /\ \A j \in 0 .. i : before(j) <= before(i)
  BY BeforeOrdered
<1>3. before(0) = 0
  BY BeforeGrows
<1>4. p < before(n)
  BY DEF RoundLength
<1>5. h = CHOOSE i \in 1 .. n : p < before(i) /\ \A j \in 1 .. i - 1 : p >= before(j)
  BY <1>1 DEF Holder
<1> HIDE DEF before, n, h
<1>6. n \in T
  BY <1>1, <1>2, <1>3, <1>4
<1>7. PICK m \in T : \A i \in T : ~(i < m)
  <2>1. T \in SUBSET Nat
    OBVIOUS
  <2> HIDE DEF T
  <2> QED
    BY <1>6, <2>1, LeastNatural
<1>8. \A j \in 1 .. m - 1 : p >= before(j)
  <2> SUFFICES ASSUME NEW j \in 1 .. m - 1 PROVE p >= before(j)
    OBVIOUS
  <2>1. j \in 1 .. n /\ j < m
    BY <1>1
  <2>2. ~(p < before(j))
    BY <1>7, <2>1
  <2>3. before(j) \in Nat
    BY <1>1, <1>2, <2>1
  <2> QED
    BY <2>2, <2>3
<1>9. h \in 1 .. n /\ p < before(h) /\ \A j \in 1 .. h - 1 : p >= before(j)
  BY <1>5, <1>7, <1>8
<1>10. ASSUME h # 1 PROVE before(h - 1) <= p
  <2>1. h - 1 \in 1 .. h - 1 /\ h - 1 \in 0 .. n
    BY <1>1, <1>9, <1>10
  <2>2. before(h - 1) \in Nat
    BY <1>2, <2>1
  <2> QED
    BY <1>9, <2>1, <2>2
<1>11. before(h - 1) <= p
  BY <1>3, <1>10
<1>12. ASSUME NEW i \in 1 .. n, before(i - 1) <= p, p < before(i)
       PROVE  h = i
  <2>1. i \in 0 .. n /\ i - 1 \in 0 .. n /\ h \in 0 .. n /\ h - 1 \in 0 .. n
    BY <1>1, <1>9
  <2>2. before(i) \in Nat /\ before(i - 1) \in Nat /\ before(h) \in Nat /\ before(h - 1) \in Nat
    BY <1>2, <2>1
  <2>3. CASE h < i
    <3>1. h \in 0 .. i - 1
      BY <1>1, <1>9, <2>3
    <3>2. before(h) <= before(i - 1)
      BY <1>2, <2>1, <3>1
    <3> QED
      BY <1>9, <1>12, <2>2, <3>2
  <2>4. CASE i < h
    <3>1. i \in 0 .. h - 1
      BY <1>1, <1>9, <2>4
    <3>2. before(i) <= before(h - 1)
      BY <1>2, <2>1, <3>1
    <3> QED
      BY <1>11, <1>12, <2>2, <3>2
  <2> QED
    BY <1>9, <2>3, <2>4
<1> QED
  BY <1>9, <1>11, <1>12 DEF before, n, h

(* A round of draws takes every candidate as often as its share says.      *)
LEMMA RoundIsShared ==
    ASSUME NEW cands, NEW weight, Lined(cands, weight), NEW b \in Nat,
           NEW i \in 1 .. Len(cands)
    PROVE  Cardinality({j \in 1 .. RoundLength(cands, weight) :
                          Position(cands, weight, b + j - 1) = cands[i]})
             = Share(cands, weight, i)
<1> DEFINE n == RoundLength(cands, weight)
           low == SharesBefore(cands, weight, i - 1)
           high == SharesBefore(cands, weight, i)
           drawn == DrawnOn(b, n, low, high)
           taken == {j \in 1 .. n : Position(cands, weight, b + j - 1) = cands[i]}
<1>1. Len(cands) \in Nat /\ DOMAIN cands = 1 .. Len(cands)
  BY DEF Lined
<1>2. i \in 0 .. Len(cands) /\ i - 1 \in 0 .. Len(cands) /\ i - 1 \in 0 .. i
      /\ Len(cands) \in 0 .. Len(cands) /\ i \in 0 .. Len(cands)
  BY <1>1
<1>3. low \in Nat /\ high \in Nat /\ low <= high
  BY <1>2, BeforeOrdered
<1>4. n \in Nat /\ n >= Len(cands) /\ high <= n
  BY <1>2, BeforeOrdered DEF RoundLength
<1>5. n > 0
  BY <1>1, <1>4
<1>6. high = low + Share(cands, weight, i)
  BY BeforeGrows
<1>7. Share(cands, weight, i) \in Nat
  BY ShareIs
<1>8. ASSUME NEW j \in 1 .. n
      PROVE  Position(cands, weight, b + j - 1) = cands[i]
               <=> low <= (b + j - 1) % n /\ (b + j - 1) % n < high
  <2>1. PICK a \in Nat : a = b + j - 1
    BY <1>4
  <2>2. a % n \in Nat /\ a % n < n
    BY <1>4, <1>5
  <2>3. PICK p \in Nat : p = a % n /\ p < n
    BY <2>2
  <2>4. Position(cands, weight, a) = cands[Holder(cands, weight, p)]
    BY <2>3, PositionIs
  <2>5. /\ Holder(cands, weight, p) \in 1 .. Len(cands)
        /\ Holder(cands, weight, p) = i <=> low <= p /\ p < high
    BY <2>3, HolderOfPosition
  <2>6. cands[Holder(cands, weight, p)] = cands[i] <=> Holder(cands, weight, p) = i
    BY <1>1, <2>5 DEF Lined
  <2> QED
    BY <2>1, <2>3, <2>4, <2>5, <2>6
<1>9. taken = drawn
  BY <1>8 DEF DrawnOn
<1> HIDE DEF n, low, high
<1>10. Cardinality(drawn) = high - low
  BY <1>3, <1>4, <1>5, DrawsOnInterval
<1>11. high - low = Share(cands, weight, i)
  BY <1>3, <1>6, <1>7
<1> QED
  BY <1>9, <1>10, <1>11 DEF n

-----------------------------------------------------------------------------
(* The order of the query exists, and is a line of the channels found.     *)

LEMMA PrecedesOrders ==
    ASSUME NEW weight \in [Channels -> Int]
    PROVE  /\ \A c \in Channels : ~Precedes(weight, c, c)
           /\ \A c, d \in Channels : c # d => Precedes(weight, c, d) \/ Precedes(weight, d, c)
           /\ \A c, d, e \in Channels :
                Precedes(weight, c, d) /\ Precedes(weight, d, e) => Precedes(weight, c, e)
<1>1. \A c \in Channels : c \in Nat /\ Priority[c] \in Int /\ weight[c] \in Int
  BY RoutingAssumption
<1> QED
  BY <1>1 DEF Precedes

(* The channels before c.                                                  *)
Ahead(weight, S, c) == {d \in S : Precedes(weight, d, c)}

Rank(weight, S) == [c \in S |-> Cardinality(Ahead(weight, S, c)) + 1]

LEMMA RankOrders ==
    ASSUME NEW weight \in [Channels -> Int], NEW S \in SUBSET Channels
    PROVE  /\ IsFiniteSet(S) /\ Cardinality(S) \in Nat
           /\ Rank(weight, S) \in [S -> 1 .. Cardinality(S)]
           /\ \A c, d \in S : Precedes(weight, c, d) => Rank(weight, S)[c] < Rank(weight, S)[d]
<1> DEFINE ahead(c) == Ahead(weight, S, c)
<1>1. IsFiniteSet(S) /\ Cardinality(S) \in Nat
  BY RoutingAssumption, FS_Subset, FS_CardinalityType
<1>2. ASSUME NEW c \in S
      PROVE  /\ IsFiniteSet(ahead(c)) /\ Cardinality(ahead(c)) \in Nat
             /\ Cardinality(ahead(c)) + 1 \in 1 .. Cardinality(S)
  <2>1. ahead(c) \in SUBSET (S \ {c})
    BY PrecedesOrders DEF Ahead
  <2>2. IsFiniteSet(S \ {c}) /\ Cardinality(S \ {c}) = Cardinality(S) - 1
    BY <1>1, FS_RemoveElement
  <2> HIDE DEF ahead
  <2>3. IsFiniteSet(ahead(c)) /\ Cardinality(ahead(c)) <= Cardinality(S \ {c})
    BY <2>1, <2>2, FS_Subset
  <2>4. Cardinality(ahead(c)) \in Nat
    BY <2>3, FS_CardinalityType
  <2> QED
    BY <1>1, <2>2, <2>3, <2>4
<1>3. ASSUME NEW c \in S, NEW d \in S, Precedes(weight, c, d)
      PROVE  Cardinality(ahead(c)) + 1 < Cardinality(ahead(d)) + 1
  <2>1. c \in ahead(d)
    BY <1>3 DEF Ahead
  <2>2. ahead(c) \in SUBSET (ahead(d) \ {c})
    BY <1>3, PrecedesOrders DEF Ahead
  <2>3. IsFiniteSet(ahead(d)) /\ Cardinality(ahead(d)) \in Nat /\ Cardinality(ahead(c)) \in Nat
    BY <1>2
  <2> HIDE DEF ahead
  <2>4. IsFiniteSet(ahead(d) \ {c}) /\ Cardinality(ahead(d) \ {c}) = Cardinality(ahead(d)) - 1
    BY <2>1, <2>3, FS_RemoveElement
  <2>5. Cardinality(ahead(c)) <= Cardinality(ahead(d) \ {c})
    BY <2>2, <2>4, FS_Subset
  <2> QED
    BY <2>3, <2>4, <2>5
<1> QED
  BY <1>1, <1>2, <1>3 DEF Rank

LEMMA CandidatesExist ==
    ASSUME NEW weight \in [Channels -> Int], NEW S \in SUBSET Channels
    PROVE  \E cands \in [1 .. Cardinality(S) -> S] :
             \A i, j \in DOMAIN cands : i < j => Precedes(weight, cands[i], cands[j])
<1> DEFINE n == Cardinality(S)
           rank == Rank(weight, S)
<1>1. /\ IsFiniteSet(S) /\ n \in Nat /\ rank \in [S -> 1 .. n]
      /\ \A c, d \in S : Precedes(weight, c, d) => rank[c] < rank[d]
  BY RankOrders
<1> HIDE DEF rank
<1>2. \A c, d \in S : rank[c] = rank[d] => c = d
  <2> SUFFICES ASSUME NEW c \in S, NEW d \in S, c # d PROVE rank[c] # rank[d]
    OBVIOUS
  <2>1. Precedes(weight, c, d) \/ Precedes(weight, d, c)
    BY PrecedesOrders
  <2>2. rank[c] \in Int /\ rank[d] \in Int
    BY <1>1
  <2> QED
    BY <1>1, <2>1, <2>2
<1>3. rank \in Injection(S, 1 .. n)
  BY <1>1, <1>2 DEF Injection, IsInjective
<1>4. IsFiniteSet(1 .. n) /\ Cardinality(1 .. n) = n
  <2>1. IsFiniteSet(1 .. n) /\ Cardinality(1 .. n) = IF 1 > n THEN 0 ELSE n - 1 + 1
    BY <1>1, FS_Interval
  <2> QED
    BY <1>1, <2>1
<1>5. rank \in Surjection(S, 1 .. n)
  BY <1>3, <1>4, FS_Injection
<1>6. \A i \in 1 .. n : \E c \in S : rank[c] = i
  BY <1>5 DEF Surjection
<1> DEFINE cands == [i \in 1 .. n |-> CHOOSE c \in S : rank[c] = i]
<1>7. \A i \in 1 .. n : cands[i] \in S /\ rank[cands[i]] = i
  BY <1>6
<1>8. cands \in [1 .. n -> S] /\ DOMAIN cands = 1 .. n
  BY <1>7
<1> HIDE DEF cands
<1>9. ASSUME NEW i \in 1 .. n, NEW j \in 1 .. n, i < j
      PROVE  Precedes(weight, cands[i], cands[j])
  <2>1. cands[i] \in S /\ cands[j] \in S /\ rank[cands[i]] = i /\ rank[cands[j]] = j
    BY <1>7
  <2>2. cands[i] # cands[j]
    BY <1>9, <2>1
  <2>3. ~Precedes(weight, cands[j], cands[i])
    BY <1>1, <1>9, <2>1
  <2> QED
    BY <2>1, <2>2, <2>3, PrecedesOrders
<1> QED
  BY <1>8, <1>9

LEMMA CandidatesLined ==
    ASSUME NEW weight \in [Channels -> Int], NEW S \in SUBSET Channels
    PROVE  Lined(Candidates(S, weight), weight)
<1> DEFINE cands == Candidates(S, weight)
           n == Cardinality(S)
<1>1. /\ cands \in [1 .. n -> S]
      /\ \A i, j \in DOMAIN cands : i < j => Precedes(weight, cands[i], cands[j])
  BY CandidatesExist DEF Candidates
<1>2. n \in Nat
  BY RankOrders
<1> HIDE DEF cands, n
<1>3. cands \in Seq(Channels)
  BY <1>1, <1>2
<1>4. ASSUME NEW i \in DOMAIN cands, NEW j \in DOMAIN cands, i # j
      PROVE  cands[i] # cands[j]
  <2>1. i \in Int /\ j \in Int /\ cands[i] \in Channels /\ cands[j] \in Channels
    BY <1>1, <1>2
  <2>2. i < j \/ j < i
    BY <1>4, <2>1
  <2>3. Precedes(weight, cands[i], cands[j]) \/ Precedes(weight, cands[j], cands[i])
    BY <1>1, <2>2
  <2> QED
    BY <2>1, <2>3, PrecedesOrders
<1> QED
  BY <1>3, <1>4 DEF Lined, cands

-----------------------------------------------------------------------------
(* The window of remembered picks.                                         *)

(* The picks are those of the last draws before draw n, a round at most.   *)
Window(cands, weight, picks, n) ==
    /\ picks \in Seq(Channels)
    /\ Len(picks) <= RoundLength(cands, weight) /\ Len(picks) <= n
    /\ \A j \in 1 .. Len(picks) : picks[j] = Position(cands, weight, n - Len(picks) + j - 1)

LEMMA RoundNotEmpty ==
    ASSUME NEW cands, NEW weight, Lined(cands, weight), Draws(cands)
    PROVE  RoundLength(cands, weight) \in Nat /\ RoundLength(cands, weight) >= 2
<1>1. Len(cands) \in Nat /\ Len(cands) > 1
  BY DEF Lined, Draws
<1>2. Len(cands) \in 0 .. Len(cands)
  BY <1>1
<1>3. RoundLength(cands, weight) \in Nat /\ RoundLength(cands, weight) >= Len(cands)
  BY <1>2, BeforeOrdered DEF RoundLength
<1> QED
  BY <1>1, <1>3

LEMMA PositionIsChannel ==
    ASSUME NEW cands, NEW weight, Lined(cands, weight), Draws(cands), NEW n \in Nat
    PROVE  Position(cands, weight, n) \in Channels
<1> DEFINE r == RoundLength(cands, weight)
<1>1. r \in Nat /\ r >= 2
  BY RoundNotEmpty
<1> HIDE DEF r
<1>2. PICK p \in Nat : p = n % r /\ p < r
  BY <1>1
<1>3. Holder(cands, weight, p) \in 1 .. Len(cands)
  BY <1>2, HolderOfPosition DEF r
<1>4. Position(cands, weight, n) = cands[Holder(cands, weight, p)]
  BY <1>2, PositionIs DEF r
<1> QED
  BY <1>3, <1>4 DEF Lined

(* The window after the next draw.                                         *)
LEMMA WindowMoves ==
    ASSUME NEW cands, NEW weight, Lined(cands, weight), Draws(cands), NEW n \in Nat,
           NEW picks, Window(cands, weight, picks, n)
    PROVE  LET more == Append(picks, Position(cands, weight, n)) IN
           Window(cands, weight,
                  IF Len(more) > RoundLength(cands, weight) THEN Tail(more) ELSE more, n + 1)
<1> DEFINE r == RoundLength(cands, weight)
           at(m) == Position(cands, weight, m)
           k == Len(picks)
           more == Append(picks, at(n))
<1>1. r \in Nat /\ r >= 2
  BY RoundNotEmpty
<1>2. at(n) \in Channels
  BY PositionIsChannel
<1>3. picks \in Seq(Channels) /\ k \in Nat /\ k <= r /\ k <= n
      /\ \A j \in 1 .. k : picks[j] = at(n - k + j - 1)
  BY DEF Window
<1> HIDE DEF r, at
<1>4. more \in Seq(Channels) /\ Len(more) = k + 1
      /\ \A j \in 1 .. k + 1 : more[j] = IF j = k + 1 THEN at(n) ELSE picks[j]
  BY <1>2, <1>3
<1>5. \A j \in 1 .. k + 1 : more[j] = at(n - k + j - 1)
  <2> SUFFICES ASSUME NEW j \in 1 .. k + 1 PROVE more[j] = at(n - k + j - 1)
    OBVIOUS
  <2>1. CASE j = k + 1
    <3>1. n - k + j - 1 = n
      BY <1>3, <2>1
    <3> QED
      BY <1>4, <2>1, <3>1
  <2>2. CASE j # k + 1
    <3>1. j \in 1 .. k
      BY <1>3, <2>2
    <3> QED
      BY <1>3, <1>4, <2>2, <3>1
  <2> QED
    BY <2>1, <2>2
<1> HIDE DEF more
<1>6. CASE k + 1 <= r
  <2>1. k + 1 <= n + 1 /\ \A j \in 1 .. k + 1 : n - k + j - 1 = (n + 1) - (k + 1) + j - 1
    BY <1>3
  <2>2. \A j \in 1 .. Len(more) : more[j] = at((n + 1) - Len(more) + j - 1)
    BY <1>4, <1>5, <2>1
  <2>3. Window(cands, weight, more, n + 1)
    BY <1>4, <1>6, <2>1, <2>2 DEF Window, r, at
  <2>4. ~(Len(more) > r)
    BY <1>1, <1>3, <1>4, <1>6
  <2> QED
    BY <2>3, <2>4 DEF more, r, at
<1>7. CASE k = r
  <2> DEFINE rest == Tail(more)
  <2>1. rest \in Seq(Channels) /\ Len(rest) = k /\ \A j \in 1 .. k : rest[j] = more[j + 1]
    BY <1>3, <1>4
  <2>2. \A j \in 1 .. k : j + 1 \in 1 .. k + 1 /\ n - k + (j + 1) - 1 = (n + 1) - k + j - 1
    BY <1>3
  <2> HIDE DEF rest
  <2>3. \A j \in 1 .. Len(rest) : rest[j] = at((n + 1) - Len(rest) + j - 1)
    BY <1>5, <2>1, <2>2
  <2>4. k <= n + 1
    BY <1>3
  <2>5. Window(cands, weight, rest, n + 1)
    BY <1>3, <1>7, <2>1, <2>3, <2>4 DEF Window, r, at
  <2>6. Len(more) > r
    BY <1>1, <1>4, <1>7
  <2> QED
    BY <2>5, <2>6 DEF rest, more, r, at
<1> QED
  BY <1>1, <1>3, <1>6, <1>7

LEMMA WindowBegins ==
    ASSUME NEW cands, NEW weight, Lined(cands, weight), Draws(cands), NEW n \in Nat
    PROVE  Window(cands, weight, <<>>, n)
BY RoundNotEmpty DEF Window

LEMMA FullWindow ==
    ASSUME NEW cands, NEW weight, Lined(cands, weight), Draws(cands), NEW n \in Nat,
           NEW picks, Window(cands, weight, picks, n), Len(picks) = RoundLength(cands, weight),
           NEW i \in 1 .. Len(cands)
    PROVE  Cardinality({j \in 1 .. RoundLength(cands, weight) : picks[j] = cands[i]})
             = Share(cands, weight, i)
<1> DEFINE r == RoundLength(cands, weight)
           at(m) == Position(cands, weight, m)
<1>1. r \in Nat
  BY RoundNotEmpty
<1>2. PICK b \in Nat : b = n - r
  BY <1>1 DEF Window
<1>3. \A j \in 1 .. r : picks[j] = at(b + j - 1)
  BY <1>2 DEF Window
<1>4. Cardinality({j \in 1 .. r : at(b + j - 1) = cands[i]}) = Share(cands, weight, i)
  BY RoundIsShared
<1> HIDE DEF r, at
<1>5. {j \in 1 .. r : picks[j] = cands[i]} = {j \in 1 .. r : at(b + j - 1) = cands[i]}
  BY <1>3
<1>6. Cardinality({j \in 1 .. r : picks[j] = cands[i]}) = Share(cands, weight, i)
  BY <1>4, <1>5
<1> QED
  BY <1>6 DEF r

-----------------------------------------------------------------------------
(* Rounds and types.                                                       *)

TablesTyped ==
    /\ settings \subseteq Settings /\ prober \subseteq Channels /\ revived \subseteq Channels
    /\ churn \in 0 .. MaxChurn /\ counter \in 0 .. MaxCounter

(* A request that waits to draw has candidates in a line.                  *)
RequestsSound ==
    /\ request = [r \in Requests |-> request[r]]
    /\ \A r \in Requests :
         /\ request[r].pc \in {"idle", "found", "calling"}
         /\ request[r].pc = "found" => Lined(request[r].cands, request[r].weight)

TurnsSound ==
    \/ turns = NoTurns
    \/ /\ Lined(turns.cands, turns.weight) /\ Draws(turns.cands)
       /\ Window(turns.cands, turns.weight, turns.picks, counter)

(* The inductive invariant of the rounds.                                  *)
RoundsInv == TablesTyped /\ RequestsSound /\ TurnsSound

LEMMA RoundsKept ==
    ASSUME RoundsInv, UNCHANGED <<counter, request, turns>>,
           settings' \subseteq Settings, prober' \subseteq Channels, revived' \subseteq Channels,
           churn' \in 0 .. MaxChurn
    PROVE  RoundsInv'
BY DEF RoundsInv, TablesTyped, RequestsSound, TurnsSound

LEMMA RequestMoves ==
    ASSUME RoundsInv, NEW r \in Requests, NEW q, Becomes(r, q),
           q.pc \in {"idle", "found", "calling"},
           q.pc = "found" => Lined(q.cands, q.weight)
    PROVE  RequestsSound'
<1>1. request' = [request EXCEPT ![r] = q] /\ request = [s \in Requests |-> request[s]]
  BY DEF Becomes, RoundsInv, RequestsSound
<1>2. request' = [s \in Requests |-> IF s = r THEN q ELSE request[s]]
  BY <1>1
<1>3. \A s \in Requests : request'[s] = q \/ request'[s] = request[s]
  BY <1>2
<1>4. request' = [s \in Requests |-> request'[s]]
  BY <1>2
<1> QED
  BY <1>3, <1>4 DEF RoundsInv, RequestsSound

LEMMA ResolvePreserves ==
    ASSUME ChannelsInv, RoundsInv, NEW r \in Requests, resolveTarget(r)
    PROVE  RoundsInv'
<1> DEFINE weight == [c \in Channels |-> IF Exists(c) THEN row[c].weight ELSE 1]
           found == {c \in Channels : Exists(c) /\ row[c].enabled}
           cands == Candidates(found, weight)
<1>1. /\ Becomes(r, [pc |-> "found", cands |-> cands, weight |-> weight, channel |-> None])
      /\ Untouched /\ UNCHANGED <<counter, turns>>
  BY DEF resolveTarget
<1>2. ASSUME NEW c \in Channels PROVE (IF Exists(c) THEN row[c].weight ELSE 1) \in Int
  <2>1. Exists(c) => row[c] \in Row
    BY RowOrNone DEF ChannelsInv
  <2>2. Exists(c) => row[c].weight \in Weights
    BY <2>1 DEF Row
  <2>3. Weights \subseteq Int
    BY ChannelsAssumption
  <2> HIDE DEF weight, found, cands
  <2>4. CASE Exists(c)
    <3>1. PICK w : w = row[c].weight
      OBVIOUS
    <3>2. w \in Int
      BY <2>2, <2>3, <2>4, <3>1
    <3>3. (IF Exists(c) THEN row[c].weight ELSE 1) = w
      BY <2>4, <3>1
    <3> QED
      BY <3>2, <3>3
  <2>5. CASE ~ Exists(c)
    BY <2>5
  <2> QED
    BY <2>4, <2>5
<1>3. weight \in [Channels -> Int] /\ found \in SUBSET Channels
  BY <1>2
<1> HIDE DEF weight, found
<1>4. Lined(cands, weight)
  BY <1>3, CandidatesLined
<1> HIDE DEF cands
<1>5. PICK q : q = [pc |-> "found", cands |-> cands, weight |-> weight, channel |-> None]
  OBVIOUS
<1>6. q.pc = "found" /\ q.cands = cands /\ q.weight = weight
  BY <1>5
<1>7. RequestsSound'
  BY <1>1, <1>4, <1>5, <1>6, RequestMoves
<1> QED
  BY <1>1, <1>7 DEF RoundsInv, TablesTyped, TurnsSound, Untouched

LEMMA SelectPreserves ==
    ASSUME RoundsInv, NEW r \in Requests, Select(r)
    PROVE  RoundsInv'
<1>1. PICK q : q = request[r]
  OBVIOUS
<1> DEFINE c == selectModelConfig(q.cands, q.weight, counter)
<1>2. /\ q.pc = "found" /\ Untouched
      /\ Becomes(r, [Idle EXCEPT !.pc = "calling", !.channel = c])
      /\ IF Draws(q.cands)
         THEN counter < MaxCounter /\ counter' = NextTurn(counter) /\ Remember(q, c)
         ELSE UNCHANGED <<counter, turns>>
  BY <1>1 DEF Select
<1>3. Lined(q.cands, q.weight)
  BY <1>1, <1>2 DEF RoundsInv, RequestsSound
<1>4. counter \in Nat /\ counter <= MaxCounter /\ MaxCounter \in Nat
  BY ChannelsAssumption DEF RoundsInv, TablesTyped
<1>5. RequestsSound'
  <2> HIDE DEF c
  <2>1. PICK x : x = [Idle EXCEPT !.pc = "calling", !.channel = c]
    OBVIOUS
  <2>2. x.pc = "calling"
    BY <2>1 DEF Idle
  <2> QED
    BY <1>2, <2>1, <2>2, RequestMoves
<1>6. CASE Draws(q.cands)
  <2>1. /\ counter' = counter + 1 /\ counter < MaxCounter /\ Remember(q, c)
        /\ c = Position(q.cands, q.weight, counter)
    BY <1>2, <1>6 DEF NextTurn, selectModelConfig
  <2> HIDE DEF c
  <2>2. PICK n \in Nat : n = counter /\ counter' = n + 1
    BY <1>4, <2>1
  <2> DEFINE same == turns.cands = q.cands /\ turns.weight = q.weight
             before == IF same THEN turns.picks ELSE <<>>
             more == Append(before, Position(q.cands, q.weight, n))
             after == IF Len(more) > RoundLength(q.cands, q.weight) THEN Tail(more) ELSE more
  <2>3. turns' = [cands |-> q.cands, weight |-> q.weight, picks |-> after]
    BY <2>1, <2>2 DEF Remember
  <2>4. Window(q.cands, q.weight, before, n)
    <3>1. CASE same
      <4>1. turns # NoTurns
        BY <1>6, <3>1 DEF NoTurns, Draws
      <4>2. Window(turns.cands, turns.weight, turns.picks, counter)
        BY <4>1 DEF RoundsInv, TurnsSound
      <4> QED
        BY <2>2, <3>1, <4>2
    <3>2. CASE ~same
      BY <1>3, <1>6, <3>2, WindowBegins
    <3> QED
      BY <3>1, <3>2
  <2>5. PICK picks : picks = before
    OBVIOUS
  <2>6. Window(q.cands, q.weight, picks, n)
    BY <2>4, <2>5
  <2> HIDE DEF before
  <2>7. Window(q.cands, q.weight, after, n + 1)
    BY <1>3, <1>6, <2>5, <2>6, WindowMoves
  <2> HIDE DEF after
  <2>8. turns'.cands = q.cands /\ turns'.weight = q.weight /\ turns'.picks = after
    BY <2>3
  <2>9. TurnsSound'
    BY <1>3, <1>6, <2>2, <2>7, <2>8 DEF TurnsSound
  <2>10. counter' \in 0 .. MaxCounter
    BY <1>4, <2>1
  <2> QED
    BY <1>2, <1>5, <2>9, <2>10 DEF RoundsInv, TablesTyped, Untouched
<1>7. CASE ~Draws(q.cands)
  BY <1>2, <1>5, <1>7 DEF RoundsInv, TablesTyped, TurnsSound, Untouched
<1> QED
  BY <1>6, <1>7

LEMMA ReportResultPreserves ==
    ASSUME RoundsInv, NEW r \in Requests, recordUpstreamResult(r)
    PROVE  RoundsInv'
<1>1. Becomes(r, Idle) /\ UNCHANGED <<settings, counter, prober, turns, revived, churn>>
  BY DEF recordUpstreamResult
<1>2. PICK q : q = Idle
  OBVIOUS
<1>3. q.pc = "idle"
  BY <1>2 DEF Idle
<1>4. RequestsSound'
  BY <1>1, <1>2, <1>3, RequestMoves
<1> QED
  BY <1>1, <1>4 DEF RoundsInv, TablesTyped, TurnsSound

LEMMA RoundsInitial == ChannelsInit => RoundsInv
<1> SUFFICES ASSUME ChannelsInit PROVE RoundsInv
  OBVIOUS
<1>1. TurnsSound
  BY DEF ChannelsInit, TurnsSound
<1>2. counter = 0 /\ churn = 0 /\ MaxCounter \in Nat /\ MaxChurn \in Nat
  BY ChannelsAssumption DEF ChannelsInit
<1>3. settings = Settings /\ prober = {} /\ revived = {}
  BY DEF ChannelsInit
<1>4. TablesTyped
  BY <1>2, <1>3 DEF TablesTyped
<1>5. RequestsSound
  BY DEF ChannelsInit, RequestsSound, Idle
<1> QED
  BY <1>1, <1>4, <1>5 DEF RoundsInv

LEMMA RoundsStep ==
    ASSUME ChannelsInv, RoundsInv, [ChannelsNext]_channelVars
    PROVE  RoundsInv'
<1>1. /\ settings \subseteq Settings /\ prober \subseteq Channels /\ revived \subseteq Channels
      /\ churn \in 0 .. MaxChurn
  BY DEF RoundsInv, TablesTyped
<1>2. ASSUME NEW r \in Requests, resolveTarget(r) \/ Select(r) \/ recordUpstreamResult(r)
      PROVE  RoundsInv'
  BY <1>2, ResolvePreserves, SelectPreserves, ReportResultPreserves
<1>3. Intervene => churn' \in 0 .. MaxChurn
  BY <1>1, ChannelsAssumption DEF Intervene
<1>4. CASE recoverAutoDisabledChannels \/ checkChannel \/ UNCHANGED channelVars
  <2>1. UNCHANGED <<settings, counter, request, turns, revived, churn>> /\ prober' \subseteq prober
    BY <1>4 DEF recoverAutoDisabledChannels, checkChannel, channelVars
  <2> QED
    BY <1>1, <2>1, RoundsKept
<1>5. ASSUME NEW due \in SUBSET Channels, ScanDue(due)
      PROVE  RoundsInv'
  <2>1. UNCHANGED <<settings, counter, request, turns, revived, churn>> /\ prober' = due
    BY <1>5 DEF ScanDue
  <2> QED
    BY <1>1, <2>1, RoundsKept
<1>6. ASSUME NEW c \in Channels, BeginUpdate(c) \/ Delete(c)
      PROVE  RoundsInv'
  <2>1. UNCHANGED <<settings, counter, request, prober, turns, revived>> /\ Intervene
    BY <1>6 DEF BeginUpdate, Delete
  <2> QED
    BY <1>1, <1>3, <2>1, RoundsKept
<1>7. ASSUME NEW enabled \in BOOLEAN, NEW w \in Weights, Update(enabled, w)
      PROVE  RoundsInv'
  <2>1. /\ editor # None /\ UNCHANGED <<settings, counter, request, prober, turns, churn>>
        /\ revived' \subseteq revived \cup {editor.channel}
    BY <1>7 DEF Update
  <2>2. editor.channel \in Channels
    BY <2>1 DEF ChannelsInv, RowsTyped
  <2> QED
    BY <1>1, <2>1, <2>2, RoundsKept
<1>8. ASSUME NEW on \in SUBSET Settings, NEW n \in Thresholds, UpdateSettings(on, n)
      PROVE  RoundsInv'
  <2>1. UNCHANGED <<counter, request, prober, turns, revived>> /\ Intervene
    BY <1>8 DEF UpdateSettings
  <2>2. settings' \subseteq Settings
    BY <1>1, <1>8 DEF UpdateSettings
  <2> QED
    BY <1>1, <1>3, <2>1, <2>2, RoundsKept
<1> QED
  BY <1>2, <1>4, <1>5, <1>6, <1>7, <1>8 DEF ChannelsNext

LEMMA RoundsInvariance == ChannelsSpec => [](ChannelsInv /\ RoundsInv)
<1>1. ChannelsInit => ChannelsInv /\ RoundsInv
  BY ChannelsInitial, RoundsInitial
<1>2. ChannelsInv /\ RoundsInv /\ [ChannelsNext]_channelVars => (ChannelsInv /\ RoundsInv)'
  BY ChannelsStep, RoundsStep
<1> QED
  BY <1>1, <1>2, PTL DEF ChannelsSpec

(* Rows, settings, requests, the ticker's list and the copy an             *)
(* administrator edits have the form the program gives them.               *)
THEOREM ChannelsTyped == ChannelsSpec => []ChannelsTypeOK
<1>1. ASSUME ChannelsInv, RoundsInv PROVE ChannelsTypeOK
  <2>1. turns.cands \in Seq(Channels) /\ turns.picks \in Seq(Channels)
    <3>1. CASE turns = NoTurns
      BY <3>1 DEF NoTurns
    <3>2. CASE turns # NoTurns
      BY <1>1, <3>2 DEF RoundsInv, TurnsSound, Lined, Window
    <3> QED
      BY <3>1, <3>2
  <2> QED
    BY <1>1, <2>1 DEF ChannelsInv, RowsTyped, RoundsInv, TablesTyped, RequestsSound, ChannelsTypeOK
<1> QED
  BY <1>1, RoundsInvariance, PTL

(* In every round of draws from the same candidates each of them is taken  *)
(* exactly as often as its weight says (selectModelConfig): for any        *)
(* channels, priorities and weights, wherever the shared counter stood     *)
(* when the round began, and whichever requests drew.                      *)
THEOREM RoundsShared == ChannelsSpec => []RoundsFollowWeights
<1>1. ASSUME RoundsInv PROVE RoundsFollowWeights
  <2> DEFINE round == RoundLength(turns.cands, turns.weight)
  <2> SUFFICES ASSUME turns.cands # <<>>, Len(turns.picks) = round,
                      NEW i \in DOMAIN turns.cands
               PROVE  Cardinality({j \in 1 .. round : turns.picks[j] = turns.cands[i]})
                        = Share(turns.cands, turns.weight, i)
    BY DEF RoundsFollowWeights
  <2>1. turns # NoTurns
    BY DEF NoTurns
  <2>2. /\ Lined(turns.cands, turns.weight) /\ Draws(turns.cands)
        /\ Window(turns.cands, turns.weight, turns.picks, counter)
    BY <1>1, <2>1 DEF RoundsInv, TurnsSound
  <2>3. counter \in Nat
    BY <1>1 DEF RoundsInv, TablesTyped
  <2>4. i \in 1 .. Len(turns.cands)
    BY <2>2 DEF Lined
  <2> QED
    BY <2>2, <2>3, <2>4, FullWindow
<1> QED
  BY <1>1, RoundsInvariance, PTL
=============================================================================
