---------------------------- MODULE RunnerProofs ----------------------------
(***************************************************************************)
(* Proofs about the experiment runner, for any number of devices, any      *)
(* scenario or validation flow and any thresholds: the harness             *)
(* contaminates no evidence, whatever it makes the devices claim, CA-ZTCF  *)
(* serves no two of them on one access binding, and a burst of transitions *)
(* ends in a rejection.                                                    *)
(***************************************************************************)
EXTENDS ValidationFlows, PipelineProofs

-----------------------------------------------------------------------------
(* What a script may consist of: steps of the devices of the run.  A       *)
(* device asks from an address of its own, or both devices are shared: one *)
(* of them has presented itself from the address of the other.             *)
QuietMarks == {"none", "score", "adversarial", "legitimate"}
Marks == QuietMarks \cup {"burst"}

Feeds(members) ==
  [op : {"feed"}, device : members, domain : Domains, posture : BOOLEAN]

OwnAddress(d, a, members, shared) ==
  \E e \in members, dom \in Domains :
    a = AddressOf(e, dom) /\ (e = d \/ (e \in shared /\ d \in shared))

Asks(members, shared, marks) ==
  {s \in [op : {"ask"}, device : members, domain : Domains, address : Addresses,
          proof : BOOLEAN, session : BOOLEAN, mark : marks, at : {None}] :
     OwnAddress(s.device, s.address, members, shared)}

OpsOf(members, shared, marks) ==
  Feeds(members) \cup Asks(members, shared, marks)
    \cup [op : {"check"}, device : members, topic : {"telemetry"}, expected : BOOLEAN]
    \cup [op : {"advance"}, seconds : Nat]
    \cup [op : {"revoke"}, device : members]

(* The members of a run, and what the run asks of the pipeline.            *)
LEMMA RunMeans ==
  ASSUME run \in Setups
  PROVE  /\ run.devices \in Nat \ {0} /\ Members = 1..run.devices
         /\ Members \subseteq Devices
         /\ \A d \in Members, dom \in Domains : AddressOf(d, dom) \in Addresses
         /\ run.initial \in Domains
         /\ run.strategy \in {"ca_ztcf", "independent", "static_continuity"}
  BY RunnerAssumption DEF Members, AddressOf

LEMMA IntervalsType == Intervals \subseteq Nat
  BY RunnerAssumption, Zenon

LEMMA FeedIsOp ==
  ASSUME NEW members, NEW shared, NEW marks, NEW d \in members, NEW dom \in Domains, NEW p \in BOOLEAN
  PROVE  Feed(d, dom, p) \in OpsOf(members, shared, marks)
  BY DEF Feed, Feeds, OpsOf

LEMMA AskIsOp ==
  ASSUME NEW members, NEW shared, NEW marks, NEW d \in members, NEW dom \in Domains,
         NEW e \in members, NEW home \in Domains, AddressOf(e, home) \in Addresses,
         e = d \/ (e \in shared /\ d \in shared),
         NEW proof \in BOOLEAN, NEW session \in BOOLEAN, NEW mark \in marks
  PROVE  Ask(d, dom, AddressOf(e, home), proof, session, mark) \in OpsOf(members, shared, marks)
  <1> DEFINE s == Ask(d, dom, AddressOf(e, home), proof, session, mark)
  <1>1. s \in [op : {"ask"}, device : members, domain : Domains, address : Addresses,
               proof : BOOLEAN, session : BOOLEAN, mark : marks, at : {None}]
    BY DEF Ask
  <1>2. OwnAddress(s.device, s.address, members, shared)
    BY DEF Ask, OwnAddress
  <1> HIDE DEF s
  <1>3. s \in Asks(members, shared, marks)
    BY <1>1, <1>2 DEF Asks
  <1>4. QED
    BY <1>3 DEF OpsOf, s

LEMMA AdvanceIsOp ==
  ASSUME NEW members, NEW shared, NEW marks, NEW seconds \in Nat
  PROVE  Advance(seconds) \in OpsOf(members, shared, marks)
  BY DEF Advance, OpsOf

LEMMA CheckIsOp ==
  ASSUME NEW members, NEW shared, NEW marks, NEW d \in members, NEW expected \in BOOLEAN
  PROVE  Check(d, "telemetry", expected) \in OpsOf(members, shared, marks)
  BY DEF Check, OpsOf

LEMMA RevokeIsOp ==
  ASSUME NEW members, NEW shared, NEW marks, NEW d \in members
  PROVE  [op |-> "revoke", device |-> d] \in OpsOf(members, shared, marks)
  BY DEF OpsOf

(* What a step of a script is, by its kind.                                *)
LEMMA OpMeans ==
  ASSUME NEW members, NEW shared, NEW marks, NEW s \in OpsOf(members, shared, marks)
  PROVE  /\ s.op = "feed" => s.device \in members /\ s.domain \in Domains /\ s.posture \in BOOLEAN
         /\ s.op = "ask" => /\ s.device \in members /\ s.domain \in Domains /\ s.address \in Addresses
                            /\ s.proof \in BOOLEAN /\ s.session \in BOOLEAN /\ s.mark \in marks
                            /\ OwnAddress(s.device, s.address, members, shared)
                            /\ Instant(s.at) = clock
         /\ s.op \in {"check", "revoke"} => s.device \in members
         /\ s.op = "advance" => s.seconds \in Nat
  <1>1. CASE s \in Feeds(members)
    BY <1>1 DEF Feeds
  <1>2. CASE s \in Asks(members, shared, marks)
    BY <1>2 DEF Asks, Instant
  <1>3. CASE s \in [op : {"check"}, device : members, topic : {"telemetry"}, expected : BOOLEAN]
    BY <1>3
  <1>4. CASE s \in [op : {"advance"}, seconds : Nat]
    BY <1>4
  <1>5. CASE s \in [op : {"revoke"}, device : members]
    BY <1>5
  <1>6. QED
    BY <1>1, <1>2, <1>3, <1>4, <1>5 DEF OpsOf

-----------------------------------------------------------------------------
(* The repetition a step of a row of scripts belongs to, and its place in  *)
(* it.                                                                     *)
LEMMA Quotient ==
  ASSUME NEW n \in Nat, NEW k \in Nat \ {0}, NEW i \in Nat, i < n * k
  PROVE  (i \div k) \in 0..(n - 1) /\ (i \div k) * k <= i /\ i < (i \div k) * k + k
  <1>1. PICK q \in Nat : q = i \div k
    OBVIOUS
  <1>2. (i \div k) * k <= i /\ i < (i \div k) * k + k
    OBVIOUS
  <1>3. q * k <= i
    BY <1>1, <1>2
  <1>4. q >= n => q * k >= n * k
    OBVIOUS
  <1>5. q < n
    BY <1>3, <1>4
  <1>6. QED
    BY <1>1, <1>2, <1>5

(* Scripts in a row are a script.                                          *)
LEMMA InTurnType ==
  ASSUME NEW S, NEW n \in Nat \ {0}, NEW s, Len(s[1]) # 0,
         \A i \in 1..n : s[i] \in Seq(S) /\ Len(s[i]) = Len(s[1])
  PROVE  InTurn(n, s) \in Seq(S)
  <1>0. PICK k \in Nat \ {0} : k = Len(s[1]) /\ \A i \in 1..n : Len(s[i]) = k
    OBVIOUS
  <1>1. n * k \in Nat /\ Len(s[1]) = k
    BY <1>0
  <1>2. InTurn(n, s) =
          [j \in 1..(n * k) |-> s[((j - 1) \div k) + 1][j - ((j - 1) \div k) * k]]
    BY <1>1 DEF InTurn
  <1>3. ASSUME NEW j \in 1..(n * k)
        PROVE  s[((j - 1) \div k) + 1][j - ((j - 1) \div k) * k] \in S
    <2>1. j - 1 \in Nat /\ j - 1 < n * k
      BY <1>1
    <2>2. PICK i \in 0..(n - 1) : i = (j - 1) \div k /\ i * k <= j - 1 /\ j - 1 < i * k + k
      BY <2>1, Quotient
    <2>3. i + 1 \in 1..n /\ i * k \in Nat
      OBVIOUS
    <2>4. j - i * k \in 1..k
      BY <2>2, <2>3
    <2>5. s[i + 1] \in Seq(S) /\ Len(s[i + 1]) = k
      BY <1>0, <2>3
    <2>6. s[i + 1][j - i * k] \in S
      BY <2>4, <2>5
    <2>7. QED
      BY <2>2, <2>6
  <1>4. QED
    BY <1>1, <1>2, <1>3

-----------------------------------------------------------------------------
(* The scripts of the events *)

(* Short scripts, and a script with one more step.                         *)
LEMMA OneStep ==
  ASSUME NEW S, NEW x \in S
  PROVE  <<x>> \in Seq(S) /\ Len(<<x>>) = 1
  OBVIOUS

LEMMA TwoSteps ==
  ASSUME NEW S, NEW x \in S, NEW y \in S
  PROVE  <<x, y>> \in Seq(S) /\ Len(<<x, y>>) = 2
  OBVIOUS

LEMMA OneMoreStep ==
  ASSUME NEW S, NEW q \in Seq(S), NEW x \in S
  PROVE  Append(q, x) \in Seq(S) /\ Len(Append(q, x)) = Len(q) + 1
  OBVIOUS

LEMMA StepsInARow ==
  ASSUME NEW S, NEW q \in Seq(S), NEW r \in Seq(S)
  PROVE  q \o r \in Seq(S) /\ Len(q \o r) = Len(q) + Len(r)
  OBVIOUS

(* A device that asks from its own address.                                *)
LEMMA AskFromIsOp ==
  ASSUME run \in Setups, NEW shared, NEW marks, NEW mark \in marks, NEW d \in Members,
         NEW dom \in Domains
  PROVE  AskFrom(d, dom, mark) \in OpsOf(Members, shared, marks)
  BY RunMeans, AskIsOp DEF AskFrom

LEMMA VisitType ==
  ASSUME run \in Setups, NEW shared, NEW marks, NEW mark \in marks, NEW d \in Members,
         NEW dom \in Domains
  PROVE  Visit(d, dom, mark) \in Seq(OpsOf(Members, shared, marks)) /\ Len(Visit(d, dom, mark)) = 2
  <1>1. Feed(d, dom, TRUE) \in OpsOf(Members, shared, marks)
    BY FeedIsOp
  <1>2. AskFrom(d, dom, mark) \in OpsOf(Members, shared, marks)
    BY AskFromIsOp
  <1>3. QED
    BY <1>1, <1>2, TwoSteps DEF Visit

(* A visit and a pause.                                                    *)
LEMMA StayType ==
  ASSUME run \in Setups, NEW shared, NEW marks, NEW mark \in marks, NEW d \in Members,
         NEW dom \in Domains,
         NEW seconds \in Nat
  PROVE  /\ Append(Visit(d, dom, mark), Advance(seconds)) \in Seq(OpsOf(Members, shared, marks))
         /\ Len(Append(Visit(d, dom, mark), Advance(seconds))) = 3
  <1>1. Visit(d, dom, mark) \in Seq(OpsOf(Members, shared, marks)) /\ Len(Visit(d, dom, mark)) = 2
    BY VisitType
  <1>2. Advance(seconds) \in OpsOf(Members, shared, marks)
    BY AdvanceIsOp
  <1>3. Len(Visit(d, dom, mark)) + 1 = 3
    BY <1>1
  <1>4. QED
    BY <1>1, <1>2, <1>3, OneMoreStep

LEMMA DomainAtType == \A i : DomainAt(i) \in Domains
  BY PipelineAssumption, RunnerAssumption DEF DomainAt

LEMMA RapidType ==
  ASSUME run \in Setups, NEW shared, NEW marks, NEW d \in Members, NEW interval \in Nat,
         NEW mark, \A i \in 1..BurstLength : mark[i] \in marks
  PROVE  InTurn(BurstLength, [i \in 1..BurstLength |->
           Append(Visit(d, DomainAt(i - 1), mark[i]), Advance(interval))])
           \in Seq(OpsOf(Members, shared, marks))
  <1> DEFINE s == [i \in 1..BurstLength |->
                     Append(Visit(d, DomainAt(i - 1), mark[i]), Advance(interval))]
  <1>1. BurstLength \in Nat \ {0}
    BY ThresholdAssumption DEF BurstLength
  <1>2. \A i \in 1..BurstLength : s[i] \in Seq(OpsOf(Members, shared, marks)) /\ Len(s[i]) = 3
    BY DomainAtType, StayType, ZenonT(60)
  <1> HIDE DEF s
  <1>3. Len(s[1]) # 0 /\ \A i \in 1..BurstLength : Len(s[i]) = Len(s[1])
    <2>1. 1 \in 1..BurstLength
      BY <1>1
    <2>2. Len(s[1]) = 3
      BY <1>2, <2>1, Zenon
    <2>3. \A i \in 1..BurstLength : Len(s[i]) = Len(s[1])
      BY <1>2, <2>2, Zenon
    <2>4. QED
      BY <2>2, <2>3
  <1>4. InTurn(BurstLength, s) \in Seq(OpsOf(Members, shared, marks))
    BY <1>1, <1>2, <1>3, InTurnType
  <1>5. QED
    BY <1>4 DEF s

LEMMA ConcurrentType ==
  ASSUME run \in Setups, NEW shared, NEW dom \in Domains, NEW interval \in Nat
  PROVE  InTurn(run.devices, [d \in Members |->
           Append(Visit(d, dom, "score"), Advance(interval))])
           \in Seq(OpsOf(Members, shared, QuietMarks))
  <1> DEFINE s == [d \in Members |-> Append(Visit(d, dom, "score"), Advance(interval))]
  <1>1. run.devices \in Nat \ {0} /\ Members = 1..run.devices
    BY RunMeans
  <1>2. ASSUME NEW d \in 1..run.devices
        PROVE  s[d] \in Seq(OpsOf(Members, shared, QuietMarks)) /\ Len(s[d]) = 3
    <2>1. d \in Members /\ "score" \in QuietMarks
      BY <1>1 DEF QuietMarks
    <2>2. /\ Append(Visit(d, dom, "score"), Advance(interval)) \in Seq(OpsOf(Members, shared, QuietMarks))
          /\ Len(Append(Visit(d, dom, "score"), Advance(interval))) = 3
      BY <2>1, StayType
    <2>3. s[d] = Append(Visit(d, dom, "score"), Advance(interval))
      BY <2>1
    <2> HIDE DEF s
    <2>4. QED
      BY <2>2, <2>3
  <1> HIDE DEF s
  <1>3. Len(s[1]) # 0 /\ \A i \in 1..run.devices : Len(s[i]) = Len(s[1])
    <2>1. 1 \in 1..run.devices
      BY <1>1
    <2>2. Len(s[1]) = 3
      BY <1>2, <2>1, Zenon
    <2>3. \A i \in 1..run.devices : Len(s[i]) = Len(s[1])
      BY <1>2, <2>2, Zenon
    <2>4. QED
      BY <2>2, <2>3
  <1>4. InTurn(run.devices, s) \in Seq(OpsOf(Members, shared, QuietMarks))
    BY <1>1, <1>2, <1>3, InTurnType
  <1>5. QED
    BY <1>4 DEF s

LEMMA SweepType ==
  ASSUME run \in Setups, NEW shared, NEW seconds \in Nat
  PROVE  InTurn(run.devices, [d \in Members |->
           Visit(d, "NR", "none") \o <<Advance(seconds)>> \o Visit(d, "WLAN", "score")])
           \in Seq(OpsOf(Members, shared, QuietMarks))
  <1> DEFINE s == [d \in Members |->
                     Visit(d, "NR", "none") \o <<Advance(seconds)>> \o Visit(d, "WLAN", "score")]
  <1>1. run.devices \in Nat \ {0} /\ Members = 1..run.devices
    BY RunMeans
  <1>2. ASSUME NEW d \in 1..run.devices
        PROVE  s[d] \in Seq(OpsOf(Members, shared, QuietMarks)) /\ Len(s[d]) = 5
    <2>0. d \in Members
      BY <1>1
    <2>1. "NR" \in Domains /\ "WLAN" \in Domains
      BY PipelineAssumption, RunnerAssumption
    <2>2. /\ Visit(d, "NR", "none") \in Seq(OpsOf(Members, shared, QuietMarks)) /\ Len(Visit(d, "NR", "none")) = 2
          /\ Visit(d, "WLAN", "score") \in Seq(OpsOf(Members, shared, QuietMarks)) /\ Len(Visit(d, "WLAN", "score")) = 2
      BY <2>0, <2>1, VisitType DEF QuietMarks
    <2>3. Advance(seconds) \in OpsOf(Members, shared, QuietMarks)
      BY AdvanceIsOp
    <2>4. <<Advance(seconds)>> \in Seq(OpsOf(Members, shared, QuietMarks)) /\ Len(<<Advance(seconds)>>) = 1
      BY <2>3
    <2>5. PICK v \in Seq(OpsOf(Members, shared, QuietMarks)), w \in Seq(OpsOf(Members, shared, QuietMarks)),
               z \in Seq(OpsOf(Members, shared, QuietMarks)) :
            /\ v = Visit(d, "NR", "none") /\ z = <<Advance(seconds)>> /\ w = Visit(d, "WLAN", "score")
            /\ Len(v) = 2 /\ Len(z) = 1 /\ Len(w) = 2
      BY <2>2, <2>4
    <2>6. v \o z \in Seq(OpsOf(Members, shared, QuietMarks)) /\ Len(v \o z) = Len(v) + Len(z)
      BY StepsInARow
    <2>7. PICK vz \in Seq(OpsOf(Members, shared, QuietMarks)) : vz = v \o z /\ Len(vz) = Len(v) + Len(z)
      BY <2>6
    <2>8. vz \o w \in Seq(OpsOf(Members, shared, QuietMarks)) /\ Len(vz \o w) = Len(vz) + Len(w)
      BY StepsInARow
    <2>9. PICK q \in Seq(OpsOf(Members, shared, QuietMarks)) : q = vz \o w /\ Len(q) = Len(vz) + Len(w)
      BY <2>8
    <2>10. Len(q) = 5
      <3>1. Len(vz) = Len(v) + Len(z) /\ Len(q) = Len(vz) + Len(w)
        BY <2>7, <2>9
      <3>2. QED
        BY <2>5, <3>1
    <2>11. s[d] = Visit(d, "NR", "none") \o <<Advance(seconds)>> \o Visit(d, "WLAN", "score")
      BY <2>0, Zenon
    <2>12. s[d] = q
      BY <2>5, <2>7, <2>9, <2>11, Zenon
    <2> HIDE DEF s
    <2>13. QED
      BY <2>10, <2>12
  <1> HIDE DEF s
  <1>3. Len(s[1]) # 0 /\ \A i \in 1..run.devices : Len(s[i]) = Len(s[1])
    <2>1. 1 \in 1..run.devices
      BY <1>1
    <2>2. Len(s[1]) = 5
      BY <1>2, <2>1, Zenon
    <2>3. \A i \in 1..run.devices : Len(s[i]) = Len(s[1])
      BY <1>2, <2>2, Zenon
    <2>4. QED
      BY <2>2, <2>3
  <1>4. InTurn(run.devices, s) \in Seq(OpsOf(Members, shared, QuietMarks))
    BY <1>1, <1>2, <1>3, InTurnType
  <1>5. QED
    BY <1>4 DEF s

LEMMA ShuttleType ==
  ASSUME run \in Setups, NEW shared, NEW d \in Members
  PROVE  InTurn(BurstLength, [i \in 1..BurstLength |->
           <<Feed(d, DomainAt(i - 1), TRUE), Advance(1)>>]) \in Seq(OpsOf(Members, shared, QuietMarks))
  <1> DEFINE s == [i \in 1..BurstLength |-> <<Feed(d, DomainAt(i - 1), TRUE), Advance(1)>>]
  <1>1. BurstLength \in Nat \ {0}
    BY ThresholdAssumption DEF BurstLength
  <1>2. ASSUME NEW i \in 1..BurstLength
        PROVE  s[i] \in Seq(OpsOf(Members, shared, QuietMarks)) /\ Len(s[i]) = 2
    <2>1. Feed(d, DomainAt(i - 1), TRUE) \in OpsOf(Members, shared, QuietMarks)
      BY DomainAtType, FeedIsOp
    <2>2. Advance(1) \in OpsOf(Members, shared, QuietMarks)
      BY AdvanceIsOp
    <2>3. QED
      BY <2>1, <2>2, TwoSteps
  <1> HIDE DEF s
  <1>3. Len(s[1]) # 0 /\ \A i \in 1..BurstLength : Len(s[i]) = Len(s[1])
    <2>1. 1 \in 1..BurstLength
      BY <1>1
    <2>2. Len(s[1]) = 2
      BY <1>2, <2>1, Zenon
    <2>3. \A i \in 1..BurstLength : Len(s[i]) = Len(s[1])
      BY <1>2, <2>2, Zenon
    <2>4. QED
      BY <2>2, <2>3
  <1>4. InTurn(BurstLength, s) \in Seq(OpsOf(Members, shared, QuietMarks))
    BY <1>1, <1>2, <1>3, InTurnType
  <1>5. QED
    BY <1>4 DEF s

(* The cohorts of a mixed workload are members of the run.                 *)
LEMMA CohortsType ==
  ASSUME run \in Setups, NEW index \in Nat
  PROVE  LegitimateMember(index) \in Members /\ AdversarialMember(index) \in Members
  <1> DEFINE n == run.devices
             share == n * (100 - LegitimatePercent)
             whole == share \div 100
  <1>1. n \in Nat \ {0} /\ Members = 1..n /\ LegitimatePercent \in 0..100
    BY RunMeans, RunnerAssumption
  <1>2. share \in Nat /\ share <= n * 100
    <2>1. 100 - LegitimatePercent \in 0..100
      BY <1>1
    <2>2. PICK p \in 0..100 : p = 100 - LegitimatePercent
      BY <2>1
    <2>3. n * p \in Nat /\ n * p <= n * 100
      BY <1>1
    <2>4. QED
      BY <2>2, <2>3
  <1> HIDE DEF share
  <1>3. share = n * 100 => share % 100 = 0
    BY <1>1
  <1>4. whole \in Nat /\ whole <= n /\ (whole = n => share = n * 100)
    BY <1>1, <1>2
  <1> DEFINE rest == share % 100
             rounded == IF rest > 50 \/ (rest = 50 /\ whole % 2 = 1) THEN whole + 1 ELSE whole
  <1>5. AdversarialSize \in 1..n
    <2>1. AdversarialSize = IF rounded < 1 THEN 1 ELSE rounded
      BY DEF AdversarialSize, share
    <2>2. rest = 0 \/ whole < n
      BY <1>1, <1>3, <1>4
    <2> HIDE DEF rest, whole
    <2>3. rounded \in 0..n
      BY <1>1, <1>4, <2>2
    <2>4. QED
      BY <1>1, <2>1, <2>3
  <1>6. LegitimateSize \in 0..(n - 1) /\ LegitimateSize + AdversarialSize = n
    BY <1>1, <1>5 DEF LegitimateSize
  <1>7. PICK m \in 1..n : m = IF LegitimateSize = 0 THEN n ELSE LegitimateSize
    BY <1>1, <1>6
  <1>8. index % m \in 0..(m - 1)
    OBVIOUS
  <1>9. LegitimateMember(index) = (index % m) + 1
    BY <1>7 DEF LegitimateMember
  <1>10. index % AdversarialSize \in 0..(AdversarialSize - 1)
    BY <1>5
  <1>11. AdversarialMember(index) = LegitimateSize + (index % AdversarialSize) + 1
    BY DEF AdversarialMember
  <1>12. LegitimateMember(index) \in 1..n
    BY <1>1, <1>7, <1>8, <1>9
  <1>13. AdversarialMember(index) \in 1..n
    BY <1>1, <1>5, <1>6, <1>10, <1>11
  <1>14. QED
    BY <1>1, <1>12, <1>13

LEMMA AdversarialType ==
  ASSUME run \in Setups, NEW shared, \A x \in Members : domain[x] \in Domains,
         NEW kind \in AdversarialKinds, NEW d \in Members, NEW victim \in Members,
         kind = "identity" => d \in shared /\ victim \in shared
  PROVE  Adversarial(kind, d, victim) \in Seq(OpsOf(Members, shared, QuietMarks))
  <1> DEFINE Here(proof, session) ==
               Ask(d, domain[d], AddressOf(d, domain[d]), proof, session, "adversarial")
  <1>1. \A x \in Members : domain[x] \in Domains /\ AddressOf(x, domain[x]) \in Addresses
    BY RunMeans
  <1>2. \A proof \in BOOLEAN, session \in BOOLEAN : Here(proof, session) \in OpsOf(Members, shared, QuietMarks)
    BY <1>1, AskIsOp DEF QuietMarks
  <1>3. CASE kind = "stale"
    <2>1. Advance(FreshMax + 1) \in OpsOf(Members, shared, QuietMarks)
      BY ThresholdAssumption, AdvanceIsOp
    <2>2. Here(FALSE, TRUE) \in OpsOf(Members, shared, QuietMarks)
      BY <1>2
    <2>3. Adversarial(kind, d, victim) = <<Advance(FreshMax + 1), Here(FALSE, TRUE)>>
      BY <1>3 DEF Adversarial
    <2> HIDE DEF Here
    <2>4. QED
      BY <2>1, <2>2, <2>3, TwoSteps
  <1>4. CASE kind = "identity"
    <2> DEFINE s == Ask(d, domain[d], AddressOf(victim, domain[victim]), TRUE, TRUE, "adversarial")
    <2>1. s \in OpsOf(Members, shared, QuietMarks)
      BY <1>1, <1>4, AskIsOp DEF QuietMarks
    <2>2. Adversarial(kind, d, victim) = <<s>>
      BY <1>4 DEF Adversarial
    <2> HIDE DEF s
    <2>3. QED
      BY <2>1, <2>2
  <1>5. CASE kind = "context"
    <2>1. "WLAN" \in Domains
      BY RunnerAssumption
    <2>2. Feed(d, "WLAN", FALSE) \in OpsOf(Members, shared, QuietMarks)
      BY <2>1, FeedIsOp
    <2>3. AskFrom(d, "WLAN", "adversarial") \in OpsOf(Members, shared, QuietMarks)
      BY <2>1, AskFromIsOp DEF QuietMarks
    <2>4. Adversarial(kind, d, victim) = <<Feed(d, "WLAN", FALSE), AskFrom(d, "WLAN", "adversarial")>>
      BY <1>5 DEF Adversarial
    <2>5. QED
      BY <2>2, <2>3, <2>4, TwoSteps
  <1>6. CASE kind = "rapid"
    <2> DEFINE t == InTurn(BurstLength, [i \in 1..BurstLength |->
                      <<Feed(d, DomainAt(i - 1), TRUE), Advance(1)>>])
               s == AskFrom(d, DomainAt(BurstLength - 1), "adversarial")
    <2>1. t \in Seq(OpsOf(Members, shared, QuietMarks))
      BY ShuttleType
    <2>2. s \in OpsOf(Members, shared, QuietMarks)
      BY DomainAtType, AskFromIsOp DEF QuietMarks
    <2>3. Adversarial(kind, d, victim) = Append(t, s)
      BY <1>6 DEF Adversarial
    <2> HIDE DEF t, s
    <2>4. QED
      BY <2>1, <2>2, <2>3
  <1>7. CASE kind = "session"
    <2>1. Here(TRUE, FALSE) \in OpsOf(Members, shared, QuietMarks)
      BY <1>2
    <2>2. Adversarial(kind, d, victim) = <<Here(TRUE, FALSE)>>
      BY <1>7 DEF Adversarial
    <2> HIDE DEF Here
    <2>3. QED
      BY <2>1, <2>2, OneStep
  <1>8. QED
    BY <1>3, <1>4, <1>5, <1>6, <1>7 DEF AdversarialKinds

-----------------------------------------------------------------------------
(* The inductive invariant *)

(* The runner works off a script of its members, in domains they are in.   *)
ScriptOK ==
  /\ run \in Setups
  /\ contested \subseteq Members
  /\ todo \in Seq(OpsOf(Members, contested, Marks))
  /\ workload # None => workload.index \in Nat /\ workload.interval \in Nat
  /\ DOMAIN domain = Devices
  /\ phase = "running" => \A d \in Members : domain[d] \in Domains

(* No scenario suspends a device, and the evidence of a device nobody      *)
(* contests is its own.                                                    *)
EvidenceOK ==
  /\ status \in [Devices -> {"ACTIVE", None}]
  /\ DOMAIN store = Addresses /\ DOMAIN decided = Devices
  /\ DOMAIN answered = Devices /\ DOMAIN last = Devices
  /\ OwnEvidence

(* Under CA-ZTCF the stores are those of the pipeline.                     *)
ServiceOK == run.strategy = "ca_ztcf" => TypeOK /\ BindingsOwned

RunnerInv == ScriptOK /\ EvidenceOK /\ ServiceOK

LEMMA RunnerInvInit == RunnerInit => RunnerInv
  <1> SUFFICES ASSUME RunnerInit PROVE RunnerInv
    OBVIOUS
  <1>1. Init /\ BaselineInit
    BY DEF RunnerInit, BaselineInit
  <1>2. ScriptOK
    <2>1. << >> \in Seq(OpsOf(Members, contested, Marks))
      OBVIOUS
    <2>2. QED
      BY <2>1 DEF RunnerInit, ScriptOK
  <1>3. EvidenceOK
    <2>1. /\ Members \subseteq Devices
          /\ \A d \in Members, dom \in Domains : AddressOf(d, dom) \in Addresses
      BY RunMeans DEF RunnerInit
    <2>2. /\ status = [d \in Devices |-> None] /\ store = [a \in Addresses |-> None]
          /\ decided = [d \in Devices |-> None] /\ answered = [d \in Devices |-> None]
          /\ last = [d \in Devices |-> None]
      BY <1>1 DEF Init, BaselineInit, RunnerInit
    <2>3. OwnEvidence
      BY <2>1, <2>2 DEF OwnEvidence
    <2>4. QED
      BY <2>2, <2>3 DEF EvidenceOK
  <1>4. ServiceOK
    <2>1. BindingsOwned
      BY <1>1 DEF Init, BindingsOwned
    <2>2. QED
      BY <1>1, <2>1, TypeInit DEF ServiceOK
  <1>5. QED
    BY <1>2, <1>3, <1>4 DEF RunnerInv

(* What leaves the stores alone leaves their part of the invariant.        *)
LEMMA StoresFrame ==
  ASSUME EvidenceOK, ServiceOK, UNCHANGED <<baselineVars, run, last>>, contested \subseteq contested'
  PROVE  EvidenceOK' /\ ServiceOK'
  <1>1. UNCHANGED vars /\ UNCHANGED answered
    BY DEF baselineVars, evidence
  <1>2. UNCHANGED <<status, store, decided, answered, active, nextId>>
    BY <1>1 DEF vars, registry, access, grants
  <1>3. Members' = Members
    BY DEF Members
  <1>4. EvidenceOK'
    BY <1>2, <1>3 DEF EvidenceOK, OwnEvidence, AddressOf
  <1>5. ServiceOK'
    <2>1. TypeOK => TypeOK'
      BY <1>1 DEF TypeOK, vars, registry, access, grants, history
    <2>2. BindingsOwned => BindingsOwned'
      BY <1>2 DEF BindingsOwned, Reaches
    <2>3. QED
      BY <2>1, <2>2 DEF ServiceOK
  <1>6. QED
    BY <1>4, <1>5

(* An event, or an entry of a workload, writes a script and touches no     *)
(* store.                                                                  *)

(* What an event leaves: its script is written, and nothing else changes.  *)
Written(marks) ==
  /\ UNCHANGED <<baselineVars, run, phase, domain, last>> /\ scored' = None
  /\ contested \subseteq contested' /\ contested' \subseteq Members
  /\ todo' \in Seq(OpsOf(Members, contested', marks))
  /\ workload' # None => workload'.index \in Nat /\ workload'.interval \in Nat

LEMMA ScriptWritten ==
  ASSUME RunnerInv, UNCHANGED <<baselineVars, run, phase, domain, last>>,
         contested \subseteq contested', contested' \subseteq Members,
         todo' \in Seq(OpsOf(Members, contested', Marks)),
         workload' # None => workload'.index \in Nat /\ workload'.interval \in Nat
  PROVE  RunnerInv'
  <1>1. EvidenceOK' /\ ServiceOK'
    BY StoresFrame DEF RunnerInv
  <1>2. Members' = Members
    BY DEF Members
  <1>3. ScriptOK'
    BY <1>2 DEF RunnerInv, ScriptOK
  <1>4. QED
    BY <1>1, <1>3 DEF RunnerInv

LEMMA PlainWrites ==
  ASSUME RunnerInv, NEW kind, NEW script, Plain(kind, script), NEW marks,
         script \in Seq(OpsOf(Members, contested, marks))
  PROVE  Written(marks)
  BY DEF Plain, Begin, RunnerInv, ScriptOK, Written

(* A script without the mark of a burst is a script.                       *)
LEMMA QuietIsScript ==
  ASSUME NEW members, NEW shared
  PROVE  Seq(OpsOf(members, shared, QuietMarks)) \subseteq Seq(OpsOf(members, shared, Marks))
  <1>1. Asks(members, shared, QuietMarks) \subseteq Asks(members, shared, Marks)
    BY DEF Asks, Marks
  <1>2. OpsOf(members, shared, QuietMarks) \subseteq OpsOf(members, shared, Marks)
    BY <1>1 DEF OpsOf
  <1> HIDE DEF OpsOf
  <1>3. QED
    BY <1>2

(* The script of rapid transitions, and the marks of its decisions.        *)
MarksOf(interval) ==
  [i \in 1..BurstLength |-> IF i # BurstLength THEN "none"
                            ELSE IF interval * MaxTransitions <= RateWindow THEN "burst" ELSE "score"]

Stay(d, dom, mark, seconds) == Append(Visit(d, dom, mark), Advance(seconds))

RapidScript(d, interval) ==
  InTurn(BurstLength,
         [i \in 1..BurstLength |-> Stay(d, DomainAt(i - 1), MarksOf(interval)[i], interval)])

(* The stated intervals are lengths of time.                               *)
LEMMA EventWrites ==
  ASSUME RunnerInv, Event
  PROVE  \/ Written(QuietMarks)
         \/ \E d \in Members, interval \in Intervals :
              /\ Written(Marks) /\ todo' = RapidScript(d, interval)
              /\ interval * MaxTransitions <= RateWindow
  <1>0. /\ run \in Setups /\ contested \subseteq Members /\ Intervals \subseteq Nat
        /\ phase = "running" => \A d \in Members : domain[d] \in Domains
        /\ workload # None => workload.index \in Nat /\ workload.interval \in Nat
    BY RunnerAssumption DEF RunnerInv, ScriptOK
  <1>1. ASSUME NEW seconds \in Intervals, AdvanceTime(seconds) PROVE Written(QuietMarks)
    <2>1. Advance(seconds) \in OpsOf(Members, contested, QuietMarks)
      BY <1>0, AdvanceIsOp
    <2>2. <<Advance(seconds)>> \in Seq(OpsOf(Members, contested, QuietMarks))
      BY <2>1, OneStep
    <2>3. QED
      BY <1>1, <2>2, PlainWrites DEF AdvanceTime
  <1>2. ASSUME NEW seconds \in Intervals, DeviceSweep(seconds) PROVE Written(QuietMarks)
    <2>1. PICK pause \in Nat : pause = IF seconds = 0 THEN 1 ELSE seconds
      BY <1>0
    <2>2. Plain("device_sweep",
            InTurn(run.devices, [d \in Members |->
              Visit(d, "NR", "none") \o <<Advance(pause)>> \o Visit(d, "WLAN", "score")]))
      BY <1>2, <2>1 DEF DeviceSweep
    <2>3. QED
      BY <1>0, <2>2, SweepType, PlainWrites
  <1>3. ASSUME NEW seconds \in Intervals, MixedWorkload(seconds) PROVE Written(QuietMarks)
    <2>1. /\ UNCHANGED <<baselineVars, run, phase, domain, last, contested>> /\ scored' = None
          /\ todo' = << >> /\ workload' = [index |-> 0, interval |-> seconds]
      BY <1>3 DEF MixedWorkload, Begin
    <2>2. << >> \in Seq(OpsOf(Members, contested', QuietMarks))
      OBVIOUS
    <2>3. workload'.index \in Nat /\ workload'.interval \in Nat
      BY <1>0, <2>1
    <2>4. QED
      BY <1>0, <2>1, <2>2, <2>3 DEF Written
  <1>4. ASSUME NEW dom \in Domains, NEW seconds \in Intervals, ConcurrentTransition(dom, seconds)
        PROVE  Written(QuietMarks)
    BY <1>0, <1>4, ConcurrentType, PlainWrites DEF ConcurrentTransition
  <1>5. ASSUME NEW d \in Members, NEW dom \in Domains,
               Session(d, dom) \/ MoveTo(d, dom) \/ UnauthorizedContext(d, dom)
        PROVE  Written(QuietMarks)
    <2>1. \A p \in BOOLEAN : Feed(d, dom, p) \in OpsOf(Members, contested, QuietMarks)
      BY FeedIsOp
    <2>2. AskFrom(d, dom, "score") \in OpsOf(Members, contested, QuietMarks)
      BY <1>0, AskFromIsOp DEF QuietMarks
    <2>3. CASE Session(d, dom)
      <3>1. <<Feed(d, dom, TRUE)>> \in Seq(OpsOf(Members, contested, QuietMarks))
        BY <2>1, OneStep
      <3>2. QED
        BY <2>3, <3>1, PlainWrites DEF Session
    <2>4. CASE MoveTo(d, dom)
      <3>1. <<AskFrom(d, dom, "score")>> \in Seq(OpsOf(Members, contested, QuietMarks))
        BY <2>2, OneStep
      <3>2. QED
        BY <2>4, <3>1, PlainWrites DEF MoveTo
    <2>5. CASE UnauthorizedContext(d, dom)
      <3>1. Feed(d, dom, FALSE) \in OpsOf(Members, contested, QuietMarks)
        BY <2>1
      <3>2. <<Feed(d, dom, FALSE), AskFrom(d, dom, "score")>> \in Seq(OpsOf(Members, contested, QuietMarks))
        BY <2>2, <3>1, TwoSteps
      <3>3. QED
        BY <2>5, <3>2, PlainWrites DEF UnauthorizedContext
    <2>6. QED
      BY <1>5, <2>3, <2>4, <2>5
  <1>6. ASSUME NEW d \in Members, NEW proof \in BOOLEAN, Connect(d, proof) PROVE Written(QuietMarks)
    <2> DEFINE s == Ask(d, domain[d], AddressOf(d, domain[d]), proof, TRUE, "score")
    <2>1. domain[d] \in Domains /\ Plain("mqtt_connect", <<s>>)
      BY <1>0, <1>6 DEF Connect, Plain, Begin
    <2>2. s \in OpsOf(Members, contested, QuietMarks)
      BY <1>0, <2>1, RunMeans, AskIsOp DEF QuietMarks
    <2> HIDE DEF s
    <2>3. QED
      BY <2>1, <2>2, OneStep, PlainWrites
  <1>7. ASSUME NEW d \in Members, NEW other \in Members, IdentityMismatch(d, other)
        PROVE  Written(QuietMarks)
    <2> DEFINE s == Ask(other, domain[other], AddressOf(d, domain[d]), TRUE, TRUE, "score")
    <2>1. /\ phase = "running" /\ contested' = contested \cup {d, other} /\ todo' = <<s>>
          /\ UNCHANGED <<baselineVars, run, phase, domain, last, workload>> /\ scored' = None
      BY <1>7 DEF IdentityMismatch, Begin
    <2>2. domain[d] \in Domains /\ domain[other] \in Domains
      BY <1>0, <2>1
    <2>3. s \in OpsOf(Members, contested', QuietMarks)
      BY <1>0, <2>1, <2>2, RunMeans, AskIsOp DEF QuietMarks
    <2> HIDE DEF s
    <2>4. todo' \in Seq(OpsOf(Members, contested', QuietMarks))
      BY <2>1, <2>3, OneStep
    <2>5. QED
      BY <1>0, <2>1, <2>4 DEF Written
  <1>8. ASSUME NEW d \in Members, SessionMismatch(d) PROVE Written(QuietMarks)
    <2> DEFINE s == Ask(d, domain[d], AddressOf(d, domain[d]), TRUE, FALSE, "score")
    <2>1. domain[d] \in Domains /\ Plain("session_mismatch", <<s>>)
      BY <1>0, <1>8 DEF SessionMismatch, Plain, Begin
    <2>2. s \in OpsOf(Members, contested, QuietMarks)
      BY <1>0, <2>1, RunMeans, AskIsOp DEF QuietMarks
    <2> HIDE DEF s
    <2>3. QED
      BY <2>1, <2>2, OneStep, PlainWrites
  <1>9. ASSUME NEW d \in Members, NEW seconds \in Intervals, RapidTransitions(d, seconds)
        PROVE  \/ Written(QuietMarks)
               \/ /\ Written(Marks) /\ todo' = RapidScript(d, seconds)
                  /\ seconds * MaxTransitions <= RateWindow
    <2> DEFINE script == RapidScript(d, seconds)
    <2>1. Plain("rapid_transitions", script)
      BY <1>9 DEF RapidTransitions, RapidScript, Stay, MarksOf
    <2>2. ASSUME NEW marks, \A i \in 1..BurstLength : MarksOf(seconds)[i] \in marks
          PROVE  Written(marks)
      <3>1. script \in Seq(OpsOf(Members, contested, marks))
        BY <1>0, <2>2, RapidType DEF RapidScript, Stay
      <3> HIDE DEF script
      <3>2. QED
        BY <2>1, <3>1, PlainWrites
    <2>3. todo' = script
      BY <2>1 DEF Plain, Begin
    <2>4. CASE seconds * MaxTransitions <= RateWindow
      <3>1. \A i \in 1..BurstLength : MarksOf(seconds)[i] \in Marks
        BY DEF MarksOf, Marks, QuietMarks
      <3>2. QED
        BY <2>2, <2>3, <2>4, <3>1
    <2>5. CASE ~(seconds * MaxTransitions <= RateWindow)
      <3>1. \A i \in 1..BurstLength : MarksOf(seconds)[i] \in QuietMarks
        BY <2>5 DEF MarksOf, QuietMarks
      <3>2. QED
        BY <2>2, <3>1
    <2>6. QED
      BY <2>4, <2>5
  <1>10. ASSUME NEW d \in Members, NEW expected \in BOOLEAN, Operation(d, "telemetry", expected)
         PROVE  Written(QuietMarks)
    <2>1. Check(d, "telemetry", expected) \in OpsOf(Members, contested, QuietMarks)
      BY CheckIsOp
    <2>2. <<Check(d, "telemetry", expected)>> \in Seq(OpsOf(Members, contested, QuietMarks))
      BY <2>1, OneStep
    <2>3. QED
      BY <1>10, <2>2, PlainWrites DEF Operation
  <1>11. ASSUME NEW d \in Members, Disconnect(d) PROVE Written(QuietMarks)
    <2>1. [op |-> "revoke", device |-> d] \in OpsOf(Members, contested, QuietMarks)
      BY RevokeIsOp
    <2>2. <<[op |-> "revoke", device |-> d]>> \in Seq(OpsOf(Members, contested, QuietMarks))
      BY <2>1, OneStep
    <2>3. QED
      BY <1>11, <2>2, PlainWrites DEF Disconnect
  <1>12. QED
    BY <1>1, <1>2, <1>3, <1>4, <1>5, <1>6, <1>7, <1>8, <1>9, <1>10, <1>11 DEF Event

LEMMA EventKeeps == RunnerInv /\ Event => RunnerInv'
  <1> SUFFICES ASSUME RunnerInv, Event PROVE RunnerInv'
    OBVIOUS
  <1>1. Written(QuietMarks) => Written(Marks)
    BY QuietIsScript DEF Written
  <1>2. Written(Marks)
    BY <1>1, EventWrites
  <1>3. QED
    BY <1>2, ScriptWritten DEF Written

(* An entry of a workload.                                                 *)
LEMMA EntryWrites ==
  ASSUME RunnerInv, LegitimateEntry \/ \E kind \in AdversarialKinds : AdversarialEntry(kind)
  PROVE  Written(QuietMarks)
  <1>0. /\ run \in Setups /\ contested \subseteq Members
        /\ phase = "running" => \A d \in Members : domain[d] \in Domains
        /\ workload # None => workload.index \in Nat /\ workload.interval \in Nat
    BY DEF RunnerInv, ScriptOK
  <1>1. ASSUME NEW script, Entry(script), contested \subseteq contested', contested' \subseteq Members,
               script \in Seq(OpsOf(Members, contested', QuietMarks))
        PROVE  Written(QuietMarks)
    <2>1. /\ UNCHANGED <<baselineVars, run, phase, domain, last>> /\ scored' = None
          /\ workload # None
          /\ todo' = Append(script, Advance(workload.interval))
          /\ workload' = [workload EXCEPT !.index = @ + 1]
      BY <1>1 DEF Entry
    <2>2. workload.index \in Nat /\ workload.interval \in Nat
      BY <1>0, <2>1
    <2>3. todo' \in Seq(OpsOf(Members, contested', QuietMarks))
      <3>1. Advance(workload.interval) \in OpsOf(Members, contested', QuietMarks)
        BY <2>2, AdvanceIsOp
      <3>2. QED
        BY <1>1, <2>1, <3>1, OneMoreStep
    <2>4. workload' # None => workload'.index \in Nat /\ workload'.interval \in Nat
      BY <2>1, <2>2
    <2>5. QED
      BY <1>1, <2>1, <2>3, <2>4 DEF Written
  <1>2. CASE LegitimateEntry
    <2>1. /\ workload # None /\ UNCHANGED contested
          /\ Entry(Visit(LegitimateMember(workload.index), DomainAt(workload.index), "legitimate"))
      BY <1>2 DEF LegitimateEntry, Entry
    <2>2. LegitimateMember(workload.index) \in Members
      BY <1>0, <2>1, CohortsType
    <2>3. Visit(LegitimateMember(workload.index), DomainAt(workload.index), "legitimate")
            \in Seq(OpsOf(Members, contested, QuietMarks))
      BY <1>0, <2>2, DomainAtType, VisitType DEF QuietMarks
    <2>4. QED
      BY <1>0, <1>1, <2>1, <2>3
  <1>3. ASSUME NEW kind \in AdversarialKinds, AdversarialEntry(kind) PROVE Written(QuietMarks)
    <2> DEFINE d == AdversarialMember(workload.index)
               victim == LegitimateMember(workload.index)
    <2>1. /\ Entry(Adversarial(kind, d, victim))
          /\ workload # None /\ phase = "running"
          /\ contested' = IF kind = "identity" THEN contested \cup {d, victim} ELSE contested
      BY <1>3 DEF AdversarialEntry, Entry
    <2>2. d \in Members /\ victim \in Members
      BY <1>0, <2>1, CohortsType
    <2> HIDE DEF d, victim
    <2>3. contested \subseteq contested' /\ contested' \subseteq Members
      BY <1>0, <2>1, <2>2
    <2>4. Adversarial(kind, d, victim) \in Seq(OpsOf(Members, contested', QuietMarks))
      BY <1>0, <2>1, <2>2, AdversarialType
    <2>5. QED
      BY <1>1, <2>1, <2>3, <2>4
  <1>4. QED
    BY <1>2, <1>3

LEMMA WorkloadKeeps ==
  ASSUME RunnerInv,
         \/ LegitimateEntry \/ (\E kind \in AdversarialKinds : AdversarialEntry(kind)) \/ WorkloadDone
  PROVE  RunnerInv'
  <1>1. Written(QuietMarks) => RunnerInv'
    BY QuietIsScript, ScriptWritten DEF Written
  <1>2. CASE WorkloadDone
    <2>1. /\ UNCHANGED <<baselineVars, run, phase, domain, last, todo, contested>> /\ workload' = None
      BY <1>2 DEF WorkloadDone, results
    <2>2. /\ contested \subseteq Members /\ todo \in Seq(OpsOf(Members, contested, Marks))
      BY DEF RunnerInv, ScriptOK
    <2>3. QED
      BY <2>1, <2>2, ScriptWritten
  <1>3. QED
    BY <1>1, <1>2, EntryWrites

-----------------------------------------------------------------------------
(* Working off a script *)

(* The step in hand, and what is left of the script.                       *)
LEMMA StepTaken ==
  ASSUME RunnerInv, NEW op, Step(op)
  PROVE  /\ Head(todo) \in OpsOf(Members, contested, Marks) /\ Head(todo).op = op
         /\ todo' \in Seq(OpsOf(Members, contested, Marks))
         /\ run \in Setups /\ UNCHANGED <<run, workload>> /\ Members' = Members
  <1>1. todo \in Seq(OpsOf(Members, contested, Marks)) /\ todo # << >> /\ run \in Setups
    BY DEF RunnerInv, ScriptOK, Step
  <1>2. Head(todo) \in OpsOf(Members, contested, Marks) /\ Tail(todo) \in Seq(OpsOf(Members, contested, Marks))
    BY <1>1
  <1>3. QED
    BY <1>1, <1>2 DEF Step, Members

LEMMA ScriptShortens ==
  ASSUME RunnerInv, NEW op, Step(op), UNCHANGED contested, phase' \in {phase, "failed"},
         domain' = domain \/ \E d \in Members, dom \in Domains : domain' = [domain EXCEPT ![d] = dom]
  PROVE  ScriptOK'
  <1>1. /\ todo' \in Seq(OpsOf(Members, contested, Marks))
        /\ run \in Setups /\ UNCHANGED <<run, workload>> /\ Members' = Members
    BY StepTaken
  <1>2. /\ DOMAIN domain = Devices /\ phase = "running" /\ \A d \in Members : domain[d] \in Domains
        /\ contested \subseteq Members
        /\ workload # None => workload.index \in Nat /\ workload.interval \in Nat
    BY DEF RunnerInv, ScriptOK, Step
  <1>3. DOMAIN domain' = Devices /\ \A d \in Members : domain'[d] \in Domains
    <2>1. CASE domain' = domain
      BY <1>2, <2>1
    <2>2. ASSUME NEW d \in Members, NEW dom \in Domains, domain' = [domain EXCEPT ![d] = dom]
          PROVE  DOMAIN domain' = Devices /\ \A x \in Members : domain'[x] \in Domains
      <3>1. Members \subseteq Devices
        BY <1>1, RunMeans
      <3>2. \A x \in Members : domain'[x] = IF x = d THEN dom ELSE domain[x]
        BY <1>2, <2>2, <3>1
      <3>3. QED
        BY <1>2, <2>2, <3>2
    <2>3. QED
      BY <2>1, <2>2
  <1>4. QED
    BY <1>1, <1>2, <1>3 DEF ScriptOK

(* A refresh attributes a binding to nobody it was not attributed to.      *)
LEMMA MergedReference ==
  ASSUME NEW old, NEW new, NEW id, NEW dom, NEW seen, NEW expires, NEW posture,
         new = [id |-> id, domain |-> dom, device_ref |-> None, last_seen |-> seen,
                expires_at |-> expires, posture |-> posture]
  PROVE  \/ Merged(new, old).device_ref = None
         \/ old # None /\ Merged(new, old).device_ref = old.device_ref
  BY DEF Merged

(* The bindings at the addresses of a device are its own when one of them  *)
(* changes, and the new one is attributed as before, or to the device it   *)
(* is about.                                                               *)
OwnBindings ==
  \A d \in Members \ contested, dom \in Domains :
    store[AddressOf(d, dom)] # None => store[AddressOf(d, dom)].device_ref \in {None, d}

LEMMA OwnBindingsKept ==
  ASSUME run \in Setups, OwnBindings, DOMAIN store = Addresses, UNCHANGED <<run, contested>>,
         NEW a \in Addresses, NEW b, store' = [store EXCEPT ![a] = b],
         NEW d, OwnAddress(d, a, Members, contested),
         \/ b = None \/ b.device_ref \in {None, d}
         \/ store[a] # None /\ b.device_ref = store[a].device_ref
  PROVE  OwnBindings'
  <1>1. Members' = Members
    BY DEF Members
  <1>2. ASSUME NEW x \in Members \ contested, NEW dom \in Domains, store'[AddressOf(x, dom)] # None
        PROVE  store'[AddressOf(x, dom)].device_ref \in {None, x}
    <2>1. AddressOf(x, dom) \in Addresses
      BY RunMeans
    <2>2. store[AddressOf(x, dom)] # None => store[AddressOf(x, dom)].device_ref \in {None, x}
      BY DEF OwnBindings
    <2>3. CASE AddressOf(x, dom) # a
      BY <1>2, <2>1, <2>2, <2>3
    <2>4. CASE AddressOf(x, dom) = a
      <3>1. x = d
        BY <2>4 DEF OwnAddress, AddressOf
      <3>2. store'[a] = b
        OBVIOUS
      <3>3. QED
        BY <1>2, <2>2, <2>4, <3>1, <3>2
    <2>5. QED
      BY <2>3, <2>4
  <1>3. QED
    BY <1>1, <1>2 DEF OwnBindings, AddressOf

LEMMA OwnEvidenceIs ==
  OwnEvidence <=> /\ OwnBindings
                  /\ \A d \in Members \ contested : last[d] # None => last[d].state # "UNTRUSTED"
  BY DEF OwnEvidence, OwnBindings

(* A binding of the pipeline that comes, whenever it is dated, and bindings *)
(* that disappear.                                                          *)
LEMMA StoreFed ==
  ASSUME TypeOK, BindingsOwned, NEW a \in Addresses, NEW dom \in Domains, NEW delay \in Int,
         NEW lifetime \in Lifetimes, NEW posture \in BOOLEAN,
         CollectorEvent(a, dom, delay, lifetime, posture)
  PROVE  TypeOK' /\ BindingsOwned'
  <1>1. posture \in Postures
    BY RunnerAssumption
  <1>2. PICK b \in Bindings : store' = [store EXCEPT ![a] = b]
    BY <1>1, CollectorStores
  <1>3. store' \in [Addresses -> Bindings \cup {None}]
    BY <1>2 DEF TypeOK
  <1>4. TypeOK'
    BY <1>3 DEF TypeOK, CollectorEvent, registry, grants, history
  <1>5. BindingsOwned'
    BY <1>1, OwnedCollector
  <1>6. QED
    BY <1>4, <1>5

LEMMA StoreEmptied ==
  ASSUME TypeOK, BindingsOwned, NEW gone \in SUBSET Addresses,
         store' = [a \in Addresses |-> IF a \in gone THEN None ELSE store[a]],
         UNCHANGED <<clock, registry, nextId, track, grants, history>>
  PROVE  TypeOK' /\ BindingsOwned'
  <1>1. TypeOK'
    BY DEF TypeOK, registry, grants, history
  <1>2. UNCHANGED <<active, nextId>> /\ \A x \in Addresses : store'[x] \in {store[x], None}
    BY DEF grants, TypeOK
  <1>3. QED
    BY <1>1, <1>2, OwnedShrinks

LEMMA ServiceFeeds ==
  ASSUME run \in Setups, ServiceOK, UNCHANGED run, NEW a \in Addresses, NEW dom \in Domains,
         NEW posture \in BOOLEAN,
         \/ \E lifetime \in Lifetimes : CollectorEvent(a, dom, 0, lifetime, posture)
         \/ /\ store' = [store EXCEPT ![a] = None]
            /\ UNCHANGED <<clock, registry, nextId, track, grants, history>>
  PROVE  ServiceOK'
  <1> SUFFICES ASSUME TypeOK, BindingsOwned PROVE TypeOK' /\ BindingsOwned'
    BY DEF ServiceOK
  <1>1. CASE /\ store' = [store EXCEPT ![a] = None]
             /\ UNCHANGED <<clock, registry, nextId, track, grants, history>>
    <2>1. store' = [x \in Addresses |-> IF x \in {a} THEN None ELSE store[x]]
      BY <1>1 DEF TypeOK
    <2>2. QED
      BY <1>1, <2>1, StoreEmptied
  <1>2. QED
    BY <1>1, StoreFed

LEMMA FeedKeeps == RunnerInv /\ DoFeed => RunnerInv'
  <1> SUFFICES ASSUME RunnerInv, DoFeed PROVE RunnerInv'
    OBVIOUS
  <1>1. Step("feed") /\ UNCHANGED <<evidence, results>>
    BY DEF DoFeed
  <1>2. PICK s : s = Head(todo)
    OBVIOUS
  <1>3. /\ s.device \in Members /\ s.domain \in Domains /\ s.posture \in BOOLEAN
        /\ run \in Setups /\ UNCHANGED run
    <2>1. s \in OpsOf(Members, contested, Marks) /\ s.op = "feed" /\ run \in Setups /\ UNCHANGED run
      BY <1>1, <1>2, StepTaken
    <2>2. QED
      BY <2>1, OpMeans
  <1>4. PICK a \in Addresses : a = AddressOf(s.device, s.domain)
    BY <1>3, RunMeans
  <1>5. OwnAddress(s.device, a, Members, contested)
    BY <1>3, <1>4 DEF OwnAddress
  <1>6. /\ EvidenceOK /\ ServiceOK /\ UNCHANGED <<answered, domain, last, contested>>
    BY <1>1 DEF RunnerInv, evidence, results
  <1>7. \/ /\ \E lifetime \in Lifetimes : CollectorEvent(a, s.domain, 0, lifetime, s.posture)
           /\ UNCHANGED phase
        \/ /\ store' = [store EXCEPT ![a] = None]
           /\ UNCHANGED <<clock, registry, nextId, track, grants, history, phase>>
        \/ phase' = "failed" /\ UNCHANGED vars
    BY <1>2, <1>4 DEF DoFeed
  <1>8. ScriptOK'
    BY <1>1, <1>6, <1>7, ScriptShortens
  <1>9. ASSUME NEW b, store' = [store EXCEPT ![a] = b], UNCHANGED <<status, decided>>,
               \/ b = None \/ b.device_ref = None
               \/ store[a] # None /\ b.device_ref = store[a].device_ref
        PROVE  EvidenceOK'
    <2>1. OwnBindings'
      BY <1>3, <1>5, <1>6, <1>9, OwnEvidenceIs, OwnBindingsKept DEF EvidenceOK
    <2>2. OwnEvidence'
      BY <1>3, <1>6, <2>1, OwnEvidenceIs DEF EvidenceOK, OwnEvidence, OwnBindings, Members
    <2>3. QED
      BY <1>6, <1>9, <2>2 DEF EvidenceOK
  <1>10. ASSUME NEW lifetime \in Lifetimes, CollectorEvent(a, s.domain, 0, lifetime, s.posture)
         PROVE  EvidenceOK' /\ ServiceOK'
    <2> DEFINE new == [id |-> nextId, domain |-> s.domain, device_ref |-> None,
                       last_seen |-> clock - 0, expires_at |-> Expiry(clock - 0, lifetime),
                       posture |-> s.posture]
    <2>1. store' = [store EXCEPT ![a] = Merged(new, store[a])] /\ UNCHANGED <<status, decided>>
      BY <1>10 DEF CollectorEvent, registry, grants
    <2>2. \/ Merged(new, store[a]).device_ref = None
          \/ store[a] # None /\ Merged(new, store[a]).device_ref = store[a].device_ref
      BY MergedReference
    <2> HIDE DEF new
    <2>3. EvidenceOK'
      BY <1>9, <2>1, <2>2
    <2>4. ServiceOK'
      BY <1>3, <1>6, <1>10, ServiceFeeds
    <2>5. QED
      BY <2>3, <2>4
  <1>11. CASE /\ store' = [store EXCEPT ![a] = None]
              /\ UNCHANGED <<clock, registry, nextId, track, grants, history, phase>>
    <2>1. EvidenceOK'
      BY <1>9, <1>11 DEF registry, grants
    <2>2. ServiceOK'
      BY <1>3, <1>6, <1>11, ServiceFeeds
    <2>3. QED
      BY <1>8, <2>1, <2>2 DEF RunnerInv
  <1>12. CASE UNCHANGED vars
    <2>1. UNCHANGED <<baselineVars, run, last>>
      BY <1>1, <1>3, <1>6, <1>12 DEF baselineVars
    <2>2. QED
      BY <1>6, <1>8, <2>1, StoresFrame DEF RunnerInv
  <1>13. QED
    BY <1>7, <1>8, <1>10, <1>11, <1>12 DEF RunnerInv

-----------------------------------------------------------------------------
(* A decision *)

(* CA-ZTCF judges a device UNTRUSTED that is registered, when it is not    *)
(* ACTIVE or presents itself over a binding of another device.             *)
LEMMA JudgedUntrusted ==
  ASSUME NEW d \in Devices, NEW a \in Addresses, NEW declared, NEW verdict, NEW session,
         NEW now, status[d] \in {"ACTIVE", None}, store[a] \in Bindings \cup {None},
         TrustState(EvidenceNow(d, a, declared, verdict, session, now)) = "UNTRUSTED"
  PROVE  store[a] # None /\ store[a].device_ref \notin {None, d}
  <1> DEFINE e == EvidenceNow(d, a, declared, verdict, session, now)
             b == BindingOf(d, a)
  <1>1. e.identity = status[d] /\ e.consistent = Consistent(b, d)
    BY DEF EvidenceNow, EvidenceOf
  <1> HIDE DEF e
  <1>2. e.identity # None /\ (e.identity # "ACTIVE" \/ ~e.consistent)
    BY DEF TrustState, TrustStateOf, Predicates, e
  <1>3. ~Consistent(b, d)
    BY <1>1, <1>2
  <1>4. b # None /\ b.device_ref \notin {d, None}
    BY <1>3 DEF Consistent
  <1>5. Live(store[a], clock) = None \/ Live(store[a], clock) = store[a]
    BY DEF Live
  <1>6. b = store[a]
    BY <1>4, <1>5 DEF BindingOf, Claimed, Bindings
  <1>7. QED
    BY <1>4, <1>6

(* What a claim leaves at the address.                                     *)
LEMMA ClaimReference ==
  ASSUME NEW d, NEW a, store[a] \in Bindings \cup {None}, BindingOf(d, a) # None
  PROVE  store[a] # None /\ BindingOf(d, a).device_ref \in {d, store[a].device_ref}
  <1>1. Live(store[a], clock) = None \/ Live(store[a], clock) = store[a]
    BY DEF Live
  <1>2. QED
    BY <1>1 DEF BindingOf, Claimed, Bindings

(* What a strategy makes of a request: the state it judges the device in,  *)
(* and what it leaves in the stores.                                       *)
LEMMA StrategyAnswers ==
  ASSUME run \in Setups, EvidenceOK, ServiceOK, UNCHANGED run,
         NEW d \in Devices, NEW a \in Addresses, NEW dom \in Domains,
         NEW verdict \in {"valid", "absent"}, NEW session \in BOOLEAN,
         NEW now, run.strategy = "ca_ztcf" => now \in Nat,
         StrategyDecides(d, a, dom, verdict, session, now)
  PROVE  /\ ServiceOK' /\ UNCHANGED status
         /\ DOMAIN decided' = Devices /\ DOMAIN answered' = Devices
         /\ \/ UNCHANGED store
            \/ \E b : /\ store' = [store EXCEPT ![a] = b]
                      /\ store[a] # None /\ b.device_ref \in {d, store[a].device_ref}
         /\ Judged(d).state = "UNTRUSTED" => store[a] # None /\ store[a].device_ref \notin {None, d}
  <1>1. /\ status[d] \in {"ACTIVE", None} /\ DOMAIN store = Addresses
        /\ DOMAIN decided = Devices /\ DOMAIN answered = Devices
    BY DEF EvidenceOK
  <1>2. CASE run.strategy = "ca_ztcf"
    <2>1. Decide(d, a, dom, verdict, session, now, TRUE) /\ UNCHANGED evidence
      BY <1>2 DEF StrategyDecides
    <2>2. /\ dom \in DeclaredDomains /\ verdict \in Verdicts /\ session \in Sessions
      BY RunnerAssumption
    <2>3. TypeOK /\ BindingsOwned /\ now \in Nat
      BY <1>2 DEF ServiceOK
    <2>4. TypeOK'
      BY <2>1, <2>2, <2>3, DecideType
    <2>5. BindingsOwned'
      BY <2>1, <2>2, <2>3, <2>4, OwnedDecide
    <2>6. PICK c, rule :
            /\ decided' = [decided EXCEPT ![d] =
                             [state |-> TrustState(EvidenceNow(d, a, dom, verdict, session, now)),
                              context |-> c, rule |-> rule]]
            /\ store' = IF BindingOf(d, a) = None THEN store
                        ELSE [store EXCEPT ![a] = BindingOf(d, a)]
            /\ UNCHANGED status
      <3> DEFINE e == EvidenceNow(d, a, dom, verdict, session, now)
                 c0 == ContextNow(d, a, dom, now)
                 rule0 == Outcome(e, c0).rule
      <3>1. PICK apply \in BOOLEAN : Decide(d, a, dom, verdict, session, now, apply)
        BY <2>1
      <3>2. /\ decided' = [decided EXCEPT ![d] =
                             [state |-> TrustState(e), context |-> c0, rule |-> rule0]]
            /\ store' = IF BindingOf(d, a) = None THEN store
                        ELSE [store EXCEPT ![a] = BindingOf(d, a)]
            /\ UNCHANGED status
        BY <3>1, DecideIs
      <3> HIDE DEF c0, rule0
      <3>3. QED
        BY <3>2
    <2>7. store[a] \in Bindings \cup {None}
      BY <2>3 DEF TypeOK
    <2>8. BindingOf(d, a) # None =>
            store[a] # None /\ BindingOf(d, a).device_ref \in {d, store[a].device_ref}
      BY <2>7, ClaimReference
    <2>9. Judged(d).state = TrustState(EvidenceNow(d, a, dom, verdict, session, now))
      BY <1>1, <1>2, <2>6 DEF Judged
    <2>10. Judged(d).state = "UNTRUSTED" => store[a] # None /\ store[a].device_ref \notin {None, d}
      <3> SUFFICES ASSUME Judged(d).state = "UNTRUSTED"
                   PROVE  store[a] # None /\ store[a].device_ref \notin {None, d}
        OBVIOUS
      <3>1. TrustState(EvidenceNow(d, a, dom, verdict, session, now)) = "UNTRUSTED"
        BY <2>9
      <3>2. status[d] \in {"ACTIVE", None}
        BY <1>1
      <3>3. QED
        BY <2>7, <3>1, <3>2, JudgedUntrusted
    <2>11. DOMAIN decided' = Devices /\ DOMAIN answered' = Devices
      BY <1>1, <2>1, <2>6 DEF evidence
    <2>12. ServiceOK'
      BY <2>4, <2>5 DEF ServiceOK
    <2>13. \/ UNCHANGED store
           \/ \E b : /\ store' = [store EXCEPT ![a] = b]
                     /\ store[a] # None /\ b.device_ref \in {d, store[a].device_ref}
      BY <2>6, <2>8
    <2>14. QED
      BY <2>6, <2>10, <2>11, <2>12, <2>13
  <1>3. CASE run.strategy # "ca_ztcf"
    <2>1. Independent(d, a, dom, verdict, now) \/ StaticContinuity(d, a, dom, verdict, now)
      BY <1>3 DEF StrategyDecides
    <2>2. UNCHANGED <<status, store, decided>>
      BY <2>1 DEF Independent, StaticContinuity
    <2>3. PICK state, context1 : Direct(d, state, context1) /\ state # "UNTRUSTED"
      <3>1. CASE Independent(d, a, dom, verdict, now)
        BY <1>1, <3>1 DEF Independent
      <3>2. CASE StaticContinuity(d, a, dom, verdict, now)
        BY <1>1, <3>2 DEF StaticContinuity
      <3>3. QED
        BY <2>1, <3>1, <3>2
    <2>4. answered' = [answered EXCEPT ![d] = [state |-> state, context |-> context1]]
      BY <2>3 DEF Direct
    <2>5. DOMAIN answered' = Devices /\ Judged(d).state = state
      BY <1>1, <1>3, <2>4 DEF Judged
    <2>6. ServiceOK'
      BY <1>3 DEF ServiceOK
    <2>7. QED
      BY <1>1, <2>2, <2>3, <2>5, <2>6
  <1>4. QED
    BY <1>2, <1>3

LEMMA AskKeeps == RunnerInv /\ DoAsk => RunnerInv'
  <1> SUFFICES ASSUME RunnerInv, DoAsk PROVE RunnerInv'
    OBVIOUS
  <1>1. Step("ask") /\ UNCHANGED <<phase, contested>>
    BY DEF DoAsk
  <1>2. PICK s : s = Head(todo)
    OBVIOUS
  <1>3. /\ s.device \in Members /\ s.domain \in Domains /\ s.address \in Addresses
        /\ s.proof \in BOOLEAN /\ s.session \in BOOLEAN
        /\ OwnAddress(s.device, s.address, Members, contested)
        /\ run \in Setups /\ UNCHANGED run /\ Members' = Members
        /\ Instant(s.at) = clock
    <2>1. /\ s \in OpsOf(Members, contested, Marks) /\ s.op = "ask"
          /\ run \in Setups /\ UNCHANGED run /\ Members' = Members
      BY <1>1, <1>2, StepTaken
    <2>2. QED
      BY <2>1, OpMeans
  <1>4. PICK d \in Members, a \in Addresses : d = s.device /\ a = s.address
    BY <1>3
  <1>5. Members \subseteq Devices
    BY <1>3, RunMeans
  <1>6. PICK verdict \in {"valid", "absent"} :
                 StrategyDecides(d, a, s.domain, verdict, s.session, clock)
    BY <1>2, <1>3, <1>4 DEF DoAsk
  <1>7. /\ domain' = [domain EXCEPT ![d] = s.domain]
        /\ last' = [last EXCEPT ![d] =
                      [state |-> Judged(d).state,
                       action |-> Lookup(Judged(d).state, Judged(d).context).action]]
    BY <1>2, <1>4 DEF DoAsk
  <1>8. EvidenceOK /\ ServiceOK /\ OwnEvidence
    BY DEF RunnerInv, EvidenceOK
  <1>9. /\ ServiceOK' /\ UNCHANGED status
        /\ DOMAIN decided' = Devices /\ DOMAIN answered' = Devices
        /\ \/ UNCHANGED store
           \/ \E b : /\ store' = [store EXCEPT ![a] = b]
                     /\ store[a] # None /\ b.device_ref \in {d, store[a].device_ref}
        /\ Judged(d).state = "UNTRUSTED" => store[a] # None /\ store[a].device_ref \notin {None, d}
    <2>1. run.strategy = "ca_ztcf" => clock \in Nat
      BY <1>8 DEF ServiceOK, TypeOK
    <2>2. QED
      BY <1>3, <1>5, <1>6, <1>8, <2>1, StrategyAnswers
  <1>10. ScriptOK'
    BY <1>1, <1>3, <1>7, ScriptShortens
  <1>11. DOMAIN store = Addresses /\ DOMAIN last = Devices /\ status \in [Devices -> {"ACTIVE", None}]
    BY <1>8 DEF EvidenceOK
  (* The address is its own, so what is attributed there is its own too.   *)
  <1>12. d \notin contested => Judged(d).state # "UNTRUSTED"
    <2> SUFFICES ASSUME d \notin contested, Judged(d).state = "UNTRUSTED" PROVE FALSE
      OBVIOUS
    <2>1. store[a] # None /\ store[a].device_ref \notin {None, d}
      BY <1>9
    <2>2. PICK dom \in Domains : a = AddressOf(d, dom)
      BY <1>3, <1>4 DEF OwnAddress
    <2>3. store[a] # None => store[a].device_ref \in {None, d}
      BY <1>8, <2>2 DEF OwnEvidence
    <2>4. QED
      BY <2>1, <2>3
  <1>13. \A x \in Members \ contested : last'[x] # None => last'[x].state # "UNTRUSTED"
    BY <1>5, <1>7, <1>8, <1>11, <1>12 DEF OwnEvidence
  <1>14. OwnBindings'
    <2>1. OwnBindings
      BY <1>8, OwnEvidenceIs
    <2>2. CASE UNCHANGED store
      BY <1>1, <1>3, <2>1, <2>2 DEF OwnBindings, AddressOf
    <2>3. ASSUME NEW b, store' = [store EXCEPT ![a] = b],
                 store[a] # None /\ b.device_ref \in {d, store[a].device_ref}
          PROVE  OwnBindings'
      BY <1>1, <1>3, <1>4, <1>11, <2>1, <2>3, OwnBindingsKept
    <2>4. QED
      BY <1>9, <2>2, <2>3
  <1>15. OwnEvidence'
    BY <1>1, <1>3, <1>13, <1>14 DEF OwnEvidence, OwnBindings
  <1>16. DOMAIN store' = Addresses /\ DOMAIN last' = Devices
    BY <1>7, <1>9, <1>11
  <1>17. QED
    BY <1>9, <1>10, <1>11, <1>15, <1>16 DEF RunnerInv, EvidenceOK

-----------------------------------------------------------------------------
(* The steps that decide nothing *)

(* An operation, and a session that is revoked, at most end a decision.    *)
LEMMA DecisionEnds ==
  ASSUME TypeOK, BindingsOwned, NEW d \in Devices,
         active' \in {active, [active EXCEPT ![d] = None]},
         UNCHANGED <<clock, registry, access, decided, history>>
  PROVE  TypeOK' /\ BindingsOwned'
  <1>1. active' \in [Devices -> Decisions \cup {None}] /\ active \in [Devices -> Decisions \cup {None}]
    BY DEF TypeOK
  <1>2. TypeOK'
    BY <1>1 DEF TypeOK, registry, access, history
  <1>3. \A x \in Devices : active'[x] \in {active[x], None}
    BY <1>1
  <1>4. UNCHANGED <<store, nextId>> /\ \A x \in Addresses : store'[x] \in {store[x], None}
    BY DEF access
  <1>5. QED
    BY <1>2, <1>3, <1>4, OwnedShrinks

LEMMA GrantEnds ==
  ASSUME RunnerInv, NEW op, Step(op), NEW d \in Members,
         active' \in {active, [active EXCEPT ![d] = None]},
         UNCHANGED <<clock, registry, access, decided, history, answered, phase, domain, last, contested>>
  PROVE  RunnerInv'
  <1>1. run \in Setups /\ UNCHANGED run /\ Members' = Members
    BY StepTaken
  <1>2. ScriptOK'
    BY ScriptShortens
  <1>3. UNCHANGED <<status, store, nextId>>
    BY DEF registry, access
  <1>4. EvidenceOK'
    BY <1>1, <1>3 DEF RunnerInv, EvidenceOK, OwnEvidence, AddressOf
  <1>5. d \in Devices
    BY <1>1, RunMeans
  <1>6. ServiceOK'
    BY <1>1, <1>5, DecisionEnds DEF RunnerInv, ServiceOK
  <1>7. QED
    BY <1>2, <1>4, <1>6 DEF RunnerInv

LEMMA CheckKeeps == RunnerInv /\ DoCheck => RunnerInv'
  <1> SUFFICES ASSUME RunnerInv, DoCheck PROVE RunnerInv'
    OBVIOUS
  <1>1. Step("check")
    BY DEF DoCheck
  <1>2. PICK d : d = Head(todo).device
    OBVIOUS
  <1>3. d \in Members
    BY <1>1, <1>2, StepTaken, OpMeans
  <1>4. /\ active' \in {active, [active EXCEPT ![d] = None]}
        /\ UNCHANGED <<clock, registry, access, decided, history, answered, phase, domain, last,
                       contested>>
    BY <1>2 DEF DoCheck, evidence
  <1>5. QED
    BY <1>1, <1>3, <1>4, GrantEnds

LEMMA RevokeKeeps == RunnerInv /\ DoRevoke => RunnerInv'
  <1> SUFFICES ASSUME RunnerInv, DoRevoke PROVE RunnerInv'
    OBVIOUS
  <1>1. Step("revoke")
    BY DEF DoRevoke
  <1>2. PICK d : d = Head(todo).device
    OBVIOUS
  <1>3. d \in Members
    BY <1>1, <1>2, StepTaken, OpMeans
  <1>4. /\ active' \in {active, [active EXCEPT ![d] = None]}
        /\ UNCHANGED <<clock, registry, access, decided, history, answered, phase, domain, last,
                       contested>>
    BY <1>2 DEF DoRevoke, evidence, results
  <1>5. QED
    BY <1>1, <1>3, <1>4, GrantEnds

(* Time passes for the stores. *)
LEMMA ServiceAges ==
  ASSUME TypeOK, BindingsOwned, DoAdvance, NEW seconds \in Nat, clock' = clock + seconds
  PROVE  TypeOK' /\ BindingsOwned'
  <1>1. clock' \in Nat
    BY DEF TypeOK
  <1>2. activeAt' \in [Devices -> Nat \cup {None}]
    BY <1>1 DEF DoAdvance, TypeOK
  <1>3. UNCHANGED <<registry, access, grants, provenAt>>
    BY DEF DoAdvance
  <1>4. TypeOK'
    BY <1>1, <1>2, <1>3 DEF TypeOK, registry, access, grants
  <1>5. BindingsOwned'
    BY <1>3 DEF BindingsOwned, Reaches, access, grants
  <1>6. QED
    BY <1>4, <1>5

LEMMA AdvanceKeeps == RunnerInv /\ DoAdvance => RunnerInv'
  <1> SUFFICES ASSUME RunnerInv, DoAdvance PROVE RunnerInv'
    OBVIOUS
  <1>1. /\ Step("advance") /\ UNCHANGED <<registry, access, grants, answered, phase, domain, last,
                                          contested>>
    BY DEF DoAdvance, evidence, results
  <1>2. PICK seconds \in Nat : clock' = clock + seconds
    BY <1>1, StepTaken, OpMeans DEF DoAdvance
  <1>3. run \in Setups /\ UNCHANGED run /\ Members' = Members
    BY <1>1, StepTaken
  <1>4. ScriptOK'
    BY <1>1, ScriptShortens
  <1>5. UNCHANGED <<status, store, nextId, active, decided>>
    BY <1>1 DEF registry, access, grants
  <1>6. EvidenceOK'
    BY <1>1, <1>3, <1>5 DEF RunnerInv, EvidenceOK, OwnEvidence, AddressOf
  <1>8. ServiceOK'
    BY <1>2, <1>3, ServiceAges DEF RunnerInv, ServiceOK
  <1>9. QED
    BY <1>4, <1>6, <1>8 DEF RunnerInv

LEMMA ServicePrepared ==
  ASSUME TypeOK, BindingsOwned, Prepare
  PROVE  TypeOK' /\ BindingsOwned'
  <1>1. PICK known :
          /\ status' = [d \in Devices |-> IF d \in known THEN "ACTIVE" ELSE None]
          /\ activeAt' = [d \in Devices |-> IF d \in known THEN clock ELSE None]
    BY DEF Prepare
  <1>2. UNCHANGED <<clock, verified, failures, access, grants, provenAt>>
    BY DEF Prepare
  <1>3. /\ status' \in [Devices -> {"ACTIVE", "SUSPENDED", "REVOKED", None}]
        /\ activeAt' \in [Devices -> Nat \cup {None}]
    BY <1>1 DEF TypeOK
  <1>4. TypeOK'
    BY <1>2, <1>3 DEF TypeOK, access, grants
  <1>5. BindingsOwned'
    BY <1>2 DEF BindingsOwned, Reaches, access, grants
  <1>6. QED
    BY <1>4, <1>5

LEMMA PrepareKeeps == RunnerInv /\ Prepare => RunnerInv'
  <1> SUFFICES ASSUME RunnerInv, Prepare PROVE RunnerInv'
    OBVIOUS
  <1>1. /\ run \in Setups /\ contested \subseteq Members /\ todo \in Seq(OpsOf(Members, contested, Marks))
        /\ workload # None => workload.index \in Nat /\ workload.interval \in Nat
        /\ Members \subseteq Devices /\ run.initial \in Domains
    BY RunMeans DEF RunnerInv, ScriptOK
  <1>2. /\ UNCHANGED <<clock, verified, failures, access, grants, provenAt, answered, run, todo, workload,
                       last, contested>>
        /\ domain' = [d \in Devices |-> IF d \in Members THEN run.initial ELSE None]
    BY DEF Prepare, evidence
  <1>3. PICK known \in SUBSET Members :
          /\ status' = [d \in Devices |-> IF d \in known THEN "ACTIVE" ELSE None]
          /\ activeAt' = [d \in Devices |-> IF d \in known THEN clock ELSE None]
    BY DEF Prepare
  <1>4. Members' = Members
    BY <1>2 DEF Members
  <1>5. ScriptOK'
    <2>1. DOMAIN domain' = Devices /\ \A d \in Members : domain'[d] \in Domains
      BY <1>1, <1>2
    <2>2. QED
      BY <1>1, <1>2, <1>4, <2>1 DEF ScriptOK
  <1>6. UNCHANGED <<store, nextId, active, decided>>
    BY <1>2 DEF access, grants
  <1>7. EvidenceOK'
    <2>1. OwnEvidence'
      BY <1>2, <1>4, <1>6 DEF RunnerInv, EvidenceOK, OwnEvidence, AddressOf
    <2>2. QED
      BY <1>2, <1>3, <1>6, <2>1 DEF RunnerInv, EvidenceOK
  <1>9. ServiceOK'
    BY <1>1, <1>2, ServicePrepared DEF RunnerInv, ServiceOK
  <1>10. QED
    BY <1>5, <1>7, <1>9 DEF RunnerInv

-----------------------------------------------------------------------------
(* The theorems *)

LEMMA RunnerInvNext == RunnerInv /\ [RunnerNext]_runnerVars => RunnerInv'
  <1> SUFFICES ASSUME RunnerInv, [RunnerNext]_runnerVars PROVE RunnerInv'
    OBVIOUS
  <1>1. CASE UNCHANGED runnerVars
    <2>1. /\ UNCHANGED <<baselineVars, run, last, contested, todo, workload, domain, phase>>
      BY <1>1 DEF runnerVars, scenario, results
    <2>2. Members' = Members
      BY <2>1 DEF Members
    <2>3. ScriptOK'
      BY <2>1, <2>2 DEF RunnerInv, ScriptOK
    <2>4. QED
      BY <2>1, <2>3, StoresFrame DEF RunnerInv
  <1>2. QED
    BY <1>1, PrepareKeeps, EventKeeps, WorkloadKeeps, FeedKeeps, AskKeeps, CheckKeeps, AdvanceKeeps,
       RevokeKeeps DEF RunnerNext

(* "Each device gets its own address in each domain": for any number of    *)
(* devices and any scenario, a device that has contested no address and    *)
(* whose address nobody has contested is never judged UNTRUSTED, and no    *)
(* binding at its addresses is attributed to another device.               *)
THEOREM OwnEvidenceOnly == RunnerSpec => []OwnEvidence
  <1>1. RunnerInv => OwnEvidence
    BY DEF RunnerInv, EvidenceOK
  <1>2. QED
    BY <1>1, RunnerInvInit, RunnerInvNext, PTL DEF RunnerSpec

(* Whatever scenario the runner executes, two devices CA-ZTCF serves at    *)
(* the same time are served on the strength of different access bindings.  *)
THEOREM RunnerServesOnePerBinding == RunnerSpec => []BindingServesOne
  <1>1. RunnerInv => BindingServesOne
    BY DEF RunnerInv, ServiceOK, BindingServesOne, BindingsOwned, OneDevicePerBinding, Served, InForce,
           Reaches
  <1>2. QED
    BY <1>1, RunnerInvInit, RunnerInvNext, PTL DEF RunnerSpec

-----------------------------------------------------------------------------
(* Histories of transitions *)

(* The last k of them are no older than b.                                 *)
Since(h, k, b) == Len(h) >= k /\ \A i \in 1..Len(h) : i > Len(h) - k => h[i] >= b

LEMMA AppendSince ==
  ASSUME NEW h \in Seq(Nat), NEW k \in Nat, NEW b \in Int, NEW now \in Nat,
         Since(h, k, b), now >= b
  PROVE  Append(h, now) \in Seq(Nat) /\ Since(Append(h, now), k + 1, b)
  <1>1. /\ Append(h, now) \in Seq(Nat) /\ Len(Append(h, now)) = Len(h) + 1
        /\ \A i \in 1..(Len(h) + 1) : Append(h, now)[i] = IF i = Len(h) + 1 THEN now ELSE h[i]
    OBVIOUS
  <1>2. PICK g \in Seq(Nat) : /\ g = Append(h, now) /\ Len(g) = Len(h) + 1
                              /\ \A i \in 1..(Len(h) + 1) : g[i] = IF i = Len(h) + 1 THEN now ELSE h[i]
    BY <1>1
  <1>3. Since(g, k + 1, b)
    BY <1>2 DEF Since
  <1>4. QED
    BY <1>2, <1>3

LEMMA IntervalSize ==
  ASSUME NEW low \in Int, NEW n \in Int, low <= n + 1
  PROVE  IsFiniteSet(low..n) /\ Cardinality(low..n) = (n - low) + 1
  <1>1. IsFiniteSet(low..n) /\ Cardinality(low..n) = IF low > n THEN 0 ELSE n - low + 1
    BY FS_Interval, SMTT(30)
  <1>2. QED
    BY <1>1

(* Pruning keeps what is no older than the cutoff.                         *)
LEMMA PrunedSince ==
  ASSUME NEW h \in Seq(Nat), NEW k \in Nat, NEW b \in Int, NEW cutoff \in Int,
         Since(h, k, b), b >= cutoff
  PROVE  PrunedBy(h, cutoff) \in Seq(Nat) /\ Since(PrunedBy(h, cutoff), k, b)
  <1> DEFINE kept == {i \in DOMAIN h : \E j \in 1..i : h[j] >= cutoff}
  <1>1. PICK n \in Nat : n = Len(h) /\ DOMAIN h = 1..n /\ k <= n
    BY DEF Since
  <1>2. kept \in SUBSET (1..n) /\ ((n - k) + 1)..n \in SUBSET kept
    <2>1. ASSUME NEW i \in ((n - k) + 1)..n PROVE i \in kept
      <3>1. i \in 1..n /\ h[i] >= b /\ h[i] \in Nat
        BY <1>1 DEF Since
      <3>2. i \in 1..i /\ h[i] >= cutoff
        BY <3>1
      <3>3. QED
        BY <1>1, <3>1, <3>2
    <2>2. kept \in SUBSET (1..n)
      BY <1>1
    <2>3. QED
      BY <2>1, <2>2
  <1> HIDE DEF kept
  <1>3. IsFiniteSet(1..n) /\ Cardinality(1..n) = n
    BY IntervalSize
  <1>4. PICK low \in Int : low = (n - k) + 1 /\ Cardinality(low..n) = k
    <2>1. PICK low \in Int : low = (n - k) + 1 /\ low <= n + 1
      OBVIOUS
    <2>2. low <= n + 1
      BY <2>1
    <2>3. Cardinality(low..n) = (n - low) + 1
      BY <2>2, IntervalSize
    <2>4. (n - low) + 1 = k
      BY <2>1
    <2>5. QED
      BY <2>1, <2>3, <2>4
  <1>5. PICK c \in Nat : c = Cardinality(kept) /\ k <= c /\ c <= n
    <2>1. IsFiniteSet(kept) /\ Cardinality(kept) <= Cardinality(1..n)
      BY <1>2, <1>3, FS_Subset
    <2>2. Cardinality(kept) \in Nat
      BY <2>1, FS_CardinalityType
    <2>3. low..n \in SUBSET kept
      BY <1>2, <1>4
    <2>4. Cardinality(low..n) <= Cardinality(kept)
      BY <2>1, <2>3, FS_Subset
    <2>5. QED
      BY <1>3, <1>4, <2>1, <2>2, <2>4
  <1>6. PICK m \in 1..(n + 1) : m = (n - c) + 1
    BY <1>5
  <1>7. \A i \in m..n : h[i] \in Nat
    BY <1>1, <1>6
  <1>8. /\ SubSeq(h, m, n) \in Seq(Nat)
        /\ Len(SubSeq(h, m, n)) = IF m <= n THEN n - m + 1 ELSE 0
        /\ \A i \in 1..(n - m + 1) : SubSeq(h, m, n)[i] = h[m + i - 1]
    BY <1>7, SubSeqProperties
  <1>9. PICK g \in Seq(Nat) : /\ g = SubSeq(h, m, n) /\ Len(g) = c
                              /\ \A i \in 1..c : g[i] = h[(n - c) + i]
    <2>1. Len(SubSeq(h, m, n)) = c
      BY <1>5, <1>6, <1>8
    <2>2. \A i \in 1..c : SubSeq(h, m, n)[i] = h[(n - c) + i]
      <3> SUFFICES ASSUME NEW i \in 1..c PROVE SubSeq(h, m, n)[i] = h[(n - c) + i]
        OBVIOUS
      <3>1. i \in 1..(n - m + 1) /\ m + i - 1 = (n - c) + i
        BY <1>5, <1>6
      <3>2. QED
        BY <1>8, <3>1
    <2>3. QED
      BY <1>8, <2>1, <2>2
  <1>10. PrunedBy(h, cutoff) = g
    BY <1>1, <1>5, <1>6, <1>9 DEF PrunedBy, kept
  <1>11. Since(g, k, b)
    <2>1. ASSUME NEW i \in 1..c, i > c - k PROVE g[i] >= b
      <3>1. (n - c) + i \in 1..n /\ (n - c) + i > n - k
        BY <1>5, <2>1
      <3>2. h[(n - c) + i] >= b
        BY <1>1, <3>1 DEF Since
      <3>3. QED
        BY <1>9, <3>2
    <2>2. QED
      BY <1>5, <1>9, <2>1 DEF Since
  <1>12. QED
    BY <1>10, <1>11

(* What a visit to a domain leaves on the track of a device: it is there,  *)
(* and if it was in another domain before, it has moved now, one move more *)
(* than before.                                                            *)
LEMMA VisitTracked ==
  ASSUME NEW tr \in Tracks, NEW dom \in Domains, NEW a \in Addresses, NEW now \in Nat,
         tr.position.at # None => tr.position.at <= now
  PROVE  /\ Observed(tr, dom, a, now).position.domain = dom
         /\ Observed(tr, dom, a, now).position.at <= now
         /\ tr.position.domain \notin {None, dom} =>
              /\ Recent(Observed(tr, dom, a, now).last, now)
              /\ \A k \in Nat, b \in Int :
                   Since(tr.history, k, b) /\ now >= b /\ b >= now - RateWindow
                     => Since(Observed(tr, dom, a, now).history, k + 1, b)
  <1> DEFINE p == tr.position
             changed == DomainChanged(p, dom) \/ AddressChanged(p, dom, a)
             position == [domain |-> dom, address |-> a, at |-> now]
             new == [position |-> position,
                     history |-> IF changed THEN Append(Pruned(tr.history, now), now) ELSE tr.history,
                     last |-> IF changed THEN Transition(p, dom, now) ELSE tr.last]
  <1>1. p \in Positions /\ tr.history \in Seq(Nat)
    BY DEF Tracks
  <1>2. ~Stale(p, now)
    BY <1>1 DEF Stale, Positions
  <1>3. Observed(tr, dom, a, now) = IF Duplicate(p, dom, a, now) THEN tr ELSE new
    BY <1>2 DEF Observed
  <1>4. Duplicate(p, dom, a, now) => p.domain = dom /\ p.at = now
    BY DEF Duplicate
  <1>5. new.position.domain = dom /\ new.position.at = now
    OBVIOUS
  <1>6. /\ Observed(tr, dom, a, now).position.domain = dom
        /\ Observed(tr, dom, a, now).position.at <= now
    BY <1>3, <1>4, <1>5
  <1>7. ASSUME p.domain # None, p.domain # dom
        PROVE  /\ Observed(tr, dom, a, now).history = Append(Pruned(tr.history, now), now)
               /\ Observed(tr, dom, a, now).last = Transition(p, dom, now)
    BY <1>3, <1>4, <1>7 DEF DomainChanged
  <1>8. ASSUME p.domain # None, p.domain # dom
        PROVE  Recent(Observed(tr, dom, a, now).last, now)
    <2>1. Transition(p, dom, now) \in Transitions /\ Transition(p, dom, now).detected_at = now
      BY <1>1 DEF Transition, Transitions, Positions, DomainChanged
    <2>2. Transition(p, dom, now) # None
      BY <2>1, RecordAssumption
    <2>3. now - now <= TransitionWindow
      BY WindowAssumption
    <2>4. QED
      BY <1>7, <1>8, <2>1, <2>2, <2>3 DEF Recent
  <1>9. ASSUME p.domain # None, p.domain # dom, NEW k \in Nat, NEW b \in Int,
               Since(tr.history, k, b), now >= b, b >= now - RateWindow
        PROVE  Since(Observed(tr, dom, a, now).history, k + 1, b)
    <2>1. now - RateWindow \in Int
      BY WindowAssumption
    <2>2. Pruned(tr.history, now) \in Seq(Nat) /\ Since(Pruned(tr.history, now), k, b)
      BY <1>1, <1>9, <2>1, PrunedSince DEF Pruned
    <2>3. Since(Append(Pruned(tr.history, now), now), k + 1, b)
      BY <1>9, <2>2, AppendSince
    <2>4. QED
      BY <1>7, <1>9, <2>3
  <1>10. QED
    BY <1>6, <1>8, <1>9

-----------------------------------------------------------------------------
(* The script of a burst, step by step *)

LEMMA StaySteps ==
  ASSUME NEW d, NEW dom, NEW mark, NEW seconds
  PROVE  /\ Len(Stay(d, dom, mark, seconds)) = 3
         /\ Stay(d, dom, mark, seconds)[1] = Feed(d, dom, TRUE)
         /\ Stay(d, dom, mark, seconds)[2] = AskFrom(d, dom, mark)
         /\ Stay(d, dom, mark, seconds)[3] = Advance(seconds)
  <1>1. PICK f, a, x : f = Feed(d, dom, TRUE) /\ a = AskFrom(d, dom, mark) /\ x = Advance(seconds)
    OBVIOUS
  <1>2. PICK S : f \in S /\ a \in S /\ x \in S
    <2>1. f \in {f, a, x} /\ a \in {f, a, x} /\ x \in {f, a, x}
      OBVIOUS
    <2>2. QED
      BY <2>1
  <1>3. <<f, a>> \in Seq(S) /\ Len(<<f, a>>) = 2
    BY <1>2, TwoSteps
  <1>4. <<f, a>>[1] = f /\ <<f, a>>[2] = a
    OBVIOUS
  <1>5. PICK s \in Seq(S) : s = <<f, a>> /\ Len(s) = 2 /\ s[1] = f /\ s[2] = a
    BY <1>3, <1>4
  <1>6. Len(Append(s, x)) = 3 /\ Append(s, x)[1] = f /\ Append(s, x)[2] = a /\ Append(s, x)[3] = x
    BY <1>2, <1>5
  <1>7. Stay(d, dom, mark, seconds) = Append(s, x)
    BY <1>1, <1>5, Zenon DEF Visit, Stay
  <1>8. QED
    BY <1>1, <1>6, <1>7, Zenon

LEMMA RapidSteps ==
  ASSUME NEW d, NEW interval
  PROVE  /\ BurstLength \in Nat /\ BurstLength >= 2
         /\ Len(RapidScript(d, interval)) = 3 * BurstLength
         /\ \A v \in 0..(BurstLength - 1) :
              /\ RapidScript(d, interval)[3 * v + 1] = Feed(d, DomainAt(v), TRUE)
              /\ RapidScript(d, interval)[3 * v + 2] = AskFrom(d, DomainAt(v), MarksOf(interval)[v + 1])
              /\ RapidScript(d, interval)[3 * v + 3] = Advance(interval)
  <1> DEFINE stay(i) == Stay(d, DomainAt(i - 1), MarksOf(interval)[i], interval)
             s == [i \in 1..BurstLength |-> stay(i)]
  <1>1. BurstLength \in Nat /\ BurstLength >= 2
    BY ThresholdAssumption DEF BurstLength
  <1>2. \A i \in 1..BurstLength : s[i] = stay(i)
    OBVIOUS
  <1>3. ASSUME NEW i
        PROVE  /\ Len(stay(i)) = 3
               /\ stay(i)[1] = Feed(d, DomainAt(i - 1), TRUE)
               /\ stay(i)[2] = AskFrom(d, DomainAt(i - 1), MarksOf(interval)[i])
               /\ stay(i)[3] = Advance(interval)
    BY StaySteps, ZenonT(40)
  <1>4. RapidScript(d, interval) = InTurn(BurstLength, s)
    BY DEF RapidScript
  <1> HIDE DEF s, stay
  <1>5. Len(s[1]) = 3
    <2>1. 1 \in 1..BurstLength
      BY <1>1
    <2>2. Len(stay(1)) = 3
      BY <1>3
    <2>3. QED
      BY <1>2, <2>1, <2>2
  <1>6. InTurn(BurstLength, s) =
          [j \in 1..(BurstLength * 3) |-> s[((j - 1) \div 3) + 1][j - ((j - 1) \div 3) * 3]]
    BY <1>5 DEF InTurn
  <1>7. ASSUME NEW v \in 0..(BurstLength - 1), NEW r \in 1..3
        PROVE  InTurn(BurstLength, s)[3 * v + r] = stay(v + 1)[r]
    <2>1. PICK j \in 1..(BurstLength * 3) : j = 3 * v + r
      BY <1>1
    <2>2. (j - 1) \div 3 = v /\ j - v * 3 = r
      BY <2>1
    <2>3. InTurn(BurstLength, s)[j] = s[v + 1][r]
      BY <1>6, <2>2
    <2>4. v + 1 \in 1..BurstLength
      BY <1>1
    <2>5. QED
      BY <1>2, <2>1, <2>3, <2>4
  <1>8. Len(RapidScript(d, interval)) = 3 * BurstLength
    BY <1>1, <1>4, <1>6
  <1>9. ASSUME NEW v \in 0..(BurstLength - 1)
        PROVE  /\ RapidScript(d, interval)[3 * v + 1] = Feed(d, DomainAt(v), TRUE)
               /\ RapidScript(d, interval)[3 * v + 2] = AskFrom(d, DomainAt(v), MarksOf(interval)[v + 1])
               /\ RapidScript(d, interval)[3 * v + 3] = Advance(interval)
    <2>1. \A r \in 1..3 : RapidScript(d, interval)[3 * v + r] = stay(v + 1)[r]
      BY <1>4, <1>7
    <2>2. PICK i \in Int : i = v + 1 /\ i - 1 = v
      OBVIOUS
    <2>3. /\ stay(i)[1] = Feed(d, DomainAt(v), TRUE)
          /\ stay(i)[2] = AskFrom(d, DomainAt(v), MarksOf(interval)[i])
          /\ stay(i)[3] = Advance(interval)
      BY <1>3, <2>2
    <2>4. /\ RapidScript(d, interval)[3 * v + 1] = stay(i)[1]
          /\ RapidScript(d, interval)[3 * v + 2] = stay(i)[2]
          /\ RapidScript(d, interval)[3 * v + 3] = stay(i)[3]
      BY <2>1, <2>2
    <2>5. QED
      BY <2>2, <2>3, <2>4
  <1>10. QED
    BY <1>1, <1>8, <1>9

(* How far a device has come with a burst: it has made q of its visits,    *)
(* and v intervals have passed, so all moves but the first lie no further  *)
(* back than v - 1 of them.                                                *)
Shuttled(d, interval, v, q) ==
  q >= 1 => /\ track[d].position.domain = DomainAt(q - 1)
            /\ Since(track[d].history, q - 1, clock - (v - 1) * interval)

(* After v whole visits and the first r steps of the next, the rest of the *)
(* script is what is left to do.                                           *)
Burst(d, interval, v, r) ==
  /\ interval * MaxTransitions <= RateWindow
  /\ Len(todo) = 3 * (BurstLength - v) - r
  /\ \A i \in 1..Len(todo) : todo[i] = RapidScript(d, interval)[3 * v + r + i]
  /\ Shuttled(d, interval, v, IF r = 2 THEN v + 1 ELSE v)

InBurst ==
  \E d \in Members, interval \in Intervals, v \in 0..BurstLength, r \in 0..2 : Burst(d, interval, v, r)

(* Positions are reported in the order of time.                            *)
TracksOK ==
  /\ clock \in Nat /\ track \in [Devices -> Tracks]
  /\ \A d \in Devices : track[d].position.at # None => track[d].position.at <= clock

(* Only the script of a burst carries its mark.                            *)
BurstInv ==
  /\ TracksOK
  /\ todo \in Seq(OpsOf(Members, contested, QuietMarks)) \/ InBurst
  /\ BurstRefused

(* The step in hand of a burst, and what is left after it.                 *)
BurstTaken(d, interval, v, r) ==
  /\ v \in 0..(BurstLength - 1)
  /\ r = 0 => Head(todo) = Feed(d, DomainAt(v), TRUE)
  /\ r = 1 => Head(todo) = AskFrom(d, DomainAt(v), MarksOf(interval)[v + 1])
  /\ r = 2 => Head(todo) = Advance(interval)
  /\ Len(todo') = 3 * (BurstLength - v) - (r + 1)
  /\ \A i \in 1..Len(todo') : todo'[i] = RapidScript(d, interval)[3 * v + (r + 1) + i]

LEMMA BurstStep ==
  ASSUME RunnerInv, NEW op, Step(op),
         NEW d, NEW interval, NEW v \in 0..BurstLength, NEW r \in 0..2, Burst(d, interval, v, r)
  PROVE  BurstTaken(d, interval, v, r)
  <1>1. PICK t \in Seq(OpsOf(Members, contested, Marks)) : t = todo /\ t # << >> /\ todo' = Tail(t)
    BY DEF RunnerInv, ScriptOK, Step
  <1>2. /\ Len(t) \in Nat /\ Len(t) >= 1 /\ Head(t) = t[1]
        /\ Len(Tail(t)) = Len(t) - 1 /\ \A i \in 1..(Len(t) - 1) : Tail(t)[i] = t[i + 1]
    BY <1>1
  <1>3. BurstLength \in Nat
    BY RapidSteps
  <1>4. v \in 0..(BurstLength - 1)
    BY <1>1, <1>2, <1>3 DEF Burst
  <1>5. Head(todo) = RapidScript(d, interval)[3 * v + r + 1]
    BY <1>1, <1>2 DEF Burst
  <1>6. Len(todo') = 3 * (BurstLength - v) - (r + 1)
    BY <1>1, <1>2, <1>3 DEF Burst
  <1>7. ASSUME NEW i \in 1..Len(todo')
        PROVE  todo'[i] = RapidScript(d, interval)[3 * v + (r + 1) + i]
    <2>1. i + 1 \in 1..Len(t) /\ todo'[i] = t[i + 1]
      BY <1>1, <1>2
    <2>2. t[i + 1] = RapidScript(d, interval)[3 * v + r + (i + 1)]
      BY <1>1, <2>1 DEF Burst
    <2>3. 3 * v + r + (i + 1) = 3 * v + (r + 1) + i
      OBVIOUS
    <2>4. QED
      BY <2>1, <2>2, <2>3
  <1>8. /\ r = 0 => Head(todo) = Feed(d, DomainAt(v), TRUE)
        /\ r = 1 => Head(todo) = AskFrom(d, DomainAt(v), MarksOf(interval)[v + 1])
        /\ r = 2 => Head(todo) = Advance(interval)
    <2>1. /\ RapidScript(d, interval)[3 * v + 1] = Feed(d, DomainAt(v), TRUE)
          /\ RapidScript(d, interval)[3 * v + 2] = AskFrom(d, DomainAt(v), MarksOf(interval)[v + 1])
          /\ RapidScript(d, interval)[3 * v + 3] = Advance(interval)
      BY <1>4, RapidSteps
    <2>2. /\ r = 0 => 3 * v + r + 1 = 3 * v + 1
          /\ r = 1 => 3 * v + r + 1 = 3 * v + 2
          /\ r = 2 => 3 * v + r + 1 = 3 * v + 3
      OBVIOUS
    <2>3. QED
      BY <1>5, <2>1, <2>2
  <1>9. QED
    BY <1>4, <1>6, <1>7, <1>8 DEF BurstTaken

-----------------------------------------------------------------------------
(* The decisions of a burst *)

LEMMA ProductGrows ==
  ASSUME NEW x \in Nat, NEW y \in Nat, NEW n \in Nat, x <= y
  PROVE  x * n \in Nat /\ x * n <= n * y
  <1>1. PICK z \in Nat : y = x + z
    <2>1. y - x \in Nat /\ y = x + (y - x)
      OBVIOUS
    <2>2. QED
      BY <2>1
  <1>2. x * n \in Nat /\ n * z \in Nat /\ n * z >= 0
    OBVIOUS
  <1>3. n * y = x * n + n * z
    BY <1>1
  <1>4. QED
    BY <1>2, <1>3

(* A decision observes the domain the device states.                       *)
LEMMA AskTracks ==
  ASSUME run \in Setups, NEW d, NEW a, NEW dom \in Domains, NEW verdict, NEW session,
         StrategyDecides(d, a, dom, verdict, session, clock)
  PROVE  /\ UNCHANGED clock
         /\ \E t \in {Observed(track[d], dom, a, clock), Counted(Observed(track[d], dom, a, clock), clock)} :
              track' = [track EXCEPT ![d] = t]
  <1>1. RequestDomain(a, dom) = dom
    BY RunnerAssumption DEF RequestDomain
  <1>2. PICK tr : tr = Observed(track[d], dom, a, clock)
    OBVIOUS
  <1>3. CASE run.strategy = "ca_ztcf"
    <2>1. PICK apply \in BOOLEAN : Decide(d, a, dom, verdict, session, clock, apply)
      BY <1>3 DEF StrategyDecides
    <2>2. /\ track' = [track EXCEPT ![d] = Counted(TrackOf(d, a, dom, clock), clock)] /\ UNCHANGED clock
      BY <2>1, DecideIs
    <2>3. TrackOf(d, a, dom, clock) = tr
      BY <1>1, <1>2 DEF TrackOf
    <2>4. QED
      BY <1>2, <2>2, <2>3
  <1>4. CASE run.strategy = "independent"
    <2>1. Independent(d, a, dom, verdict, clock)
      BY <1>4 DEF StrategyDecides
    <2>2. /\ track' = [track EXCEPT ![d] = IF Recent(tr.last, clock) THEN Counted(tr, clock) ELSE tr]
          /\ UNCHANGED clock
      BY <1>1, <1>2, <2>1 DEF Independent
    <2>3. QED
      BY <1>2, <2>2
  <1>5. CASE run.strategy = "static_continuity"
    <2>1. StaticContinuity(d, a, dom, verdict, clock)
      BY <1>5 DEF StrategyDecides
    <2>2. track' = [track EXCEPT ![d] = tr] /\ UNCHANGED clock
      BY <1>1, <1>2, <2>1 DEF StaticContinuity
    <2>3. QED
      BY <1>2, <2>2
  <1>6. QED
    BY <1>3, <1>4, <1>5, RunMeans

(* A device that has moved too often in the window is rejected.            *)
LEMMA RapidIsRejected ==
  ASSUME run \in Setups, EvidenceOK, NEW d \in Devices, NEW a, NEW dom \in Domains,
         NEW verdict, NEW session, StrategyDecides(d, a, dom, verdict, session, clock),
         run.strategy # "static_continuity",
         Recent(Observed(track[d], dom, a, clock).last, clock),
         Len(Pruned(Observed(track[d], dom, a, clock).history, clock)) > MaxTransitions,
         Len(Pruned(Observed(track[d], dom, a, clock).history, clock)) \in Nat
  PROVE  Lookup(Judged(d).state, Judged(d).context).action \in Acceptable("MALICIOUS")
  <1>1. RequestDomain(a, dom) = dom
    BY RunnerAssumption DEF RequestDomain
  <1>2. DOMAIN decided = Devices /\ DOMAIN answered = Devices /\ status[d] \in {"ACTIVE", None}
    BY DEF EvidenceOK
  <1>3. ASSUME NEW state \in {"UNKNOWN", "UNTRUSTED", "SUSPICIOUS"}, NEW c \in TransitionContexts,
               Judged(d).state = state, Judged(d).context = c
        PROVE  Lookup(Judged(d).state, Judged(d).context).action \in Acceptable("MALICIOUS")
    <2>1. Lookup(state, c).action \in {"DENY", "REAUTHENTICATE", "QUARANTINE"}
      BY DecisionTable
    <2>2. QED
      BY <1>3, <2>1 DEF Acceptable
  <1>4. CASE run.strategy = "ca_ztcf"
    <2>1. PICK apply \in BOOLEAN : Decide(d, a, dom, verdict, session, clock, apply)
      BY <1>4 DEF StrategyDecides
    <2>2. PICK e, c, rule :
            /\ e = EvidenceNow(d, a, dom, verdict, session, clock) /\ c = ContextNow(d, a, dom, clock)
            /\ decided' = [decided EXCEPT ![d] = [state |-> TrustState(e), context |-> c, rule |-> rule]]
      BY <2>1, DecideIs
    <2>3. e.count = Len(Pruned(TrackOf(d, a, dom, clock).history, clock))
      BY <2>2 DEF EvidenceNow, EvidenceOf
    <2>4. e.count > MaxTransitions /\ e.count \in Nat
      BY <1>1, <2>3 DEF TrackOf
    <2>5. ~(e.count <= MaxTransitions)
      BY <2>4, ThresholdAssumption
    <2>6. ~Predicates(e).C8
      BY <2>5 DEF Predicates
    <2>7. TrustState(e) \in {"UNKNOWN", "UNTRUSTED", "SUSPICIOUS"}
      BY <2>6, Zenon DEF TrustState, TrustStateOf
    <2>8. c \in TransitionContexts
      BY <2>2, ContextAgrees DEF ContextNow
    <2>9. Judged(d).state = TrustState(e) /\ Judged(d).context = c
      BY <1>2, <1>4, <2>2 DEF Judged
    <2>10. QED
      BY <1>3, <2>7, <2>8, <2>9
  <1>5. CASE run.strategy = "independent"
    <2>1. Independent(d, a, dom, verdict, clock)
      BY <1>5 DEF StrategyDecides
    <2>2. PICK c \in TransitionContexts : c = ContextFor(Observed(track[d], dom, a, clock), clock)
      BY ContextAgrees
    <2>3. \/ Direct(d, "UNKNOWN", c)
          \/ Direct(d, "SUSPICIOUS", "NONE")
      BY <1>1, <1>2, <2>1, <2>2 DEF Independent
    <2>4. ASSUME NEW state \in {"UNKNOWN", "SUSPICIOUS"}, NEW context1 \in TransitionContexts,
                 Direct(d, state, context1)
          PROVE  Judged(d).state = state /\ Judged(d).context = context1
      <3>1. answered' = [answered EXCEPT ![d] = [state |-> state, context |-> context1]]
        BY <2>4 DEF Direct
      <3>2. QED
        BY <1>2, <1>5, <3>1 DEF Judged
    <2>5. "NONE" \in TransitionContexts
      BY DEF TransitionContexts
    <2>6. QED
      BY <1>3, <2>3, <2>4, <2>5
  <1>6. QED
    BY <1>4, <1>5, RunMeans

(* What is scored of it.                                                   *)
LEMMA RejectionScored ==
  ASSUME NEW d, NEW mark, NEW action, action \in Acceptable("MALICIOUS")
  PROVE  Score(d, mark, action \in PermittingActions,
               [label \in Labels |-> action \in Acceptable(label)]).outcome["MALICIOUS"]
           = "correct_rejection"
  <1> DEFINE satisfied == [label \in Labels |-> action \in Acceptable(label)]
  <1>1. "MALICIOUS" \in Labels
    BY DEF Labels
  <1>2. satisfied["MALICIOUS"] = TRUE
    BY <1>1, Zenon
  <1> HIDE DEF satisfied
  <1>3. ScoreAs("MALICIOUS", satisfied["MALICIOUS"]) = "correct_rejection"
    BY <1>2 DEF ScoreAs
  <1>4. [label \in Labels |-> ScoreAs(label, satisfied[label])]["MALICIOUS"] = "correct_rejection"
    BY <1>1, <1>3
  <1>5. Score(d, mark, action \in PermittingActions, satisfied).outcome
          = [label \in Labels |-> ScoreAs(label, satisfied[label])]
    BY DEF Score
  <1>6. QED
    BY <1>4, <1>5 DEF satisfied

(* The track of the device that asks.                                      *)
LEMMA AskObserved ==
  ASSUME TracksOK, NEW d \in Devices, NEW a \in Addresses, NEW dom \in Domains,
         NEW t \in {Observed(track[d], dom, a, clock), Counted(Observed(track[d], dom, a, clock), clock)},
         UNCHANGED clock, track' = [track EXCEPT ![d] = t]
  PROVE  /\ TracksOK' /\ track'[d].position.domain = dom
         /\ track[d].position.domain \notin {None, dom} =>
              /\ Recent(Observed(track[d], dom, a, clock).last, clock)
              /\ \A k \in Nat, b \in Int :
                   Since(track[d].history, k, b) /\ clock >= b /\ b >= clock - RateWindow =>
                     /\ Since(track'[d].history, k + 1, b)
                     /\ Since(Pruned(Observed(track[d], dom, a, clock).history, clock), k + 1, b)
                     /\ Pruned(Observed(track[d], dom, a, clock).history, clock) \in Seq(Nat)
  <1>1. /\ clock \in Nat /\ track \in [Devices -> Tracks] /\ track[d] \in Tracks
        /\ \A x \in Devices : track[x].position.at # None => track[x].position.at <= clock
    BY DEF TracksOK
  <1>2. PICK tr \in Tracks :
          /\ tr = Observed(track[d], dom, a, clock)
          /\ tr.position.domain = dom /\ tr.position.at <= clock
    BY <1>1, VisitTracked, ObservedType DEF Stated
  <1>3. Counted(tr, clock) \in Tracks /\ Counted(tr, clock).position = tr.position
    BY <1>1, CountedType
  <1>4. t \in Tracks /\ t.position.domain = dom /\ t.position.at <= clock
    BY <1>2, <1>3
  <1>5. track'[d] = t /\ \A x \in Devices : x # d => track'[x] = track[x]
    BY <1>1
  <1>6. TracksOK'
    <2>1. track' \in [Devices -> Tracks]
      BY <1>1, <1>4
    <2>2. \A x \in Devices : track'[x].position.at # None => track'[x].position.at <= clock
      BY <1>1, <1>4, <1>5
    <2>3. QED
      BY <1>1, <2>1, <2>2 DEF TracksOK
  <1>7. ASSUME NEW k \in Nat, NEW b \in Int, track[d].position.domain \notin {None, dom},
               Since(track[d].history, k, b), clock >= b, b >= clock - RateWindow
        PROVE  /\ Since(track'[d].history, k + 1, b)
               /\ Since(Pruned(tr.history, clock), k + 1, b) /\ Pruned(tr.history, clock) \in Seq(Nat)
    <2>1. Since(tr.history, k + 1, b)
      BY <1>1, <1>2, <1>7, VisitTracked
    <2>2. tr.history \in Seq(Nat) /\ clock - RateWindow \in Int /\ k + 1 \in Nat
      BY <1>1, <1>2, WindowAssumption DEF Tracks
    <2>3. Since(Pruned(tr.history, clock), k + 1, b) /\ Pruned(tr.history, clock) \in Seq(Nat)
      BY <1>7, <2>1, <2>2, PrunedSince DEF Pruned
    <2>4. Counted(tr, clock).history = Pruned(tr.history, clock)
      <3>1. PICK p, h, l : tr = [position |-> p, history |-> h, last |-> l]
        BY <1>2 DEF Tracks
      <3>2. QED
        BY <3>1 DEF Counted
    <2>5. QED
      BY <1>2, <1>5, <2>1, <2>3, <2>4
  <1>8. track[d].position.domain \notin {None, dom} => Recent(tr.last, clock)
    BY <1>1, <1>2, VisitTracked
  <1>9. QED
    BY <1>2, <1>4, <1>5, <1>6, <1>7, <1>8

(* The instant of the first move lies within the rate window all along.    *)
LEMMA BurstWindow ==
  ASSUME clock \in Nat, NEW interval \in Intervals, interval * MaxTransitions <= RateWindow,
         NEW v \in Nat, v >= 1, v <= MaxTransitions + 1
  PROVE  /\ clock - (v - 1) * interval \in Int /\ clock >= clock - (v - 1) * interval
         /\ clock - (v - 1) * interval >= clock - RateWindow
  <1>1. interval \in Nat /\ MaxTransitions \in Nat /\ RateWindow \in Nat
    BY RunnerAssumption, ThresholdAssumption, WindowAssumption
  <1>2. PICK x \in Nat : x = v - 1 /\ x <= MaxTransitions
    BY <1>1
  <1>3. PICK n \in Nat : n = x * interval /\ n <= interval * MaxTransitions
    BY <1>1, <1>2, ProductGrows
  <1>4. PICK m \in Nat : m = interval * MaxTransitions /\ n <= m /\ m <= RateWindow
    BY <1>1, <1>3
  <1>5. n <= RateWindow
    BY <1>1, <1>4
  <1>6. clock - n \in Int /\ clock >= clock - n /\ clock - n >= clock - RateWindow
    BY <1>1, <1>5
  <1>7. QED
    BY <1>2, <1>3, <1>6

LEMMA DomainsAlternate ==
  ASSUME NEW v \in Nat, v >= 1
  PROVE  DomainAt(v - 1) \notin {None, DomainAt(v)}
  <1>1. (v - 1) % 2 = 0 <=> v % 2 # 0
    OBVIOUS
  <1>2. DomainAt(v - 1) # None
    BY DomainAtType, RunnerAssumption
  <1>3. QED
    BY <1>1, <1>2 DEF DomainAt

(* A decision of a burst: the device has moved once more, and the last one *)
(* is a rejection.                                                         *)
LEMMA BurstAsk ==
  ASSUME RunnerInv, TracksOK, BurstRefused, DoAsk,
         NEW d \in Members, NEW interval \in Intervals, NEW v \in 0..BurstLength,
         Burst(d, interval, v, 1)
  PROVE  TracksOK' /\ Burst(d, interval, v, 2)' /\ BurstRefused'
  <1>1. Step("ask") /\ UNCHANGED <<phase, contested>>
    BY DEF DoAsk
  <1>2. /\ v \in 0..(BurstLength - 1)
        /\ Head(todo) = AskFrom(d, DomainAt(v), MarksOf(interval)[v + 1])
        /\ Len(todo') = 3 * (BurstLength - v) - 2
        /\ \A i \in 1..Len(todo') : todo'[i] = RapidScript(d, interval)[3 * v + 2 + i]
    <2>1. PICK r \in 0..2 : r = 1 /\ r + 1 = 2
      OBVIOUS
    <2>2. Burst(d, interval, v, r)
      BY <2>1
    <2>3. /\ v \in 0..(BurstLength - 1)
          /\ Head(todo) = AskFrom(d, DomainAt(v), MarksOf(interval)[v + 1])
          /\ Len(todo') = 3 * (BurstLength - v) - (r + 1)
          /\ \A i \in 1..Len(todo') : todo'[i] = RapidScript(d, interval)[3 * v + (r + 1) + i]
      <3>1. BurstTaken(d, interval, v, r)
        BY <1>1, <2>2, BurstStep
      <3>2. QED
        BY <2>1, <3>1, Zenon DEF BurstTaken
    <2>4. QED
      BY <2>1, <2>3, Zenon
  <1>3. /\ run \in Setups /\ EvidenceOK /\ MaxTransitions \in Nat /\ BurstLength = MaxTransitions + 2
        /\ clock \in Nat /\ track \in [Devices -> Tracks] /\ Members \subseteq Devices
    BY ThresholdAssumption, RunMeans DEF RunnerInv, ScriptOK, TracksOK, BurstLength
  <1>4. v \in Nat /\ v <= MaxTransitions + 1 /\ interval * MaxTransitions <= RateWindow
    BY <1>2, <1>3 DEF Burst
  <1>5. PICK dom \in Domains : dom = DomainAt(v)
    BY DomainAtType
  <1>6. PICK a \in Addresses : a = AddressOf(d, dom)
    BY <1>3, RunMeans
  <1>7. PICK mark : mark = MarksOf(interval)[v + 1]
    OBVIOUS
  <1>8. PICK s : s = Head(todo)
    OBVIOUS
  <1>9. s.device = d /\ s.domain = dom /\ s.address = a /\ s.mark = mark
         /\ Instant(s.at) = clock
    BY <1>2, <1>5, <1>6, <1>7, <1>8 DEF AskFrom, Ask, Instant
  <1>10. PICK verdict, session : StrategyDecides(d, a, dom, verdict, session, clock)
    BY <1>8, <1>9 DEF DoAsk
  <1>11. UNCHANGED run /\ Members' = Members
    BY <1>1, StepTaken
  <1>12. PICK action :
           /\ action = Lookup(Judged(d).state, Judged(d).context).action
           /\ scored' = IF mark = "none" THEN scored
                        ELSE Score(d, mark, action \in PermittingActions,
                                   [label \in Labels |-> action \in Acceptable(label)])
    BY <1>8, <1>9 DEF DoAsk
  <1>13. UNCHANGED clock /\
         \E t \in {Observed(track[d], dom, a, clock), Counted(Observed(track[d], dom, a, clock), clock)} :
           track' = [track EXCEPT ![d] = t]
    BY <1>3, <1>10, AskTracks
  <1>14. /\ TracksOK' /\ track'[d].position.domain = dom
         /\ track[d].position.domain \notin {None, dom} =>
              /\ Recent(Observed(track[d], dom, a, clock).last, clock)
              /\ \A k \in Nat, b \in Int :
                   Since(track[d].history, k, b) /\ clock >= b /\ b >= clock - RateWindow =>
                     /\ Since(track'[d].history, k + 1, b)
                     /\ Since(Pruned(Observed(track[d], dom, a, clock).history, clock), k + 1, b)
                     /\ Pruned(Observed(track[d], dom, a, clock).history, clock) \in Seq(Nat)
    BY <1>3, <1>13, AskObserved
  <1>15. track'[d].history \in Seq(Nat)
    BY <1>3, <1>14 DEF TracksOK, Tracks
  (* Before the first visit nothing is known, and nothing is claimed after it. *)
  <1>16. ASSUME v >= 1
         PROVE  /\ clock - (v - 1) * interval \in Int /\ clock >= clock - (v - 1) * interval
                /\ clock - (v - 1) * interval >= clock - RateWindow
                /\ track[d].position.domain \notin {None, dom}
                /\ Since(track[d].history, v - 1, clock - (v - 1) * interval)
    <2>1. Shuttled(d, interval, v, v)
      BY DEF Burst
    <2>2. QED
      BY <1>3, <1>4, <1>5, <1>16, <2>1, BurstWindow, DomainsAlternate DEF Shuttled
  <1>17. /\ Since(track'[d].history, v, clock - (v - 1) * interval)
         /\ v >= 1 => /\ Len(Pruned(Observed(track[d], dom, a, clock).history, clock)) >= v
                      /\ Pruned(Observed(track[d], dom, a, clock).history, clock) \in Seq(Nat)
    <2>1. CASE v = 0
      BY <1>15, <2>1 DEF Since
    <2>2. CASE v >= 1
      <3>1. PICK k \in Nat : k = v - 1 /\ v = k + 1
        BY <1>4, <2>2
      <3>2. Since(track[d].history, k, clock - k * interval)
        BY <1>16, <2>2, <3>1
      <3>3. /\ clock - k * interval \in Int /\ clock >= clock - k * interval
            /\ clock - k * interval >= clock - RateWindow /\ track[d].position.domain \notin {None, dom}
        BY <1>16, <2>2, <3>1
      <3>4. /\ Since(track'[d].history, k + 1, clock - k * interval)
            /\ Since(Pruned(Observed(track[d], dom, a, clock).history, clock), k + 1, clock - k * interval)
            /\ Pruned(Observed(track[d], dom, a, clock).history, clock) \in Seq(Nat)
        BY <1>14, <3>2, <3>3
      <3>5. Len(Pruned(Observed(track[d], dom, a, clock).history, clock)) >= k + 1
        BY <3>4 DEF Since
      <3>6. QED
        BY <3>1, <3>4, <3>5
    <2>3. QED
      BY <1>4, <2>1, <2>2
  <1>18. Shuttled(d, interval, v, v + 1)'
    <2>1. (v + 1) - 1 = v
      BY <1>4
    <2>2. QED
      BY <1>5, <1>13, <1>14, <1>17, <2>1 DEF Shuttled
  <1>19. Burst(d, interval, v, 2)'
    BY <1>2, <1>4, <1>18 DEF Burst
  <1>20. BurstRefused'
    <2>1. SUFFICES ASSUME scored' # None, scored'.mark = "burst", run.strategy # "static_continuity"
                   PROVE  scored'.outcome["MALICIOUS"] = "correct_rejection"
      BY <1>11 DEF BurstRefused
    <2>2. CASE mark = "none"
      BY <1>12, <2>1, <2>2 DEF BurstRefused
    <2>3. CASE mark # "none"
      <3>1. scored'.mark = mark
        BY <1>12, <2>3 DEF Score
      <3>2. v + 1 = BurstLength
        <4>1. v + 1 \in 1..BurstLength
          BY <1>2, <1>3
        <4>2. QED
          BY <1>7, <2>1, <3>1, <4>1 DEF MarksOf
      <3>3. v = MaxTransitions + 1 /\ v >= 1
        BY <1>3, <1>4, <3>2
      <3>4. action \in Acceptable("MALICIOUS")
        <4>1. PICK n \in Nat : n = Len(Pruned(Observed(track[d], dom, a, clock).history, clock)) /\ n >= v
          BY <1>17, <3>3
        <4>2. n > MaxTransitions
          BY <1>3, <1>4, <3>3, <4>1
        <4>3. Recent(Observed(track[d], dom, a, clock).last, clock)
          BY <1>14, <1>16, <3>3
        <4>4. QED
          BY <1>3, <1>10, <1>12, <2>1, <1>11, <4>1, <4>2, <4>3, RapidIsRejected
      <3>5. QED
        BY <1>12, <2>3, <3>4, RejectionScored
    <2>4. QED
      BY <2>2, <2>3
  <1>21. QED
    BY <1>14, <1>19, <1>20

(* The kind of the step in hand tells where in a visit a burst is.         *)
LEMMA BurstPlace ==
  ASSUME RunnerInv, NEW op, Step(op),
         NEW d, NEW interval, NEW v \in 0..BurstLength, NEW r \in 0..2, Burst(d, interval, v, r)
  PROVE  /\ r = 0 => op = "feed"
         /\ r = 1 => op = "ask"
         /\ r = 2 => op = "advance" /\ Head(todo) = Advance(interval)
  <1>1. BurstTaken(d, interval, v, r)
    BY BurstStep
  <1>2. Head(todo).op = op
    BY DEF Step
  <1>3. QED
    BY <1>1, <1>2 DEF BurstTaken, Feed, AskFrom, Ask, Advance

LEMMA BurstFeed ==
  ASSUME RunnerInv, NEW op, Step(op), UNCHANGED <<clock, track>>,
         NEW d \in Members, NEW interval \in Intervals, NEW v \in 0..BurstLength,
         Burst(d, interval, v, 0)
  PROVE  Burst(d, interval, v, 1)'
  <1>1. /\ v \in 0..(BurstLength - 1)
        /\ Len(todo') = 3 * (BurstLength - v) - 1
        /\ \A i \in 1..Len(todo') : todo'[i] = RapidScript(d, interval)[3 * v + 1 + i]
    <2>1. PICK r \in 0..2 : r = 0 /\ r + 1 = 1
      OBVIOUS
    <2>2. Burst(d, interval, v, r)
      BY <2>1
    <2>3. BurstTaken(d, interval, v, r)
      BY <2>2, BurstStep
    <2>4. QED
      BY <2>1, <2>3, Zenon DEF BurstTaken
  <1>2. interval * MaxTransitions <= RateWindow /\ Shuttled(d, interval, v, v)
    BY DEF Burst
  <1>3. Shuttled(d, interval, v, v)'
    BY <1>2 DEF Shuttled
  <1>4. QED
    BY <1>1, <1>2, <1>3 DEF Burst

LEMMA BurstAdvance ==
  ASSUME RunnerInv, NEW op, Step(op), UNCHANGED track, clock \in Nat,
         NEW d \in Members, NEW interval \in Intervals, NEW v \in 0..BurstLength,
         Burst(d, interval, v, 2), clock' = clock + interval
  PROVE  v + 1 \in 0..BurstLength /\ Burst(d, interval, v + 1, 0)'
  <1>1. /\ v \in 0..(BurstLength - 1)
        /\ Len(todo') = 3 * (BurstLength - v) - 3
        /\ \A i \in 1..Len(todo') : todo'[i] = RapidScript(d, interval)[3 * v + 3 + i]
    <2>1. PICK r \in 0..2 : r = 2 /\ r + 1 = 3
      OBVIOUS
    <2>2. Burst(d, interval, v, r)
      BY <2>1
    <2>3. BurstTaken(d, interval, v, r)
      BY <2>2, BurstStep
    <2>4. QED
      BY <2>1, <2>3, Zenon DEF BurstTaken
  <1>2. interval * MaxTransitions <= RateWindow /\ Shuttled(d, interval, v, v + 1)
    BY DEF Burst
  <1>3. BurstLength \in Nat /\ interval \in Nat
    BY ThresholdAssumption, IntervalsType DEF BurstLength
  <1>4. PICK w \in Nat : w = v + 1 /\ w \in 0..BurstLength
    BY <1>1, <1>3
  <1>5. Len(todo') = 3 * (BurstLength - w) - 0
    BY <1>1, <1>3, <1>4
  <1>6. ASSUME NEW i \in 1..Len(todo') PROVE todo'[i] = RapidScript(d, interval)[3 * w + 0 + i]
    <2>1. i \in Int
      BY <1>3, <1>5
    <2>2. 3 * v + 3 + i = 3 * w + 0 + i
      BY <1>4, <2>1
    <2>3. QED
      BY <1>1, <2>2
  <1>7. Shuttled(d, interval, w, w)'
    <2>1. v \in Nat
      BY <1>3
    <2>2. clock' - (w - 1) * interval = clock - (v - 1) * interval
      <3>1. PICK n \in Int : n = (v - 1) * interval
        BY <1>3, <2>1
      <3>2. (w - 1) * interval = n + interval
        BY <1>3, <1>4, <2>1, <3>1
      <3>3. QED
        BY <1>3, <3>1, <3>2
    <2>3. w >= 1 /\ w = v + 1 /\ w - 1 = (v + 1) - 1
      BY <1>4, <2>1
    <2>4. /\ track[d].position.domain = DomainAt((v + 1) - 1)
          /\ Since(track[d].history, (v + 1) - 1, clock - (v - 1) * interval)
      BY <1>2, <2>3 DEF Shuttled
    <2>5. QED
      BY <2>2, <2>3, <2>4 DEF Shuttled
  <1>8. Burst(d, interval, w, 0)'
    BY <1>2, <1>5, <1>6, <1>7 DEF Burst
  <1>9. QED
    BY <1>4, <1>8

(* A script without the mark stays one.                                    *)
LEMMA QuietShortens ==
  ASSUME RunnerInv, NEW op, Step(op), UNCHANGED contested,
         todo \in Seq(OpsOf(Members, contested, QuietMarks))
  PROVE  /\ Head(todo) \in OpsOf(Members, contested, QuietMarks)
         /\ (todo \in Seq(OpsOf(Members, contested, QuietMarks)))'
  <1>1. todo # << >> /\ todo' = Tail(todo) /\ Members' = Members
    BY StepTaken DEF Step
  <1>2. PICK ops : ops = OpsOf(Members, contested, QuietMarks)
    OBVIOUS
  <1>3. todo \in Seq(ops)
    BY <1>2
  <1>4. Head(todo) \in ops /\ Tail(todo) \in Seq(ops)
    BY <1>1, <1>3
  <1>5. (OpsOf(Members, contested, QuietMarks))' = ops
    BY <1>1, <1>2 DEF OpsOf, Feeds, Asks, OwnAddress, AddressOf
  <1>6. QED
    BY <1>1, <1>2, <1>4, <1>5

-----------------------------------------------------------------------------
(* Every step of the runner keeps the invariant of bursts *)

Quiet == todo \in Seq(OpsOf(Members, contested, QuietMarks))

LEMMA TracksFrame ==
  ASSUME TracksOK, UNCHANGED <<clock, track>>
  PROVE  TracksOK'
  BY DEF TracksOK

LEMMA RefusedFrame ==
  ASSUME BurstRefused, UNCHANGED run,
         scored' \in {scored, None} \/ scored'.mark # "burst"
  PROVE  BurstRefused'
  BY DEF BurstRefused

(* Between two scripts, and when nothing happens.                          *)
LEMMA BurstFrame ==
  ASSUME BurstInv, UNCHANGED <<run, todo, contested, clock, track, scored>>
  PROVE  BurstInv'
  <1>1. Members' = Members
    BY DEF Members
  <1>2. Quiet => Quiet'
    BY <1>1 DEF Quiet, OpsOf, Feeds, Asks, OwnAddress, AddressOf
  <1>3. ASSUME NEW d, NEW interval, NEW v, NEW r, Burst(d, interval, v, r)
        PROVE  Burst(d, interval, v, r)'
    BY <1>3 DEF Burst, Shuttled
  <1>4. InBurst => InBurst'
    BY <1>1, <1>3 DEF InBurst
  <1>5. TracksOK' /\ BurstRefused'
    BY TracksFrame, RefusedFrame DEF BurstInv
  <1>6. QED
    BY <1>2, <1>4, <1>5 DEF BurstInv, Quiet

(* A script is written.                                                    *)
LEMMA BurstWritten ==
  ASSUME RunnerInv, BurstInv, NEW marks, Written(marks),
         \/ marks = QuietMarks
         \/ \E d \in Members, interval \in Intervals :
              todo' = RapidScript(d, interval) /\ interval * MaxTransitions <= RateWindow
  PROVE  BurstInv'
  <1>1. UNCHANGED <<clock, track, run>> /\ scored' = None
    BY DEF Written, baselineVars, vars, access
  <1>2. TracksOK' /\ BurstRefused'
    BY <1>1, TracksFrame, RefusedFrame DEF BurstInv
  <1>3. Members' = Members
    BY <1>1 DEF Members
  <1>4. CASE marks = QuietMarks
    <2>1. todo' \in Seq(OpsOf(Members, contested', QuietMarks))
      BY <1>4 DEF Written
    <2>2. Quiet'
      BY <1>3, <2>1 DEF Quiet, OpsOf, Feeds, Asks, OwnAddress, AddressOf
    <2>3. QED
      BY <1>2, <2>2, Zenon DEF BurstInv, Quiet
  <1>5. ASSUME NEW d \in Members, NEW interval \in Intervals,
               todo' = RapidScript(d, interval), interval * MaxTransitions <= RateWindow
        PROVE  BurstInv'
    <2>1. BurstLength \in Nat /\ Len(RapidScript(d, interval)) = 3 * BurstLength
      BY RapidSteps
    <2>2. PICK v \in 0..BurstLength : v = 0
      BY <2>1
    <2>3. Len(todo') = 3 * (BurstLength - v) - 0
      BY <1>5, <2>1, <2>2
    <2>4. ASSUME NEW i \in 1..Len(todo') PROVE todo'[i] = RapidScript(d, interval)[3 * v + 0 + i]
      <3>1. i \in Int
        BY <2>1, <2>3
      <3>2. 3 * v + 0 + i = i
        BY <2>2, <3>1
      <3>3. QED
        BY <1>5, <3>2
    <2>5. Shuttled(d, interval, v, v)'
      BY <2>2 DEF Shuttled
    <2>6. Burst(d, interval, v, 0)'
      BY <1>5, <2>3, <2>4, <2>5 DEF Burst
    <2>7. InBurst'
      BY <1>3, <2>6 DEF InBurst
    <2>8. QED
      BY <1>2, <2>7 DEF BurstInv
  <1>6. QED
    BY <1>4, <1>5

(* A step of the script that leaves the tracks alone.                      *)
LEMMA BurstOther ==
  ASSUME RunnerInv, BurstInv, NEW op \in {"feed", "check", "revoke"}, Step(op),
         UNCHANGED <<clock, track, contested>>, scored' = scored \/ scored'.mark # "burst"
  PROVE  BurstInv'
  <1>1. UNCHANGED run /\ Members' = Members
    BY StepTaken
  <1>2. TracksOK' /\ BurstRefused'
    BY <1>1, TracksFrame, RefusedFrame DEF BurstInv
  <1>3. CASE Quiet
    <2>1. Quiet'
      BY <1>3, QuietShortens DEF Quiet
    <2>2. QED
      BY <1>2, <2>1 DEF BurstInv, Quiet
  <1>4. ASSUME NEW d \in Members, NEW interval \in Intervals, NEW v \in 0..BurstLength, NEW r \in 0..2,
               Burst(d, interval, v, r)
        PROVE  BurstInv'
    <2>1. r = 0
      BY <1>4, BurstPlace
    <2>2. Burst(d, interval, v, 0)
      BY <1>4, <2>1
    <2>3. Burst(d, interval, v, 1)'
      BY <2>2, BurstFeed
    <2>4. InBurst'
      BY <1>1, <2>3 DEF InBurst
    <2>5. QED
      BY <1>2, <2>4 DEF BurstInv
  <1>5. QED
    BY <1>3, <1>4 DEF BurstInv, Quiet, InBurst

LEMMA BurstAdvances ==
  ASSUME RunnerInv, BurstInv, DoAdvance
  PROVE  BurstInv'
  <1>1. Step("advance") /\ UNCHANGED <<track, contested, scored>>
    BY DEF DoAdvance, access, results
  <1>2. UNCHANGED run /\ Members' = Members
    BY <1>1, StepTaken
  <1>3. PICK seconds \in Nat : clock' = clock + seconds
    BY <1>1, StepTaken, OpMeans DEF DoAdvance
  <1>4. clock \in Nat /\ TracksOK /\ BurstRefused
    BY DEF BurstInv, TracksOK
  <1>5. BurstRefused'
    BY <1>1, <1>2, <1>4, RefusedFrame
  <1>6. TracksOK'
    <2>1. clock' \in Nat /\ clock <= clock'
      BY <1>3, <1>4
    <2>2. track' \in [Devices -> Tracks]
      BY <1>1, <1>4 DEF TracksOK
    <2>3. ASSUME NEW d \in Devices, track'[d].position.at # None PROVE track'[d].position.at <= clock'
      <3>1. track[d].position.at \in Nat /\ track[d].position.at <= clock
        BY <1>1, <1>4, <2>3 DEF TracksOK, Tracks, Positions
      <3>2. QED
        BY <1>1, <1>4, <2>1, <3>1
    <2>4. QED
      BY <2>1, <2>2, <2>3 DEF TracksOK
  <1>7. CASE Quiet
    <2>1. Quiet'
      BY <1>1, <1>7, QuietShortens DEF Quiet
    <2>2. QED
      BY <1>5, <1>6, <2>1 DEF BurstInv, Quiet
  <1>8. ASSUME NEW d \in Members, NEW interval \in Intervals, NEW v \in 0..BurstLength, NEW r \in 0..2,
               Burst(d, interval, v, r)
        PROVE  BurstInv'
    <2>1. r = 2 /\ Head(todo) = Advance(interval)
      BY <1>1, <1>8, BurstPlace
    <2>2. Burst(d, interval, v, 2)
      BY <1>8, <2>1
    <2>3. clock' = clock + interval
      BY <2>1 DEF DoAdvance, Advance
    <2>4. v + 1 \in 0..BurstLength /\ Burst(d, interval, v + 1, 0)'
      BY <1>1, <1>4, <2>2, <2>3, BurstAdvance
    <2>5. InBurst'
      BY <1>2, <2>4 DEF InBurst
    <2>6. QED
      BY <1>5, <1>6, <2>5 DEF BurstInv
  <1>9. QED
    BY <1>7, <1>8 DEF BurstInv, Quiet, InBurst

LEMMA BurstAsks ==
  ASSUME RunnerInv, BurstInv, DoAsk
  PROVE  BurstInv'
  <1>1. Step("ask") /\ UNCHANGED <<phase, contested>>
    BY DEF DoAsk
  <1>2. run \in Setups /\ UNCHANGED run /\ Members' = Members
    BY <1>1, StepTaken
  <1>3. TracksOK /\ BurstRefused
    BY DEF BurstInv
  <1>4. CASE Quiet
    <2>1. Quiet' /\ Head(todo) \in OpsOf(Members, contested, QuietMarks) /\ Head(todo).op = "ask"
      BY <1>1, <1>4, QuietShortens DEF Quiet, Step
    <2>2. PICK s : s = Head(todo)
      OBVIOUS
    <2>3. /\ s.device \in Members /\ s.domain \in Domains /\ s.address \in Addresses
          /\ s.mark \in QuietMarks /\ Instant(s.at) = clock
      BY <2>1, <2>2, OpMeans
    <2>4. PICK d \in Devices, a \in Addresses, dom \in Domains :
            d = s.device /\ a = s.address /\ dom = s.domain
      BY <1>2, <2>3, RunMeans
    <2>5. PICK verdict, session : StrategyDecides(d, a, dom, verdict, session, clock)
      BY <2>2, <2>3, <2>4 DEF DoAsk
    <2>6. UNCHANGED clock /\
          \E t \in {Observed(track[d], dom, a, clock), Counted(Observed(track[d], dom, a, clock), clock)} :
            track' = [track EXCEPT ![d] = t]
      BY <1>2, <2>5, AskTracks
    <2>7. TracksOK'
      <3>1. PICK t \in {Observed(track[d], dom, a, clock), Counted(Observed(track[d], dom, a, clock), clock)} :
              track' = [track EXCEPT ![d] = t]
        BY <2>6
      <3>2. UNCHANGED clock
        BY <2>6
      <3>3. QED
        BY <1>3, <3>1, <3>2, AskObserved
    <2>8. PICK p, q : scored' = IF s.mark = "none" THEN scored ELSE Score(s.device, s.mark, p, q)
      BY <2>2 DEF DoAsk
    <2>9. scored' = scored \/ scored'.mark # "burst"
      BY <2>3, <2>8 DEF Score, QuietMarks
    <2>10. BurstRefused'
      BY <1>2, <1>3, <2>9, RefusedFrame
    <2>11. QED
      BY <2>1, <2>7, <2>10 DEF BurstInv, Quiet
  <1>5. ASSUME NEW d \in Members, NEW interval \in Intervals, NEW v \in 0..BurstLength, NEW r \in 0..2,
               Burst(d, interval, v, r)
        PROVE  BurstInv'
    <2>1. r = 1
      BY <1>1, <1>5, BurstPlace
    <2>2. Burst(d, interval, v, 1)
      BY <1>5, <2>1
    <2>3. TracksOK' /\ Burst(d, interval, v, 2)' /\ BurstRefused'
      BY <1>3, <2>2, BurstAsk
    <2>4. InBurst'
      BY <1>2, <2>3 DEF InBurst
    <2>5. QED
      BY <2>3, <2>4 DEF BurstInv
  <1>6. QED
    BY <1>4, <1>5 DEF BurstInv, Quiet, InBurst

LEMMA BurstInvInit == RunnerInit => BurstInv
  <1> SUFFICES ASSUME RunnerInit PROVE BurstInv
    OBVIOUS
  <1>1. Init /\ todo = << >> /\ scored = None
    BY DEF RunnerInit, BaselineInit
  <1>2. TypeOK /\ \A d \in Devices : track[d].position.at = None
    BY <1>1, TypeInit DEF Init, NewTrack, NoPosition
  <1>3. TracksOK
    BY <1>2 DEF TypeOK, TracksOK
  <1>4. Quiet
    BY <1>1 DEF Quiet
  <1>5. BurstRefused
    BY <1>1 DEF BurstRefused
  <1>6. QED
    BY <1>3, <1>4, <1>5 DEF BurstInv, Quiet

LEMMA BurstInvNext == RunnerInv /\ BurstInv /\ [RunnerNext]_runnerVars => BurstInv'
  <1> SUFFICES ASSUME RunnerInv, BurstInv, [RunnerNext]_runnerVars PROVE BurstInv'
    OBVIOUS
  <1>1. CASE UNCHANGED runnerVars \/ Prepare \/ WorkloadDone
    <2>1. UNCHANGED <<run, todo, contested, clock, track, scored>>
      BY <1>1 DEF runnerVars, scenario, results, baselineVars, vars, access, Prepare, WorkloadDone
    <2>2. QED
      BY <2>1, BurstFrame
  <1>2. CASE Event
    BY <1>2, EventWrites, BurstWritten
  <1>3. CASE LegitimateEntry \/ \E kind \in AdversarialKinds : AdversarialEntry(kind)
    BY <1>3, EntryWrites, BurstWritten
  <1>4. CASE DoFeed
    <2>1. Step("feed") /\ UNCHANGED <<clock, track, contested, scored>>
      BY <1>4 DEF DoFeed, CollectorEvent, vars, access, results
    <2>2. QED
      BY <2>1, BurstOther
  <1>5. CASE DoCheck
    <2>1. Step("check") /\ UNCHANGED <<clock, track, contested>>
      BY <1>5 DEF DoCheck, access
    <2>2. PICK x, p, q : scored' = Score(x, "check", p, q)
      BY <1>5 DEF DoCheck
    <2>3. scored'.mark # "burst"
      BY <2>2 DEF Score
    <2>4. QED
      BY <2>1, <2>3, BurstOther
  <1>6. CASE DoRevoke
    <2>1. Step("revoke") /\ UNCHANGED <<clock, track, contested, scored>>
      BY <1>6 DEF DoRevoke, access, results
    <2>2. QED
      BY <2>1, BurstOther
  <1>7. QED
    BY <1>1, <1>2, <1>3, <1>4, <1>5, <1>6, BurstAsks, BurstAdvances DEF RunnerNext

(* "Transitions faster than the configured rate limit permits": for any    *)
(* thresholds, a burst of two more visits than the limit within the rate   *)
(* window ends in a rejection under CA-ZTCF and independent                *)
(* authentication, wherever the device was and whatever it did before.     *)
THEOREM BurstIsRefused == RunnerSpec => []BurstRefused
  <1>1. RunnerInit => RunnerInv /\ BurstInv
    BY RunnerInvInit, BurstInvInit
  <1>2. (RunnerInv /\ BurstInv) /\ [RunnerNext]_runnerVars => (RunnerInv /\ BurstInv)'
    BY RunnerInvNext, BurstInvNext
  <1>3. RunnerInv /\ BurstInv => BurstRefused
    BY DEF BurstInv
  <1>4. QED
    BY <1>1, <1>2, <1>3, PTL DEF RunnerSpec

-----------------------------------------------------------------------------
(***************************************************************************)
(* Flows *)

FlowMarks == {"none", "accepted", "refused", "stable", "transitional", "held", "suspicious",
              "mismatch", "unregistered"}

(* What a flow may consist of.  Devices meet at any address, the gateway   *)
(* states no domain, and events, positions and requests may be dated.      *)
FlowOps ==
  [op : {"enrol", "status"}, device : Devices]
    \cup [op : {"bind"}, address : Addresses, domain : Domains, posture : BOOLEAN,
         at : Nat \cup {None}]
    \cup [op : {"release"}, addresses : SUBSET Addresses]
    \cup [op : {"report"}, device : Devices, domain : Domains, address : Addresses,
         at : Nat \cup {None}]
    \cup [op : {"ask"}, device : Devices, domain : Domains \cup {None}, address : Addresses,
          proof : BOOLEAN, session : BOOLEAN, mark : FlowMarks, at : Nat \cup {None}]
    \cup [op : {"check"}, device : Devices, topic : {"cmd", "telemetry", "q"}, expected : BOOLEAN]
    \cup [op : {"advance"}, seconds : Nat]

LEMMA FlowOpMeans ==
  ASSUME NEW s \in FlowOps
  PROVE  /\ s.op \notin {"feed", "revoke"}
         /\ s.op \in {"enrol", "status", "check", "report", "ask"} => s.device \in Devices
         /\ s.op = "bind" => /\ s.address \in Addresses /\ s.domain \in Domains
                             /\ s.posture \in BOOLEAN /\ s.at \in Nat \cup {None}
         /\ s.op = "release" => s.addresses \in SUBSET Addresses
         /\ s.op = "report" => s.domain \in Domains /\ s.address \in Addresses
                               /\ s.at \in Nat \cup {None}
         /\ s.op = "ask" => /\ s.domain \in Domains \cup {None} /\ s.address \in Addresses
                            /\ s.session \in BOOLEAN /\ s.mark \in FlowMarks
                            /\ s.at \in Nat \cup {None}
         /\ s.op = "advance" => s.seconds \in Nat
  BY DEF FlowOps

LEMMA EnrolIsOp ==
  ASSUME NEW d \in Devices
  PROVE  Enrol(d) \in FlowOps /\ Revoke(d) \in FlowOps
  BY DEF Enrol, Revoke, FlowOps

LEMMA BindIsOp ==
  ASSUME NEW a \in Addresses, NEW dom \in Domains, NEW p \in BOOLEAN, NEW at \in Nat \cup {None}
  PROVE  Bind(a, dom, p, at) \in FlowOps
  BY DEF Bind, FlowOps

LEMMA ReleaseIsOp ==
  ASSUME NEW gone \in SUBSET Addresses
  PROVE  Release(gone) \in FlowOps
  BY DEF Release, FlowOps

LEMMA ReportIsOp ==
  ASSUME NEW d \in Devices, NEW dom \in Domains, NEW a \in Addresses, NEW at \in Nat \cup {None}
  PROVE  Report(d, dom, a, at) \in FlowOps
  BY DEF Report, FlowOps

LEMMA FlowAskIsOp ==
  ASSUME NEW d \in Devices, NEW dom \in Domains \cup {None}, NEW a \in Addresses,
         NEW proof \in BOOLEAN, NEW session \in BOOLEAN, NEW mark \in FlowMarks
  PROVE  /\ Ask(d, dom, a, proof, session, mark) \in FlowOps
         /\ \A at \in Nat : Dated(Ask(d, dom, a, proof, session, mark), at) \in FlowOps
  BY DEF Ask, Dated, FlowOps

LEMMA DatedAskIsOp ==
  ASSUME NEW d \in Devices, NEW dom \in Domains \cup {None}, NEW a \in Addresses,
         NEW proof \in BOOLEAN, NEW session \in BOOLEAN, NEW mark \in FlowMarks, NEW at \in Nat
  PROVE  Dated(Ask(d, dom, a, proof, session, mark), at) \in FlowOps
  BY FlowAskIsOp

LEMMA ConnectIsOp ==
  ASSUME NEW d \in Devices, NEW a \in Addresses, NEW proof \in BOOLEAN, NEW mark \in FlowMarks
  PROVE  AgentConnects(d, a, proof, mark) \in FlowOps /\ AgentAnswers(d, a) \in FlowOps
  BY FlowAskIsOp DEF AgentConnects, AgentAnswers, FlowMarks

LEMMA FlowCheckIsOp ==
  ASSUME NEW d \in Devices, NEW topic \in {"cmd", "telemetry", "q"}, NEW expected \in BOOLEAN
  PROVE  Check(d, topic, expected) \in FlowOps
  BY DEF Check, FlowOps

LEMMA FlowAdvanceIsOp ==
  ASSUME NEW seconds \in Nat
  PROVE  Advance(seconds) \in FlowOps
  BY DEF Advance, FlowOps

(* The devices and addresses that the flows name. *)
LEMMA FlowNames ==
  ASSUME run \in Setups
  PROVE  /\ Peer \in Addresses /\ "NR" \in Domains /\ "WLAN" \in Domains
         /\ AddressOf(1, "NR") \in Addresses /\ AddressOf(1, "WLAN") \in Addresses
         /\ 1 \in Devices /\ 2 \in Devices /\ 3 \in Devices /\ 4 \in Devices /\ 5 \in Devices
         /\ 6 \in Devices
  <1>1. 1 \in Members
    BY RunMeans
  <1>2. "NR" \in Domains /\ "WLAN" \in Domains
    BY PipelineAssumption, RunnerAssumption
  <1>3. QED
    BY <1>1, <1>2, RunMeans, FlowAssumption

(* Scripts as long as those of the flows. *)
LEMMA ThreeSteps ==
  ASSUME NEW S, NEW x1 \in S, NEW x2 \in S, NEW x3 \in S
  PROVE  <<x1, x2, x3>> \in Seq(S)
  OBVIOUS

LEMMA FourSteps ==
  ASSUME NEW S, NEW x1 \in S, NEW x2 \in S, NEW x3 \in S, NEW x4 \in S
  PROVE  <<x1, x2, x3, x4>> \in Seq(S)
  OBVIOUS

LEMMA FiveSteps ==
  ASSUME NEW S, NEW x1 \in S, NEW x2 \in S, NEW x3 \in S, NEW x4 \in S, NEW x5 \in S
  PROVE  <<x1, x2, x3, x4, x5>> \in Seq(S)
  OBVIOUS

LEMMA EightSteps ==
  ASSUME NEW S, NEW x1 \in S, NEW x2 \in S, NEW x3 \in S, NEW x4 \in S, NEW x5 \in S,
         NEW x6 \in S, NEW x7 \in S, NEW x8 \in S
  PROVE  <<x1, x2, x3, x4, x5, x6, x7, x8>> \in Seq(S)
  OBVIOUS

LEMMA NineSteps ==
  ASSUME NEW S, NEW x1 \in S, NEW x2 \in S, NEW x3 \in S, NEW x4 \in S, NEW x5 \in S,
         NEW x6 \in S, NEW x7 \in S, NEW x8 \in S, NEW x9 \in S
  PROVE  <<x1, x2, x3, x4, x5, x6, x7, x8, x9>> \in Seq(S)
  OBVIOUS

LEMMA TenSteps ==
  ASSUME NEW S, NEW x1 \in S, NEW x2 \in S, NEW x3 \in S, NEW x4 \in S, NEW x5 \in S,
         NEW x6 \in S, NEW x7 \in S, NEW x8 \in S, NEW x9 \in S, NEW x10 \in S
  PROVE  /\ <<x1, x2, x3, x4, x5, x6, x7, x8, x9, x10>> \in Seq(S)
         /\ Len(<<x1, x2, x3, x4, x5, x6, x7, x8, x9, x10>>) = 10
  OBVIOUS

(* A script whose calls take their time. *)
LEMMA SlowlyType ==
  ASSUME NEW pause \in Nat, NEW script \in Seq(FlowOps), Len(script) # 0
  PROVE  Slowly(pause, script) \in Seq(FlowOps)
  <1> DEFINE s == [i \in DOMAIN script |-> <<Advance(pause), script[i]>>]
             n == Len(script)
  <1>1. n \in Nat \ {0} /\ DOMAIN script = 1..n
    <2>1. PICK ops : ops = FlowOps
      OBVIOUS
    <2>2. script \in Seq(ops)
      BY <2>1
    <2>3. QED
      BY <2>2
  <1>2. ASSUME NEW i \in 1..n PROVE s[i] \in Seq(FlowOps) /\ Len(s[i]) = 2
    <2>1. PICK ops : ops = FlowOps
      OBVIOUS
    <2>2. script[i] \in ops
      BY <1>1, <2>1
    <2>3. script[i] \in FlowOps /\ Advance(pause) \in FlowOps
      BY <2>1, <2>2, FlowAdvanceIsOp
    <2>4. /\ <<Advance(pause), script[i]>> \in Seq(FlowOps)
          /\ Len(<<Advance(pause), script[i]>>) = 2
      BY <2>3, TwoSteps
    <2>5. s[i] = <<Advance(pause), script[i]>>
      BY <1>1
    <2> HIDE DEF s
    <2>6. QED
      BY <2>4, <2>5
  <1> HIDE DEF s
  <1>3. Len(s[1]) = 2 /\ \A i \in 1..n : s[i] \in Seq(FlowOps) /\ Len(s[i]) = 2
    BY <1>1, <1>2
  <1>4. InTurn(n, s) \in Seq(FlowOps)
    BY <1>1, <1>3, InTurnType
  <1>5. QED
    BY <1>4 DEF Slowly, s

(* The wait of a flow, with the binding reported anew every second. *)
LEMMA SettleType ==
  ASSUME run \in Setups, NEW dom \in {"NR", "WLAN"}, NEW hold \in Nat \ {0}
  PROVE  Settle(dom, hold) \in Seq(FlowOps)
  <1> DEFINE a == AddressOf(1, dom)
             s == [i \in 1..hold |-> <<Bind(a, dom, TRUE, None), Advance(1)>>]
  <1>1. dom \in Domains /\ a \in Addresses /\ 1 \in Devices
    BY FlowNames
  <1>2. Bind(a, dom, TRUE, None) \in FlowOps /\ Advance(1) \in FlowOps
    BY <1>1, BindIsOp, FlowAdvanceIsOp
  <1>3. \A i \in 1..hold : s[i] \in Seq(FlowOps) /\ Len(s[i]) = 2
    BY <1>2, TwoSteps
  <1>4. InTurn(hold, s) \in Seq(FlowOps)
    <2> HIDE DEF s
    <2>1. Len(s[1]) = 2
      BY <1>3
    <2>2. QED
      BY <1>3, <2>1, InTurnType
  <1>5. AgentConnects(1, a, TRUE, "stable") \in FlowOps /\ Check(1, "cmd", TRUE) \in FlowOps
    BY <1>1, ConnectIsOp, FlowCheckIsOp DEF FlowMarks
  <1>6. InTurn(hold, s) \o <<AgentConnects(1, a, TRUE, "stable"), Check(1, "cmd", TRUE)>>
          \in Seq(FlowOps)
    BY <1>4, <1>5, TwoSteps, StepsInARow
  <1>7. QED
    BY <1>6 DEF Settle

LEMMA PathSwitchType ==
  ASSUME run \in Setups, NEW dom \in {"NR", "WLAN"}
  PROVE  PathSwitch(dom) \in Seq(FlowOps)
  <1> DEFINE a == AddressOf(1, dom)
  <1>1. dom \in Domains /\ a \in Addresses /\ 1 \in Devices /\ "transitional" \in FlowMarks
    BY FlowNames DEF FlowMarks
  <1>2. /\ Bind(a, dom, TRUE, None) \in FlowOps /\ AgentConnects(1, a, TRUE, "transitional") \in FlowOps
        /\ Ask(1, dom, a, FALSE, TRUE, "transitional") \in FlowOps
        /\ Check(1, "cmd", FALSE) \in FlowOps /\ Check(1, "telemetry", TRUE) \in FlowOps
    BY <1>1, BindIsOp, ConnectIsOp, FlowAskIsOp, FlowCheckIsOp
  <1>3. QED
    BY <1>2, FiveSteps DEF PathSwitch

LEMMA DevFlowType ==
  ASSUME run \in Setups, clock \in Nat, NEW pause \in Intervals, DevFlow(pause)
  PROVE  todo' \in Seq(FlowOps) /\ Load("dev_flow", todo')
  <1> DEFINE nr == AddressOf(1, "NR")
             wlan == AddressOf(1, "WLAN")
  <1>1. PICK t0 \in Nat, t1 \in Nat, t2 \in Nat :
          t0 = clock /\ t1 = t0 + 1 /\ t2 = t1 + TransitionWindow + 1
    BY WindowAssumption
  <1> DEFINE script ==
        <<Enrol(1), Bind(nr, "NR", TRUE, t0), Dated(AskFrom(1, "NR", "stable"), t0),
          Bind(wlan, "WLAN", TRUE, t1), Dated(AskFrom(1, "WLAN", "transitional"), t1),
          Bind(wlan, "WLAN", TRUE, t2), Dated(AskFrom(1, "WLAN", "stable"), t2),
          Enrol(2), Dated(Ask(2, "WLAN", wlan, TRUE, TRUE, "mismatch"), t2),
          Dated(Ask(3, "NR", nr, FALSE, TRUE, "unregistered"), t2)>>
  <1>2. /\ Enrol(1) \in FlowOps /\ Enrol(2) \in FlowOps /\ Bind(nr, "NR", TRUE, t0) \in FlowOps
        /\ Bind(wlan, "WLAN", TRUE, t1) \in FlowOps /\ Bind(wlan, "WLAN", TRUE, t2) \in FlowOps
    BY FlowNames, EnrolIsOp, BindIsOp
  <1>3. {"stable", "transitional", "mismatch", "unregistered"} \subseteq FlowMarks
    BY DEF FlowMarks
  <1>4. /\ Dated(AskFrom(1, "NR", "stable"), t0) \in FlowOps
        /\ Dated(AskFrom(1, "WLAN", "transitional"), t1) \in FlowOps
        /\ Dated(AskFrom(1, "WLAN", "stable"), t2) \in FlowOps
    BY <1>3, FlowNames, DatedAskIsOp DEF AskFrom
  <1>5. /\ Dated(Ask(2, "WLAN", wlan, TRUE, TRUE, "mismatch"), t2) \in FlowOps
        /\ Dated(Ask(3, "NR", nr, FALSE, TRUE, "unregistered"), t2) \in FlowOps
    BY <1>3, FlowNames, DatedAskIsOp
  <1>6. script \in Seq(FlowOps) /\ Len(script) = 10
    BY <1>2, <1>4, <1>5, TenSteps
  <1>7. Load("dev_flow", Slowly(pause, script))
    BY <1>1 DEF DevFlow
  <1> HIDE DEF script
  <1>8. Slowly(pause, script) \in Seq(FlowOps)
    <2>1. PICK q \in Seq(FlowOps) : q = script /\ Len(q) # 0
      BY <1>6
    <2>2. pause \in Nat
      BY IntervalsType
    <2>3. Slowly(pause, q) \in Seq(FlowOps)
      BY <2>1, <2>2, SlowlyType, Zenon
    <2>4. QED
      BY <2>1, <2>3
  <1>9. todo' = Slowly(pause, script)
    BY <1>7 DEF Load, Begin
  <1>10. QED
    BY <1>7, <1>8, <1>9

LEMMA MqttFlowType ==
  ASSUME run \in Setups, clock \in Nat, MqttFlow
  PROVE  todo' \in Seq(FlowOps) /\ Load("mqtt_flow", todo')
  <1>1. /\ Enrol(1) \in FlowOps /\ Enrol(2) \in FlowOps /\ Enrol(3) \in FlowOps
        /\ Enrol(5) \in FlowOps /\ Revoke(1) \in FlowOps
        /\ Release(Addresses) \in FlowOps /\ Release({Peer}) \in FlowOps
    BY FlowNames, EnrolIsOp, ReleaseIsOp
  <1>0. clock \in Nat \cup {None} /\ clock + 1 \in Nat \cup {None}
    OBVIOUS
  <1>2. /\ Bind(Peer, "NR", TRUE, clock) \in FlowOps
        /\ Bind(Peer, "WLAN", TRUE, clock + 1) \in FlowOps
        /\ Bind(Peer, "WLAN", FALSE, clock + 1) \in FlowOps
        /\ Report(1, "WLAN", Peer, clock + 1) \in FlowOps
        /\ Report(5, "NR", Peer, clock) \in FlowOps
        /\ Report(5, "WLAN", Peer, clock + 1) \in FlowOps
    BY <1>0, FlowNames, BindIsOp, ReportIsOp
  <1>3. /\ AgentConnects(2, Peer, FALSE, "accepted") \in FlowOps /\ AgentAnswers(2, Peer) \in FlowOps
        /\ AgentConnects(1, Peer, TRUE, "stable") \in FlowOps
        /\ AgentConnects(1, Peer, TRUE, "transitional") \in FlowOps
        /\ AgentConnects(3, Peer, FALSE, "held") \in FlowOps /\ AgentAnswers(3, Peer) \in FlowOps
        /\ AgentConnects(4, Peer, FALSE, "refused") \in FlowOps
        /\ AgentConnects(1, Peer, TRUE, "refused") \in FlowOps
        /\ AgentConnects(5, Peer, TRUE, "suspicious") \in FlowOps
    BY FlowNames, ConnectIsOp DEF FlowMarks
  <1>4. /\ Check(1, "cmd", TRUE) \in FlowOps /\ Check(1, "cmd", FALSE) \in FlowOps
        /\ Check(1, "telemetry", TRUE) \in FlowOps /\ Check(5, "telemetry", FALSE) \in FlowOps
        /\ Check(5, "q", TRUE) \in FlowOps
    BY FlowNames, FlowCheckIsOp
  <1>5. ResetBindings \in Seq(FlowOps) /\ Probe \in Seq(FlowOps)
    BY <1>1, <1>3, OneStep, ThreeSteps DEF ResetBindings, Probe
  <1>6. SteadyThenTransition(clock) \in Seq(FlowOps)
    BY <1>1, <1>2, <1>3, <1>4, NineSteps DEF SteadyThenTransition
  <1>7. StepUp \in Seq(FlowOps) /\ Refusals \in Seq(FlowOps)
    BY <1>1, <1>3, FourSteps, ThreeSteps DEF StepUp, Refusals
  <1>8. Quarantine(clock) \in Seq(FlowOps)
    BY <1>1, <1>2, <1>3, <1>4, EightSteps DEF Quarantine
  <1>9. ResetBindings \o Probe \o SteadyThenTransition(clock) \o StepUp \o Refusals
          \o Quarantine(clock)
          \in Seq(FlowOps)
    BY <1>5, <1>6, <1>7, <1>8, StepsInARow
  <1>10. QED
    BY <1>9 DEF MqttFlow, Load, Begin

LEMMA Tier2FlowType ==
  ASSUME run \in Setups, Tier2Flow
  PROVE  todo' \in Seq(FlowOps) /\ Load("tier2_flow", todo')
  <1> DEFINE nr == AddressOf(1, "NR")
             start == <<Enrol(1), Bind(nr, "NR", TRUE, None), AgentConnects(1, nr, TRUE, "accepted")>>
  <1>1. /\ Enrol(1) \in FlowOps /\ Bind(nr, "NR", TRUE, None) \in FlowOps
        /\ AgentConnects(1, nr, TRUE, "accepted") \in FlowOps
    BY FlowNames, EnrolIsOp, BindIsOp, ConnectIsOp DEF FlowMarks
  <1>2. start \in Seq(FlowOps)
    BY <1>1, ThreeSteps
  <1>3. ShortHold \in Nat \ {0} /\ LongHold \in Nat \ {0}
    BY WindowAssumption DEF ShortHold, LongHold
  <1>4. /\ Settle("NR", ShortHold) \in Seq(FlowOps) /\ Settle("WLAN", LongHold) \in Seq(FlowOps)
        /\ PathSwitch("NR") \in Seq(FlowOps) /\ PathSwitch("WLAN") \in Seq(FlowOps)
    BY <1>3, SettleType, PathSwitchType
  <1> HIDE DEF start
  <1>5. start \o Settle("NR", ShortHold) \o PathSwitch("WLAN") \o Settle("WLAN", LongHold)
          \o PathSwitch("NR") \o Settle("NR", ShortHold) \in Seq(FlowOps)
    BY <1>2, <1>4, StepsInARow
  <1>6. QED
    BY <1>5 DEF Tier2Flow, Load, Begin, start

LEMMA LeftoverType ==
  ASSUME run \in Setups, NEW a \in Addresses, NEW dom \in Domains, Leftover(a, dom)
  PROVE  todo' \in Seq(FlowOps) /\ Load("leftover", todo')
  <1>1. /\ Enrol(6) \in FlowOps /\ Bind(a, dom, TRUE, None) \in FlowOps
        /\ Ask(6, dom, a, TRUE, TRUE, "none") \in FlowOps
    BY FlowNames, EnrolIsOp, BindIsOp, FlowAskIsOp DEF FlowMarks
  <1>2. <<Enrol(6), Bind(a, dom, TRUE, None), Ask(6, dom, a, TRUE, TRUE, "none")>> \in Seq(FlowOps)
    BY <1>1, ThreeSteps
  <1>3. QED
    BY <1>2 DEF Leftover, Load, Begin

-----------------------------------------------------------------------------
(* The invariant of flows *)

FlowRun == \E i \in DOMAIN run.outline : run.outline[i] \in FlowKinds

(* The events that are left are events of the run. *)
OutlineOK ==
  /\ run \in Setups /\ outline \in Seq(STRING)
  /\ \A i \in DOMAIN outline : \E j \in DOMAIN run.outline : outline[i] = run.outline[j]

(* From its first call on, the devices of a flow contest their addresses. *)
FlowOK ==
  /\ workload = None /\ todo \in Seq(FlowOps)
  /\ TypeOK /\ BindingsOwned
  /\ \/ contested = Members
     \/ /\ todo = << >>
        /\ last = [d \in Devices |-> None] /\ store = [a \in Addresses |-> None]
  /\ scored # None => scored.mark # "burst"

(* A run plays flows or events, never both. *)
FlowInv == OutlineOK /\ IF FlowRun THEN FlowOK ELSE RunnerInv /\ BurstInv

LEMMA FlowInvInit == RunnerInit => FlowInv
  <1> SUFFICES ASSUME RunnerInit PROVE FlowInv
    OBVIOUS
  <1>1. OutlineOK
    BY FlowAssumption DEF RunnerInit, OutlineOK
  <1>2. Init
    BY DEF RunnerInit, BaselineInit
  <1>3. FlowOK
    <2>1. << >> \in Seq(FlowOps)
      OBVIOUS
    <2>2. BindingsOwned
      BY <1>2 DEF Init, BindingsOwned
    <2>3. store = [a \in Addresses |-> None]
      BY <1>2 DEF Init
    <2>4. QED
      BY <1>2, <2>1, <2>2, <2>3, TypeInit DEF RunnerInit, FlowOK
  <1>4. QED
    BY <1>1, <1>3, RunnerInvInit, BurstInvInit DEF FlowInv

LEMMA OutlineKept ==
  ASSUME OutlineOK, UNCHANGED run,
         outline' = outline \/ (outline # << >> /\ outline' = Tail(outline))
  PROVE  OutlineOK' /\ (FlowRun' <=> FlowRun)
  <1>1. FlowRun' <=> FlowRun
    BY DEF FlowRun
  <1>2. CASE outline' = outline
    BY <1>1, <1>2 DEF OutlineOK
  <1>3. CASE outline # << >> /\ outline' = Tail(outline)
    <2>1. /\ outline' \in Seq(STRING)
          /\ \A i \in DOMAIN outline' : i + 1 \in DOMAIN outline /\ outline'[i] = outline[i + 1]
      BY <1>3 DEF OutlineOK
    <2>2. QED
      BY <1>1, <2>1 DEF OutlineOK
  <1>4. QED
    BY <1>2, <1>3

(* What a run of flows begins is a flow, and no other run begins one. *)
LEMMA KindIs ==
  ASSUME OutlineOK, NEW kind, NEW script, Begin(kind, script)
  PROVE  kind \in FlowKinds <=> FlowRun
  <1>1. Head(outline) = kind \/ (Head(outline) = "any" /\ kind \in OpenKinds)
    BY DEF Begin
  <1>2. PICK j \in DOMAIN run.outline : Head(outline) = run.outline[j]
    BY DEF Begin, OutlineOK
  <1>3. FlowRun => Head(outline) \in FlowKinds
    BY <1>2, FlowAssumption DEF FlowRun, OutlineOK
  <1>4. Head(outline) \in FlowKinds => FlowRun
    BY <1>2 DEF FlowRun
  <1>5. "any" \notin FlowKinds /\ \A k \in OpenKinds : k \notin FlowKinds
    BY DEF FlowKinds, OpenKinds
  <1>6. QED
    BY <1>1, <1>3, <1>4, <1>5

LEMMA EventBegins ==
  ASSUME Event
  PROVE  \E kind \in OpenKinds \cup {"mixed_workload"} : \E script : Begin(kind, script)
  <1>1. \A kind, script : Plain(kind, script) => Begin(kind, script)
    BY DEF Plain
  <1>2. ASSUME NEW seconds, AdvanceTime(seconds) \/ DeviceSweep(seconds) \/ MixedWorkload(seconds)
        PROVE  \E kind \in OpenKinds \cup {"mixed_workload"} : \E script : Begin(kind, script)
    BY <1>1, <1>2 DEF AdvanceTime, DeviceSweep, MixedWorkload, OpenKinds
  <1>3. ASSUME NEW dom, NEW seconds, ConcurrentTransition(dom, seconds)
        PROVE  \E kind \in OpenKinds : \E script : Begin(kind, script)
    BY <1>1, <1>3 DEF ConcurrentTransition, OpenKinds
  <1>4. ASSUME NEW d, NEW x,
               \/ Session(d, x) \/ MoveTo(d, x) \/ UnauthorizedContext(d, x) \/ Connect(d, x)
               \/ IdentityMismatch(d, x) \/ SessionMismatch(d) \/ RapidTransitions(d, x)
               \/ Operation(d, "telemetry", x) \/ Disconnect(d)
        PROVE  \E kind \in OpenKinds : \E script : Begin(kind, script)
    BY <1>1, <1>4 DEF Session, MoveTo, UnauthorizedContext, Connect, IdentityMismatch, SessionMismatch,
       RapidTransitions, Operation, Disconnect, OpenKinds
  <1>5. QED
    BY <1>2, <1>3, <1>4 DEF Event

LEMMA FlowNextOutline ==
  ASSUME OutlineOK, [FlowNext]_runnerVars
  PROVE  OutlineOK' /\ (FlowRun' <=> FlowRun)
  <1>1. UNCHANGED <<run, outline>> \/ \E kind, script : Begin(kind, script)
    <2>1. CASE Event
      BY <2>1, EventBegins
    <2>2. CASE Prepare \/ WorkloadDone \/ UNCHANGED runnerVars
      BY <2>2 DEF Prepare, WorkloadDone, runnerVars, scenario
    <2>3. CASE LegitimateEntry \/ \E kind \in AdversarialKinds : AdversarialEntry(kind)
      BY <2>3 DEF LegitimateEntry, AdversarialEntry, Entry
    <2>4. CASE DoFeed \/ DoAsk \/ DoCheck \/ DoAdvance \/ DoRevoke
      BY <2>4 DEF DoFeed, DoAsk, DoCheck, DoAdvance, DoRevoke, Step
    <2>5. CASE (\E pause \in Intervals : DevFlow(pause)) \/ MqttFlow \/ Tier2Flow
                 \/ \E a \in Addresses, dom \in Domains : Leftover(a, dom)
      BY <2>5 DEF DevFlow, MqttFlow, Tier2Flow, Leftover, Load
    <2>6. CASE DoEnrol \/ DoStatus \/ DoBind \/ DoRelease \/ DoReport
      BY <2>6 DEF DoEnrol, DoStatus, DoBind, DoRelease, DoReport, Step
    <2>7. QED
      BY <2>1, <2>2, <2>3, <2>4, <2>5, <2>6 DEF FlowNext, RunnerNext
  <1>2. UNCHANGED run /\ (outline' = outline \/ (outline # << >> /\ outline' = Tail(outline)))
    BY <1>1 DEF Begin
  <1>3. QED
    BY <1>2, OutlineKept

(* A step of the script, and a flow that is taken up. *)
LEMMA FlowStep ==
  ASSUME OutlineOK, FlowOK, NEW op, Step(op), UNCHANGED contested, TypeOK', BindingsOwned',
         scored' = scored \/ scored'.mark # "burst"
  PROVE  FlowOK'
  <1>1. /\ todo # << >> /\ todo' = Tail(todo) /\ UNCHANGED <<run, workload>>
        /\ contested = Members /\ Members' = Members
    BY DEF Step, FlowOK, Members
  <1>2. PICK ops : ops = FlowOps
    OBVIOUS
  <1>3. Tail(todo) \in Seq(ops)
    BY <1>1, <1>2 DEF FlowOK
  <1>4. todo' \in Seq(FlowOps)
    BY <1>1, <1>2, <1>3
  <1>5. QED
    BY <1>1, <1>4 DEF FlowOK

LEMMA FlowHead ==
  ASSUME FlowOK, NEW op, Step(op)
  PROVE  Head(todo) \in FlowOps /\ Head(todo).op = op
  <1>1. PICK ops : ops = FlowOps
    OBVIOUS
  <1>2. Head(todo) \in ops /\ Head(todo).op = op
    BY <1>1 DEF FlowOK, Step
  <1>3. QED
    BY <1>1, <1>2

LEMMA FlowBegins ==
  ASSUME OutlineOK, FlowOK, NEW flow, NEW script, Load(flow, script), todo' \in Seq(FlowOps)
  PROVE  FlowOK'
  <1>1. /\ UNCHANGED <<baselineVars, run, workload>> /\ scored' = None
        /\ contested' = Members /\ Members' = Members
    BY DEF Load, Begin, Members
  <1>2. UNCHANGED vars
    BY <1>1 DEF baselineVars
  <1>3. TypeOK'
    BY <1>2 DEF FlowOK, TypeOK, vars, registry, access, grants, history
  <1>4. BindingsOwned'
    BY <1>2 DEF FlowOK, BindingsOwned, Reaches, vars, access, grants
  <1>5. QED
    BY <1>1, <1>3, <1>4 DEF FlowOK

LEMMA FlowLoads ==
  ASSUME OutlineOK, FlowOK,
         \/ \E pause \in Intervals : DevFlow(pause)
         \/ MqttFlow \/ Tier2Flow \/ \E a \in Addresses, dom \in Domains : Leftover(a, dom)
  PROVE  FlowOK'
  <1>1. run \in Setups /\ clock \in Nat
    BY DEF OutlineOK, FlowOK, TypeOK
  <1>2. QED
    BY <1>1, DevFlowType, MqttFlowType, Tier2FlowType, LeftoverType, FlowBegins

LEMMA FlowAsks == OutlineOK /\ FlowRun /\ FlowOK /\ DoAsk => FlowOK'
  <1> SUFFICES ASSUME OutlineOK, FlowRun, FlowOK, DoAsk PROVE FlowOK'
    OBVIOUS
  <1>1. PICK s : s = Head(todo)
    OBVIOUS
  <1>2. Step("ask") /\ UNCHANGED contested
    BY DEF DoAsk
  <1>3. /\ s.device \in Devices /\ s.domain \in Domains \cup {None} /\ s.address \in Addresses
        /\ s.session \in BOOLEAN /\ s.mark \in FlowMarks /\ s.at \in Nat \cup {None}
    <2>1. s \in FlowOps /\ s.op = "ask"
      BY <1>1, <1>2, FlowHead
    <2>2. QED
      BY <2>1, FlowOpMeans
  <1>4. PICK verdict \in {"valid", "absent"} :
          StrategyDecides(s.device, s.address, s.domain, verdict, s.session, Instant(s.at))
    <2>1. StrategyDecides(s.device, s.address, s.domain, IF s.proof THEN "valid" ELSE "absent",
                          s.session, Instant(s.at))
      BY <1>1 DEF DoAsk
    <2>2. (IF s.proof THEN "valid" ELSE "absent") \in {"valid", "absent"}
      OBVIOUS
    <2>3. QED
      BY <2>1, <2>2
  <1>5. run.strategy = "ca_ztcf"
    BY FlowAssumption DEF FlowRun, OutlineOK
  <1>6. PICK now \in Nat : Decide(s.device, s.address, s.domain, verdict, s.session, now, TRUE)
    <2>1. Instant(s.at) \in Nat
      BY <1>3 DEF FlowOK, TypeOK, Instant
    <2>2. QED
      BY <1>4, <1>5, <2>1 DEF StrategyDecides
  <1>7. s.domain \in DeclaredDomains /\ verdict \in Verdicts /\ s.session \in Sessions
    BY <1>3, FlowAssumption, RunnerAssumption
  <1>8. TypeOK'
    BY <1>3, <1>6, <1>7, DecideType DEF FlowOK
  <1>9. BindingsOwned'
    BY <1>3, <1>6, <1>7, <1>8, OwnedDecide DEF FlowOK
  <1>10. scored' = scored \/ scored'.mark # "burst"
    <2>1. PICK p, q : scored' = IF s.mark = "none" THEN scored ELSE Score(s.device, s.mark, p, q)
      BY <1>1 DEF DoAsk
    <2>2. s.mark # "burst"
      BY <1>3 DEF FlowMarks
    <2>3. QED
      BY <2>1, <2>2 DEF Score
  <1>11. QED
    BY <1>2, <1>8, <1>9, <1>10, FlowStep

LEMMA FlowChecks == OutlineOK /\ FlowOK /\ DoCheck => FlowOK'
  <1> SUFFICES ASSUME OutlineOK, FlowOK, DoCheck PROVE FlowOK'
    OBVIOUS
  <1>1. PICK d : d = Head(todo).device
    OBVIOUS
  <1>2. Step("check") /\ UNCHANGED contested
    BY DEF DoCheck
  <1>3. d \in Devices
    BY <1>1, <1>2, FlowHead, FlowOpMeans
  <1>4. /\ active' \in {active, [active EXCEPT ![d] = None]}
        /\ UNCHANGED <<clock, registry, access, decided, history>>
    BY <1>1 DEF DoCheck
  <1>5. TypeOK' /\ BindingsOwned'
    BY <1>3, <1>4, DecisionEnds DEF FlowOK
  <1>6. PICK x, p, q : scored' = Score(x, "check", p, q)
    BY DEF DoCheck
  <1>7. scored'.mark # "burst"
    BY <1>6 DEF Score
  <1>8. QED
    BY <1>2, <1>5, <1>7, FlowStep

LEMMA FlowAdvances == OutlineOK /\ FlowOK /\ DoAdvance => FlowOK'
  <1> SUFFICES ASSUME OutlineOK, FlowOK, DoAdvance PROVE FlowOK'
    OBVIOUS
  <1>1. Step("advance") /\ UNCHANGED <<contested, scored>>
    BY DEF DoAdvance, results
  <1>2. PICK seconds \in Nat : clock' = clock + seconds
    BY <1>1, FlowHead, FlowOpMeans DEF DoAdvance
  <1>3. TypeOK' /\ BindingsOwned'
    BY <1>2, ServiceAges DEF FlowOK
  <1>4. QED
    BY <1>1, <1>3, FlowStep

(* Enrolment and revocation are administration of the pipeline. *)
LEMMA FlowAdministers == OutlineOK /\ FlowOK /\ (DoEnrol \/ DoStatus) => FlowOK'
  <1> SUFFICES ASSUME OutlineOK, FlowOK, DoEnrol \/ DoStatus PROVE FlowOK'
    OBVIOUS
  <1>1. PICK d : d = Head(todo).device
    OBVIOUS
  <1>2. PICK op \in {"enrol", "status"} : Step(op)
    BY DEF DoEnrol, DoStatus
  <1>3. UNCHANGED <<contested, scored>>
    BY DEF DoEnrol, DoStatus, Still, results
  <1>4. d \in Devices
    BY <1>1, <1>2, FlowHead, FlowOpMeans
  <1>5. Register(d) \/ \E x \in Statuses : SetStatus(d, x)
    BY <1>1, FlowAssumption DEF DoEnrol, DoStatus
  <1>6. TypeOK'
    BY <1>4, <1>5, AdministrationType DEF FlowOK
  <1>7. UNCHANGED <<store, nextId, active>>
    BY <1>5 DEF Register, SetStatus, access, grants
  <1>8. BindingsOwned'
    BY <1>7 DEF FlowOK, BindingsOwned, Reaches
  <1>9. QED
    BY <1>2, <1>3, <1>6, <1>8, FlowStep

LEMMA FlowBinds == OutlineOK /\ FlowOK /\ (DoBind \/ DoRelease) => FlowOK'
  <1> SUFFICES ASSUME OutlineOK, FlowOK, DoBind \/ DoRelease PROVE FlowOK'
    OBVIOUS
  <1>1. PICK s : s = Head(todo)
    OBVIOUS
  <1>2. UNCHANGED <<contested, scored>>
    BY DEF DoBind, DoRelease, Still, results
  <1>3. CASE DoBind
    <2>1. Step("bind") /\ CollectorEvent(s.address, s.domain, clock - Instant(s.at), None, s.posture)
      BY <1>1, <1>3 DEF DoBind
    <2>2. /\ s.address \in Addresses /\ s.domain \in Domains /\ s.posture \in BOOLEAN
          /\ s.at \in Nat \cup {None}
      BY <1>1, <2>1, FlowHead, FlowOpMeans
    <2>3. PICK delay \in Int : delay = clock - Instant(s.at)
      <3>1. clock \in Nat
        BY DEF FlowOK, TypeOK
      <3>2. Instant(s.at) \in Nat
        BY <2>2, <3>1 DEF Instant
      <3>3. QED
        BY <3>1, <3>2
    <2>4. None \in Lifetimes
      BY FlowAssumption
    <2>5. CollectorEvent(s.address, s.domain, delay, None, s.posture)
      BY <2>1, <2>3
    <2>6. TypeOK' /\ BindingsOwned'
      BY <2>2, <2>4, <2>5, StoreFed DEF FlowOK
    <2>7. QED
      BY <1>2, <2>1, <2>6, FlowStep
  <1>4. CASE DoRelease
    <2>1. /\ Step("release")
          /\ store' = [a \in Addresses |-> IF a \in s.addresses THEN None ELSE store[a]]
          /\ UNCHANGED <<clock, registry, nextId, track, grants, history>>
      BY <1>1, <1>4 DEF DoRelease
    <2>2. s.addresses \in SUBSET Addresses
      BY <1>1, <2>1, FlowHead, FlowOpMeans
    <2>3. TypeOK' /\ BindingsOwned'
      BY <2>1, <2>2, StoreEmptied DEF FlowOK
    <2>4. QED
      BY <1>2, <2>1, <2>3, FlowStep
  <1>5. QED
    BY <1>3, <1>4

LEMMA FlowReports == OutlineOK /\ FlowOK /\ DoReport => FlowOK'
  <1> SUFFICES ASSUME OutlineOK, FlowOK, DoReport PROVE FlowOK'
    OBVIOUS
  <1>1. PICK s : s = Head(todo)
    OBVIOUS
  <1>2. Step("report") /\ UNCHANGED <<contested, scored>>
    BY DEF DoReport, Still, results
  <1>3. /\ s.device \in Devices /\ s.domain \in Domains /\ s.address \in Addresses
        /\ s.at \in Nat \cup {None}
    BY <1>1, <1>2, FlowHead, FlowOpMeans
  <1>4. PICK at \in Nat : at = Instant(s.at)
    BY <1>3 DEF FlowOK, TypeOK, Instant
  <1>5. /\ track' = [track EXCEPT ![s.device] =
                       Counted(Observed(track[s.device], s.domain, s.address, at), at)]
        /\ UNCHANGED <<clock, registry, store, nextId, grants, history>>
    BY <1>1, <1>4 DEF DoReport
  <1>6. track \in [Devices -> Tracks]
    BY DEF FlowOK, TypeOK
  <1>7. Observed(track[s.device], s.domain, s.address, at) \in Tracks
    BY <1>3, <1>6, ObservedType DEF Stated
  <1>8. Counted(Observed(track[s.device], s.domain, s.address, at), at) \in Tracks
    BY <1>7, CountedType
  <1>9. track' \in [Devices -> Tracks]
    BY <1>5, <1>6, <1>8
  <1>10. TypeOK'
    BY <1>5, <1>9 DEF FlowOK, TypeOK, registry, grants, history
  <1>11. BindingsOwned'
    BY <1>5 DEF FlowOK, BindingsOwned, Reaches, grants
  <1>12. QED
    BY <1>2, <1>10, <1>11, FlowStep

LEMMA FlowPrepares == OutlineOK /\ FlowOK /\ Prepare => FlowOK'
  <1> SUFFICES ASSUME OutlineOK, FlowOK, Prepare PROVE FlowOK'
    OBVIOUS
  <1>1. UNCHANGED <<run, workload, todo, contested, last, scored, store>> /\ Members' = Members
    BY DEF Prepare, access, Members
  <1>2. TypeOK' /\ BindingsOwned'
    BY ServicePrepared DEF FlowOK
  <1>3. QED
    BY <1>1, <1>2 DEF FlowOK

LEMMA FlowIdles == OutlineOK /\ FlowOK /\ UNCHANGED runnerVars => FlowOK'
  <1> SUFFICES ASSUME OutlineOK, FlowOK, UNCHANGED runnerVars PROVE FlowOK'
    OBVIOUS
  <1>1. /\ UNCHANGED <<run, workload, todo, contested, last, scored>> /\ UNCHANGED vars
        /\ Members' = Members
    BY DEF runnerVars, scenario, results, baselineVars, Members
  <1>2. TypeOK'
    BY <1>1 DEF FlowOK, TypeOK, vars, registry, access, grants, history
  <1>3. BindingsOwned' /\ UNCHANGED store
    BY <1>1 DEF FlowOK, BindingsOwned, Reaches, vars, access, grants
  <1>4. QED
    BY <1>1, <1>2, <1>3 DEF FlowOK

(* No event, no workload and nothing that only an event consists of. *)
LEMMA FlowsOnly ==
  ASSUME OutlineOK, FlowRun, FlowOK
  PROVE  /\ ~Event /\ ~LegitimateEntry /\ ~WorkloadDone
         /\ \A kind \in AdversarialKinds : ~AdversarialEntry(kind)
         /\ ~DoFeed /\ ~DoRevoke
  <1>1. ~Event
    <2>1. \A kind \in OpenKinds \cup {"mixed_workload"} : kind \notin FlowKinds
      BY DEF OpenKinds, FlowKinds
    <2>2. QED
      BY <2>1, EventBegins, KindIs
  <1>2. workload = None
    BY DEF FlowOK
  <1>3. /\ ~LegitimateEntry /\ ~WorkloadDone
        /\ \A kind \in AdversarialKinds : ~AdversarialEntry(kind)
    BY <1>2 DEF LegitimateEntry, AdversarialEntry, Entry, WorkloadDone
  <1>4. ~Step("feed") /\ ~Step("revoke")
    BY FlowHead, FlowOpMeans
  <1>5. QED
    BY <1>1, <1>3, <1>4 DEF DoFeed, DoRevoke

(* And no scenario takes a flow up, or contains a step of one. *)
LEMMA EventsOnly ==
  ASSUME OutlineOK, ~FlowRun, RunnerInv
  PROVE  /\ \A pause \in Intervals : ~DevFlow(pause)
         /\ ~MqttFlow /\ ~Tier2Flow
         /\ \A a \in Addresses, dom \in Domains : ~Leftover(a, dom)
         /\ ~DoEnrol /\ ~DoStatus /\ ~DoBind /\ ~DoRelease /\ ~DoReport
  <1>1. \A kind \in FlowKinds : \A script : ~Load(kind, script)
    BY KindIs DEF Load
  <1>2. /\ \A pause \in Intervals : ~DevFlow(pause)
        /\ ~MqttFlow /\ ~Tier2Flow /\ \A a \in Addresses, dom \in Domains : ~Leftover(a, dom)
    BY <1>1 DEF DevFlow, MqttFlow, Tier2Flow, Leftover, FlowKinds
  <1>3. ASSUME NEW op, Step(op)
        PROVE  op \in {"feed", "ask", "check", "advance", "revoke"}
    BY <1>3, StepTaken DEF OpsOf, Feeds, Asks
  <1>4. \A op \in {"enrol", "status", "bind", "release", "report"} : ~Step(op)
    BY <1>3
  <1>5. QED
    BY <1>2, <1>4 DEF DoEnrol, DoStatus, DoBind, DoRelease, DoReport

LEMMA FlowInvNext == FlowInv /\ [FlowNext]_runnerVars => FlowInv'
  <1> SUFFICES ASSUME FlowInv, [FlowNext]_runnerVars PROVE FlowInv'
    OBVIOUS
  <1>1. OutlineOK /\ OutlineOK' /\ (FlowRun' <=> FlowRun)
    BY FlowNextOutline DEF FlowInv
  <1>2. CASE FlowRun
    <2>1. FlowOK
      BY <1>2 DEF FlowInv
    <2>2. FlowOK'
      BY <1>1, <1>2, <2>1, FlowsOnly, FlowPrepares, FlowIdles, FlowLoads, FlowAsks, FlowChecks,
         FlowAdvances, FlowAdministers, FlowBinds, FlowReports DEF FlowNext, RunnerNext
    <2>3. QED
      BY <1>1, <1>2, <2>2 DEF FlowInv
  <1>3. CASE ~FlowRun
    <2>1. RunnerInv /\ BurstInv
      BY <1>3 DEF FlowInv
    <2>2. [RunnerNext]_runnerVars
      BY <1>1, <1>3, <2>1, EventsOnly DEF FlowNext
    <2>3. RunnerInv' /\ BurstInv'
      BY <2>1, <2>2, RunnerInvNext, BurstInvNext
    <2>4. QED
      BY <1>1, <1>3, <2>3 DEF FlowInv
  <1>4. QED
    BY <1>2, <1>3

(* The same for the flows that validate a running service, scenarios      *)
(* included: the devices of a flow meet at one address, are released and   *)
(* revoked, and their events, positions and requests are dated ahead, and  *)
(* no two of them are served on one binding.                               *)
THEOREM FlowsServeOnePerBinding == FlowSpec => [](BindingServesOne /\ OwnEvidence /\ BurstRefused)
  <1>1. ASSUME BindingsOwned PROVE OneDevicePerBinding
    BY <1>1 DEF BindingsOwned, OneDevicePerBinding, Served, InForce, Reaches
  <1>2. FlowInv => BindingServesOne
    BY <1>1 DEF FlowInv, FlowOK, RunnerInv, ServiceOK, BindingServesOne
  <1>3. FlowInv => OwnEvidence
    <2> SUFFICES ASSUME FlowInv PROVE OwnEvidence
      OBVIOUS
    <2>1. CASE FlowRun
      <3>1. \A d \in Members : d \in Devices /\ \A dom \in Domains : AddressOf(d, dom) \in Addresses
        BY RunMeans DEF FlowInv, OutlineOK
      <3>2. QED
        BY <2>1, <3>1 DEF FlowInv, FlowOK, OwnEvidence
    <2>2. CASE ~FlowRun
      BY <2>2 DEF FlowInv, RunnerInv, EvidenceOK
    <2>3. QED
      BY <2>1, <2>2
  <1>4. FlowInv => BurstRefused
    BY DEF FlowInv, FlowOK, BurstInv, BurstRefused
  <1>5. QED
    BY <1>2, <1>3, <1>4, FlowInvInit, FlowInvNext, PTL DEF FlowSpec
=============================================================================
