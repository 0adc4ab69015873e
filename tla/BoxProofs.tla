----------------------------- MODULE BoxProofs -----------------------------
(***************************************************************************)
(* Proofs about Box, for any invites, configurations and bounds on what    *)
(* may fail.                                                               *)
(***************************************************************************)
EXTENDS Box, FiniteSetTheorems, SequenceTheorems, TLAPS

\* Who runs the enrollment, and where: run() waits in it, or a claim runs next
\* to the tasks.  A claim that is no longer awaited has its machine on disk:
\* claim_submit refuses whoever comes then.
Before == {"key", "keyWrite", "begin", "poll", "info", "tunnelOpen", "tunnelWrite"}
After == {"tokenOpen", "tokenWrite", "done"}
EnrollInv ==
  /\ en.at = "none" => en.by = "none" /\ en = NoEnroll
  /\ en.at # "none" => en.by # "none" /\ en.code \in Codes
  /\ en.by = "boot" => pc = "enroll"
  /\ en.by = "claim" => pc = "running" /\ (claim = "awaiting" \/ en.at \in After)
  /\ pc # "running" => fwd = "none" /\ dash = "none"
  /\ en.at \in Before => ~Persisted
  /\ en.at \in After => Persisted
  /\ ~overlap

\* The key is on disk before the edge hears of it; only a power loss takes it back,
\* and ends the enrollment with it.
KeyInv ==
  /\ en.at \notin {"none", "key", "keyWrite"} => keyFile = "key"
  /\ KnownKeyIsStored

\* How far bring_up_wg0 has come.
WgInv ==
  /\ pc \in ToSet(WgSteps) \cup {"tunnelKey", "tunnelKeyWrite"} => tun # None
  /\ pc \in {"key", "peer", "addr", "up"} => wg0.link
  /\ pc \in {"peer", "addr", "up"} => wg0.key
  /\ pc \in {"addr", "up"} => wg0.peer
  /\ pc = "up" => tun \in wg0.addrs
  /\ pc = "start" /\ tun # None => wg0.link /\ wg0.key /\ wg0.peer /\ wg0.up /\ tun \in wg0.addrs
  /\ TunnelIsUp

\* An invite makes one machine, when it is approved, and until then nothing is
\* said of that machine anywhere.
Known(m) ==
  \/ m \in ToSet(machines) \/ m = en.got.mach \/ m = tunnelFile
  \/ \E d \in Codes : delivery[d].mach = m
MachineInv ==
  /\ \A c \in Codes : invite[c] \in {"dormant", "waiting", "denied"} =>
       ~Known(c) /\ delivery[c] = Nothing
  /\ \A i, j \in DOMAIN machines : machines[i] = machines[j] => i = j
  /\ \A c \in Codes : delivery[c] # Nothing => delivery[c].mach \in Codes

\* What the box is told, and what it then writes, is what the edge accepts.
Accepted(d) == d.mach \in ToSet(machines) => hash[d.mach] = d.token
GotInv ==
  /\ en.at = "poll" /\ delivery[en.code] # Nothing => Accepted(delivery[en.code])
  /\ en.at \in {"info", "tunnelOpen", "tunnelWrite"} \cup After =>
       en.got.mach \in Codes /\ Accepted(en.got)
  /\ en.at \in After => tunnelFile = en.got.mach
  /\ "tunnel" \notin cut /\ ~Persisted => tokenFile = 0
  /\ TokenIsCurrent

IInv == TypeOK /\ EnrollInv /\ KeyInv /\ WgInv /\ MachineInv /\ GotInv

-----------------------------------------------------------------------------
(***************************************************************************)
(* Types.                                                                  *)
(***************************************************************************)
LEMMA Numbers == MaxPolls \in Nat /\ MaxFaults \in Nat /\ MaxTokens \in Nat
  BY Bounds

\* The steps of Next, one action each.
LEMMA Steps ==
  ASSUME [Next]_vars
  PROVE  \/ Restart \/ Start \/ Crash \/ PowerLoss \/ Check \/ Resolve \/ TunnelKey \/ TunnelKeyWrite
         \/ Serve \/ (\E i \in 1..5 : BringUp(i))
         \/ EnrollKey \/ EnrollKeyWrite \/ Begin \/ Poll \/ EdgeInfo \/ Persist
         \/ Enrolled \/ Reexec
         \/ ForwarderBind \/ DashboardBind \/ Signal \/ Drain \/ Leave
         \/ (\E c \in Codes : Approve(c) \/ Refuse(c) \/ Delete(c) \/ ExpireDelivery(c))
         \/ (\E c \in Codes \cup {"bad"} : ClaimSubmit(c))
         \/ UNCHANGED vars
  <1>1. DOMAIN WgSteps = 1..5
    BY DEF WgSteps
  <1> QED
    BY <1>1 DEF Next, BootStep, EnrollStep

\* A union is no larger than its parts together.
LEMMA UnionBound ==
  ASSUME NEW S, NEW T, IsFiniteSet(S), IsFiniteSet(T)
  PROVE  IsFiniteSet(S \cup T) /\ Cardinality(S \cup T) <= Cardinality(S) + Cardinality(T)
  <1>1. IsFiniteSet(S \cap T)
    BY FS_Subset
  <1>2. Cardinality(S \cap T) \in Nat /\ Cardinality(S) \in Nat /\ Cardinality(T) \in Nat
    BY <1>1, FS_CardinalityType
  <1>3. /\ IsFiniteSet(S \cup T)
        /\ Cardinality(S \cup T) = Cardinality(S) + Cardinality(T) - Cardinality(S \cap T)
    BY FS_Union
  <1> QED
    BY <1>2, <1>3

\* The tokens somebody holds; one of MaxTokens names is free.
InUse == {tokenFile, en.got.token} \cup Range(hash) \cup {d.token : d \in Range(delivery)}
\* There is always a device token that no record, delivery or file has.
LEMMA TokenFree ==
  ASSUME TypeOK
  PROVE  FreshToken \in 1..MaxTokens /\ FreshToken \notin InUse
  <1>1. ASSUME NEW f \in [Codes -> 0..MaxTokens]
        PROVE  IsFiniteSet({f[c] : c \in Codes})
               /\ Cardinality({f[c] : c \in Codes}) <= Cardinality(Codes)
    <2>1. f \in Surjection(Codes, {f[c] : c \in Codes})
      BY DEF Surjection
    <2> QED
      BY <2>1, FS_Surjection, EnoughTokens
  <1> DEFINE A == {tokenFile, en.got.token}
             B == {hash[c] : c \in Codes}
             D == {delivery[c].token : c \in Codes}
             h == [c \in Codes |-> delivery[c].token]
  <1>2. IsFiniteSet(A) /\ Cardinality(A) <= 2
    <2>1. A = {tokenFile} \cup {en.got.token}
      OBVIOUS
    <2>2. /\ IsFiniteSet({tokenFile}) /\ Cardinality({tokenFile}) = 1
          /\ IsFiniteSet({en.got.token}) /\ Cardinality({en.got.token}) = 1
      BY FS_Singleton
    <2>3. IsFiniteSet(A) /\ Cardinality(A) <= Cardinality({tokenFile}) + Cardinality({en.got.token})
      BY <2>1, <2>2, UnionBound
    <2> QED
      BY <2>2, <2>3
  <1>3. IsFiniteSet(B) /\ Cardinality(B) <= Cardinality(Codes)
    BY <1>1 DEF TypeOK
  <1>4. IsFiniteSet(D) /\ Cardinality(D) <= Cardinality(Codes)
    <2>1. h \in [Codes -> 0..MaxTokens]
      BY DEF TypeOK, Delivery
    <2>2. D = {h[c] : c \in Codes}
      OBVIOUS
    <2> QED
      BY <1>1, <2>1, <2>2
  <1>5. InUse = (A \cup B) \cup D
    BY DEF InUse, TypeOK, Range
  <1> HIDE DEF A, B, D, h
  <1>7. IsFiniteSet(A \cup B) /\ Cardinality(A \cup B) <= Cardinality(A) + Cardinality(B)
    BY <1>2, <1>3, UnionBound
  <1>8. IsFiniteSet(InUse) /\ Cardinality(InUse) <= Cardinality(A \cup B) + Cardinality(D)
    BY <1>4, <1>5, <1>7, UnionBound
  <1>9. /\ Cardinality(Codes) \in Nat /\ Cardinality(A) \in Nat /\ Cardinality(B) \in Nat
        /\ Cardinality(D) \in Nat /\ Cardinality(A \cup B) \in Nat /\ Cardinality(InUse) \in Nat
    BY <1>2, <1>3, <1>4, <1>7, <1>8, FS_CardinalityType, EnoughTokens
  <1>10. Cardinality(InUse) < MaxTokens
    BY <1>2, <1>3, <1>4, <1>7, <1>8, <1>9, EnoughTokens, Numbers
  <1>11. Cardinality(1..MaxTokens) = MaxTokens
    <2>1. MaxTokens \in Int /\ 1 \in Int /\ MaxTokens >= 1
      BY <1>9, <1>10, Numbers
    <2>2. Cardinality(1..MaxTokens) = IF 1 > MaxTokens THEN 0 ELSE MaxTokens - 1 + 1
      BY <2>1, FS_Interval
    <2> QED
      BY <2>1, <2>2
  <1>12. ASSUME 1..MaxTokens \subseteq InUse PROVE FALSE
    <2>1. Cardinality(1..MaxTokens) <= Cardinality(InUse)
      BY <1>8, <1>12, FS_Subset
    <2> QED
      BY <1>9, <1>10, <1>11, <2>1, Numbers
  <1>13. \E t \in 1..MaxTokens : t \notin InUse
    BY <1>12
  <1> QED
    BY <1>13 DEF FreshToken, InUse

\* The enrollments and the sequences the steps build are well typed.
EnrollRecord == [by : {"none", "boot", "claim"}, at : EnrollPoints,
                 code : Codes \cup {None}, polls : 0..MaxPolls, got : Delivery]
\* The records that name a delivery, an enrollment and the interface are typed.
LEMMA Records ==
  /\ Nothing \in Delivery /\ NoEnroll \in EnrollRecord
  /\ NoWg0 \in [link : BOOLEAN, key : BOOLEAN, peer : BOOLEAN, addrs : SUBSET Ips, up : BOOLEAN]
  /\ \A by \in {"boot", "claim"}, c \in Codes : Enroll(by, c) \in EnrollRecord
  /\ \A e \in EnrollRecord, p \in EnrollPoints : [e EXCEPT !.at = p] \in EnrollRecord
  <1>1. Nothing \in Delivery
    BY Numbers DEF Nothing, Delivery
  <1>2. NoEnroll \in EnrollRecord
    BY <1>1, Numbers DEF NoEnroll, EnrollRecord, EnrollPoints
  <1>3. NoWg0 \in [link : BOOLEAN, key : BOOLEAN, peer : BOOLEAN, addrs : SUBSET Ips, up : BOOLEAN]
    BY DEF NoWg0
  <1>4. \A by \in {"boot", "claim"}, c \in Codes : Enroll(by, c) \in EnrollRecord
    <2>1. \A e \in EnrollRecord, by \in {"boot", "claim"} : [e EXCEPT !.by = by] \in EnrollRecord
      BY DEF EnrollRecord
    <2>2. \A e \in EnrollRecord : [e EXCEPT !.at = "key"] \in EnrollRecord
      BY DEF EnrollRecord, EnrollPoints
    <2>3. \A e \in EnrollRecord, c \in Codes : [e EXCEPT !.code = c] \in EnrollRecord
      BY DEF EnrollRecord
    <2>4. \A e \in EnrollRecord : [e EXCEPT !.polls = MaxPolls] \in EnrollRecord
      BY Numbers DEF EnrollRecord
    <2> QED
      BY <1>2, <2>1, <2>2, <2>3, <2>4 DEF Enroll
  <1>5. \A e \in EnrollRecord, p \in EnrollPoints : [e EXCEPT !.at = p] \in EnrollRecord
    BY DEF EnrollRecord
  <1> QED
    BY <1>1, <1>2, <1>3, <1>4, <1>5

\* A sequence without its i-th element.
LEMMA RemoveAtProperties ==
  ASSUME NEW S, NEW s \in Seq(S), NEW i \in DOMAIN s
  PROVE  /\ RemoveAt(s, i) \in Seq(S)
         /\ Len(RemoveAt(s, i)) = Len(s) - 1
         /\ \A j \in 1..(Len(s) - 1) : RemoveAt(s, i)[j] = IF j < i THEN s[j] ELSE s[j + 1]
  <1> DEFINE a == SubSeq(s, 1, i - 1)
             b == SubSeq(s, i + 1, Len(s))
  <1>1. Len(s) \in Nat /\ i \in 1..Len(s) /\ \A j \in 1..Len(s) : s[j] \in S
    OBVIOUS
  <1>2. a \in Seq(S) /\ Len(a) = i - 1 /\ \A j \in 1..(i - 1) : a[j] = s[j]
    <2>1. \A j \in 1..(i - 1) : s[j] \in S
      BY <1>1
    <2>2. /\ a \in Seq(S) /\ Len(a) = IF 1 <= i - 1 THEN (i - 1) - 1 + 1 ELSE 0
          /\ \A j \in 1..((i - 1) - 1 + 1) : a[j] = s[1 + j - 1]
      BY <1>1, <2>1, SubSeqProperties
    <2> QED
      BY <1>1, <2>2
  <1>3. b \in Seq(S) /\ Len(b) = Len(s) - i /\ \A j \in 1..(Len(s) - i) : b[j] = s[i + j]
    <2>1. \A j \in (i + 1)..Len(s) : s[j] \in S
      BY <1>1
    <2>2. /\ b \in Seq(S) /\ Len(b) = IF i + 1 <= Len(s) THEN Len(s) - (i + 1) + 1 ELSE 0
          /\ \A j \in 1..(Len(s) - (i + 1) + 1) : b[j] = s[(i + 1) + j - 1]
      BY <1>1, <2>1, SubSeqProperties
    <2> QED
      BY <1>1, <2>2
  <1>4. RemoveAt(s, i) = a \o b
    BY DEF RemoveAt
  <1> HIDE DEF a, b
  <1>5. /\ a \o b \in Seq(S) /\ Len(a \o b) = Len(a) + Len(b)
        /\ \A j \in 1..(Len(a) + Len(b)) : (a \o b)[j] = IF j <= Len(a) THEN a[j] ELSE b[j - Len(a)]
    BY <1>2, <1>3, ConcatProperties
  <1>6. Len(a) + Len(b) = Len(s) - 1
    BY <1>1, <1>2, <1>3
  <1>7. ASSUME NEW j \in 1..(Len(s) - 1)
        PROVE  (a \o b)[j] = IF j < i THEN s[j] ELSE s[j + 1]
    <2>1. (a \o b)[j] = IF j <= Len(a) THEN a[j] ELSE b[j - Len(a)]
      BY <1>5, <1>6
    <2>2. CASE j < i
      BY <1>1, <1>2, <2>1, <2>2
    <2>3. CASE j >= i
      <3>1. j - Len(a) \in 1..(Len(s) - i) /\ i + (j - Len(a)) = j + 1 /\ ~(j <= Len(a))
        BY <1>1, <1>2, <2>3
      <3>2. b[j - Len(a)] = s[i + (j - Len(a))]
        BY <1>3, <3>1
      <3>3. (a \o b)[j] = s[j + 1]
        BY <2>1, <3>1, <3>2
      <3>4. ~(j < i)
        BY <1>1, <2>3
      <3> QED
        BY <3>3, <3>4
    <2>4. j < i \/ j >= i
      BY <1>1
    <2> QED
      BY <2>2, <2>3, <2>4
  <1> QED
    BY <1>4, <1>5, <1>6, <1>7

\* Deleting a machine that occurs once removes it and nothing else.
LEMMA Deleted ==
  ASSUME TypeOK, NEW c \in Codes, Delete(c),
         \A i, j \in DOMAIN machines : machines[i] = machines[j] => i = j
  PROVE  /\ machines' \in Seq(Codes)
         /\ ToSet(machines') \subseteq ToSet(machines) \ {c}
         /\ \A i, j \in DOMAIN machines' : machines'[i] = machines'[j] => i = j
  <1>1. PICK i \in DOMAIN machines : machines[i] = c /\ machines' = RemoveAt(machines, i)
    BY DEF Delete
  <1>2. machines \in Seq(Codes) /\ Len(machines) \in Nat /\ i \in 1..Len(machines)
        /\ DOMAIN machines = 1..Len(machines)
    BY <1>1 DEF TypeOK
  <1>3. /\ machines' \in Seq(Codes) /\ Len(machines') = Len(machines) - 1
        /\ \A j \in 1..(Len(machines) - 1) :
             machines'[j] = IF j < i THEN machines[j] ELSE machines[j + 1]
    BY <1>1, <1>2, RemoveAtProperties
  <1>4. DOMAIN machines' = 1..(Len(machines) - 1)
    BY <1>3
  <1>5. ASSUME NEW j \in DOMAIN machines'
        PROVE  \E k \in DOMAIN machines : k # i /\ machines'[j] = machines[k]
                                          /\ k = IF j < i THEN j ELSE j + 1
    BY <1>2, <1>3, <1>4
  <1>6. ToSet(machines') \subseteq ToSet(machines) \ {c}
    BY <1>1, <1>5 DEF ToSet
  <1>7. ASSUME NEW j \in DOMAIN machines', NEW k \in DOMAIN machines', machines'[j] = machines'[k]
        PROVE  j = k
    BY <1>2, <1>4, <1>5, <1>7
  <1> QED
    BY <1>3, <1>6, <1>7

\* The types, in three parts: the process, its enrollment, the edge.
Points == {"halted", "failed", "check", "resolve", "enroll", "tunnelKey",
           "tunnelKeyWrite", "start", "running", "link", "key", "peer", "addr", "up"}
ProcessTypes ==
  /\ cfg \in Configs
  /\ keyFile \in {"absent", "empty", "key"}
  /\ tunnelFile \in Codes \cup {None, "torn"}
  /\ pc \in Points
  /\ tun \in Ips \cup {None}
  /\ claim \in {"unclaimed", "awaiting", "failed"}
  /\ fwd \in {"none", "binding", "serving", "failed", "drained"}
  /\ dash \in {"none", "binding", "serving", "failed", "closed"}
  /\ stop \in BOOLEAN /\ overlap \in BOOLEAN
  /\ wg0 \in [link : BOOLEAN, key : BOOLEAN, peer : BOOLEAN, addrs : SUBSET Ips, up : BOOLEAN]
TokenTypes ==
  /\ tokenFile \in 0..MaxTokens
  /\ en \in EnrollRecord
  /\ hash \in [Codes -> 0..MaxTokens]
  /\ delivery \in [Codes -> Delivery]
EdgeTypes ==
  /\ invite \in [Codes -> {"none", "dormant", "waiting", "approved", "denied"}]
  /\ machines \in Seq(Codes)
  /\ pubkey \in [Codes -> {"none", "box", "lost"}]
  /\ unsynced \subseteq Files /\ cut \subseteq Files
  /\ faults \in 0..MaxFaults

\* The commands of bring_up_wg0, as a set.
LEMMA WgPoints == ToSet(WgSteps) = {"link", "key", "peer", "addr", "up"}
  <1>1. DOMAIN WgSteps = 1..5
    BY DEF WgSteps
  <1>2. /\ WgSteps[1] = "link" /\ WgSteps[2] = "key" /\ WgSteps[3] = "peer"
        /\ WgSteps[4] = "addr" /\ WgSteps[5] = "up"
    BY DEF WgSteps
  <1>3. 1..5 = {1, 2, 3, 4, 5}
    OBVIOUS
  <1> QED
    BY <1>1, <1>2, <1>3 DEF ToSet

\* The types, split by who holds the variables.
LEMMA TypeParts == TypeOK <=> ProcessTypes /\ TokenTypes /\ EdgeTypes
  <1>2. {"halted", "failed", "check", "resolve", "enroll", "tunnelKey",
         "tunnelKeyWrite", "start", "running"} \cup ToSet(WgSteps) = Points
    BY WgPoints DEF Points
  <1> QED
    BY <1>2 DEF TypeOK, ProcessTypes, TokenTypes, EdgeTypes, EnrollRecord

\* The count of what has failed stays within its bound.
LEMMA Counters ==
  ASSUME EdgeTypes
  PROVE  Fault => faults' \in 0..MaxFaults
  BY Numbers DEF EdgeTypes, Fault

\* The types of tokens: what the edge stores, what it sends and what the box keeps.
LEMMA StepTokenTypes ==
  ASSUME TypeOK, EnrollInv, [Next]_vars
  PROVE  TokenTypes'
  <1>0. TokenTypes /\ FreshToken \in 0..MaxTokens /\ en.got.token \in 0..MaxTokens
    BY TypeParts, TokenFree, Numbers DEF TokenTypes, EnrollRecord, Delivery
  <1>1. ASSUME en' \in EnrollRecord, UNCHANGED <<hash, delivery, tokenFile>> PROVE TokenTypes'
    BY <1>0, <1>1 DEF TokenTypes
  <1>2. Fresh("failed") \/ Fresh("halted") \/ Fresh("check") => en' \in EnrollRecord
    BY Records DEF Fresh
  <1>3. EnrollFails => en' \in EnrollRecord
    BY <1>2, Records DEF EnrollFails, Exit
  <1>4. \A p \in EnrollPoints : EnrollAt(p) => en' \in EnrollRecord
    BY <1>0, Records DEF EnrollAt, TokenTypes
  <1>5. ASSUME Restart \/ Start \/ Crash \/ Check \/ Leave PROVE TokenTypes'
    BY <1>0, <1>1, <1>2, <1>5 DEF Restart, Start, Crash, Check, Leave, Exit, files, edge, TokenTypes
  <1>17. ASSUME PowerLoss PROVE TokenTypes'
    <2>1. en' \in EnrollRecord /\ UNCHANGED <<hash, delivery>> /\ tokenFile' \in {0, tokenFile}
      BY <1>2, <1>17 DEF PowerLoss
    <2> QED
      BY <1>0, <2>1, Numbers DEF TokenTypes
  <1>6. ASSUME Resolve PROVE TokenTypes'
    BY <1>0, <1>1, <1>2, <1>6, Records DEF Resolve, Exit, files, edge, TokenTypes
  <1>7. ASSUME TunnelKey \/ TunnelKeyWrite \/ Serve \/ (\E i \in 1..5 : BringUp(i))
        PROVE  TokenTypes'
    BY <1>0, <1>1, <1>2, <1>7 DEF TunnelKey, TunnelKeyWrite, Serve, BringUp, Exit, files, edge,
                                  TokenTypes
  <1>8. ASSUME EnrollKey \/ EnrollKeyWrite \/ EdgeInfo PROVE TokenTypes'
    BY <1>0, <1>1, <1>3, <1>4, <1>8 DEF EnrollKey, EnrollKeyWrite, EdgeInfo, CallFails, Answered,
                                        files, edge, EnrollPoints
  <1>9. ASSUME Begin PROVE TokenTypes'
    <2>1. en' \in EnrollRecord /\ UNCHANGED tokenFile
      BY <1>3, <1>4, <1>9 DEF Begin, CallFails, Answered, files, EnrollPoints
    <2>2. UNCHANGED <<hash, delivery>> \/ \E m \in Codes : Rearm(en.code, m)
      BY <1>9 DEF Begin, EdgeBegin, CallFails, edge
    <2>3. ASSUME NEW m \in Codes, Rearm(en.code, m)
          PROVE  hash' \in [Codes -> 0..MaxTokens] /\ delivery' \in [Codes -> Delivery]
      <3>2. [mach |-> m, token |-> FreshToken] \in Delivery
        BY <1>0 DEF Delivery
      <3> QED
        BY <1>0, <2>3, <3>2 DEF Rearm, TokenTypes
    <2> QED
      BY <1>0, <2>1, <2>2, <2>3 DEF TokenTypes
  <1>10. ASSUME Poll PROVE TokenTypes'
    <2>1. UNCHANGED <<tokenFile, hash>>
      BY <1>10 DEF Poll, CallFails, Answered, files, TakeDelivery, edge
    <2>2. delivery' \in [Codes -> Delivery]
      BY <1>0, <1>10, Records DEF Poll, CallFails, TakeDelivery, edge, TokenTypes
    <2>3. en' \in EnrollRecord
      <3>1. ASSUME en' = [en EXCEPT !.at = "info", !.got = delivery[en.code]],
                   delivery[en.code] # Nothing
            PROVE  en' \in EnrollRecord
        <4>1. delivery[en.code] \in Delivery
          BY <1>0, <1>10 DEF TokenTypes, Poll, EnrollInv
        <4>2. [en EXCEPT !.at = "info"] \in EnrollRecord
          BY <1>0, Records DEF TokenTypes, EnrollPoints
        <4>3. \A e \in EnrollRecord, d \in Delivery : [e EXCEPT !.got = d] \in EnrollRecord
          BY DEF EnrollRecord
        <4> QED
          BY <3>1, <4>1, <4>2, <4>3
      <3>2. ASSUME en' = [en EXCEPT !.polls = @ - 1], en.polls > 0 PROVE en' \in EnrollRecord
        BY <1>0, <3>2, Numbers DEF TokenTypes, EnrollRecord
      <3> QED
        BY <1>3, <1>10, <3>1, <3>2 DEF Poll, CallFails
    <2> QED
      BY <2>1, <2>2, <2>3, <1>0 DEF TokenTypes
  <1>11. ASSUME Persist PROVE TokenTypes'
    BY <1>0, <1>3, <1>4, <1>11, Numbers DEF Persist, edge, EnrollPoints, TokenTypes
  <1>12. ASSUME Enrolled \/ Reexec PROVE TokenTypes'
    BY <1>1, <1>2, <1>12, Records DEF Enrolled, Reexec, files, edge
  <1>13. ASSUME ForwarderBind \/ DashboardBind \/ Signal \/ Drain PROVE TokenTypes'
    BY <1>0, <1>1, <1>13 DEF ForwarderBind, DashboardBind, Signal, Drain, files, edge, TokenTypes
  <1>14. ASSUME NEW c \in Codes, Approve(c) \/ Refuse(c) \/ Delete(c) \/ ExpireDelivery(c)
         PROVE  TokenTypes'
    <2>1. UNCHANGED <<en, tokenFile>>
      BY <1>14 DEF Approve, Refuse, Delete, ExpireDelivery, files
    <2>2. [mach |-> c, token |-> FreshToken] \in Delivery
      BY <1>0 DEF Delivery
    <2>3. hash' \in [Codes -> 0..MaxTokens]
      BY <1>0, <1>14, Numbers DEF Approve, Refuse, Delete, ExpireDelivery, TakeDelivery, TokenTypes
    <2>4. delivery' \in [Codes -> Delivery]
      BY <1>0, <1>14, <2>2, Records
         DEF Approve, Refuse, Delete, ExpireDelivery, TakeDelivery, TokenTypes
    <2> QED
      BY <1>0, <2>1, <2>3, <2>4 DEF TokenTypes
  <1>15. ASSUME NEW c \in Codes \cup {"bad"}, ClaimSubmit(c) PROVE TokenTypes'
    BY <1>0, <1>1, <1>15, Records DEF ClaimSubmit, files, edge, TokenTypes
  <1>16. ASSUME UNCHANGED vars PROVE TokenTypes'
    BY <1>0, <1>1, <1>16 DEF vars, files, edge, TokenTypes
  <1> QED
    BY <1>5, <1>6, <1>7, <1>8, <1>9, <1>10, <1>11, <1>12, <1>13, <1>14, <1>15, <1>16,
       <1>17, Steps

\* The types of the edge's records and of the counters of failures.
LEMMA StepEdgeTypes ==
  ASSUME TypeOK, MachineInv, [Next]_vars
  PROVE  EdgeTypes'
  <1>0. EdgeTypes /\ machines \in Seq(Codes)
    BY TypeParts DEF EdgeTypes
  <1>1. ASSUME UNCHANGED edge, UNCHANGED disk \/ (\E f \in Files : Dirty(f)),
               UNCHANGED faults \/ Fault
        PROVE  EdgeTypes'
    BY <1>0, <1>1, Counters DEF EdgeTypes, edge, disk, Dirty
  <1>2. "key" \in Files /\ "tunnel" \in Files /\ "token" \in Files
    BY DEF Files
  <1>3. ASSUME \/ Restart \/ Start \/ Crash \/ Check \/ Resolve \/ TunnelKey \/ TunnelKeyWrite
               \/ EnrollKey \/ EnrollKeyWrite \/ Enrolled \/ Signal \/ Drain \/ Leave
               \/ \E c \in Codes \cup {"bad"} : ClaimSubmit(c)
        PROVE  EdgeTypes'
    BY <1>1, <1>2, <1>3 DEF Restart, Start, Crash, Check, Resolve, TunnelKey, TunnelKeyWrite,
                      EnrollKey, EnrollKeyWrite, Enrolled, Signal, Drain, Leave, ClaimSubmit
  <1>4. ASSUME Serve \/ (\E i \in 1..5 : BringUp(i)) \/ Persist \/ Reexec \/ ForwarderBind
               \/ DashboardBind
        PROVE  EdgeTypes'
    BY <1>1, <1>2, <1>4 DEF Serve, BringUp, Persist, Reexec, ForwarderBind, DashboardBind
  <1>5. ASSUME PowerLoss PROVE EdgeTypes'
    <2>1. faults' \in 0..MaxFaults /\ unsynced' = {} /\ UNCHANGED <<invite, machines>>
      BY <1>0, <1>5, Counters DEF PowerLoss
    <2>2. PICK gone \in SUBSET unsynced :
            /\ cut' = cut \cup gone
            /\ pubkey' = [c \in Codes |-> IF "key" \in gone /\ pubkey[c] = "box" THEN "lost"
                                         ELSE pubkey[c]]
      BY <1>5 DEF PowerLoss
    <2>3. pubkey' \in [Codes -> {"none", "box", "lost"}]
      BY <1>0, <2>2 DEF EdgeTypes
    <2> QED
      BY <1>0, <2>1, <2>2, <2>3 DEF EdgeTypes
  <1>6. ASSUME Begin \/ Poll \/ EdgeInfo PROVE EdgeTypes'
    <2>1. UNCHANGED <<machines, disk>> /\ faults' \in 0..MaxFaults
      BY <1>0, <1>6, Counters DEF Begin, Poll, EdgeInfo, EdgeBegin, Rearm, TakeDelivery, CallFails,
                                  Answered, edge, EdgeTypes
    <2>2. /\ invite' \in [Codes -> {"none", "dormant", "waiting", "approved", "denied"}]
          /\ pubkey' \in [Codes -> {"none", "box", "lost"}]
      BY <1>0, <1>6 DEF Begin, Poll, EdgeInfo, EdgeBegin, Rearm, TakeDelivery, CallFails,
                        Answered, edge, EdgeTypes
    <2> QED
      BY <1>0, <2>1, <2>2 DEF EdgeTypes, disk
  <1>7. ASSUME NEW c \in Codes, Approve(c) \/ Refuse(c) PROVE EdgeTypes'
    <2>1. Append(machines, c) \in Seq(Codes)
      BY <1>0
    <2> QED
      BY <1>0, <1>7, <2>1 DEF Approve, Refuse, EdgeTypes, disk
  <1>8. ASSUME NEW c \in Codes, Delete(c) PROVE EdgeTypes'
    <2>1. machines' \in Seq(Codes)
      BY <1>8, Deleted DEF MachineInv
    <2> QED
      BY <1>0, <1>8, <2>1 DEF Delete, EdgeTypes, disk
  <1>9. ASSUME NEW c \in Codes, ExpireDelivery(c) PROVE EdgeTypes'
    BY <1>0, <1>9, Counters DEF ExpireDelivery, TakeDelivery, EdgeTypes, disk
  <1>10. ASSUME UNCHANGED vars PROVE EdgeTypes'
    BY <1>1, <1>10 DEF vars
  <1> QED
    BY <1>3, <1>4, <1>5, <1>6, <1>7, <1>8, <1>9, <1>10, Steps

\* The types of the box's process, its files and its interface.
LEMMA StepProcessTypes ==
  ASSUME TypeOK, EnrollInv, WgInv, GotInv, [Next]_vars
  PROVE  ProcessTypes'
  <1>0. ProcessTypes
    BY TypeParts
  <1> DEFINE Own == <<pc, tun, claim, fwd, dash, stop>>
             OwnTypes == /\ pc \in Points /\ tun \in Ips \cup {None}
                         /\ claim \in {"unclaimed", "awaiting", "failed"}
                         /\ fwd \in {"none", "binding", "serving", "failed", "drained"}
                         /\ dash \in {"none", "binding", "serving", "failed", "closed"}
                         /\ stop \in BOOLEAN
             Rest == <<cfg, keyFile, tunnelFile, overlap, wg0>>
  <1>1. ASSUME OwnTypes', UNCHANGED Rest PROVE ProcessTypes'
    BY <1>0, <1>1 DEF ProcessTypes
  <1>2. \A p \in Points : Fresh(p) => OwnTypes'
    BY DEF Fresh
  <1>3. Exit => OwnTypes'
    BY <1>2 DEF Exit, Points
  <1>4. UNCHANGED Own => OwnTypes'
    BY <1>0 DEF ProcessTypes
  <1>5. EnrollFails => OwnTypes'
    BY <1>0, <1>3 DEF EnrollFails, ProcessTypes
  <1>6. \A p : EnrollAt(p) => OwnTypes'
    BY <1>4 DEF EnrollAt, tasks
  <1>7. ASSUME Restart \/ Start \/ Crash \/ Leave PROVE ProcessTypes'
    <2>1. OwnTypes'
      BY <1>2, <1>7 DEF Restart, Start, Crash, Leave, Points
    <2> QED
      BY <1>1, <1>7, <2>1 DEF Restart, Start, Crash, Leave, files
  <1>8. ASSUME PowerLoss PROVE ProcessTypes'
    <2>1. OwnTypes' /\ UNCHANGED <<cfg, overlap>> /\ wg0' = NoWg0
      BY <1>2, <1>8 DEF PowerLoss, Points
    <2>2. /\ keyFile' \in {"absent", "empty", "key"}
          /\ tunnelFile' \in Codes \cup {None, "torn"}
      BY <1>0, <1>8 DEF PowerLoss, ProcessTypes
    <2> QED
      BY <1>0, <2>1, <2>2, Records DEF ProcessTypes
  <1>9. ASSUME Check \/ Resolve PROVE ProcessTypes'
    <2>1. OwnTypes'
      BY <1>0, <1>3, <1>9 DEF Check, Resolve, ProcessTypes, Persisted, tasks, Points, Ips
    <2> QED
      BY <1>1, <1>9, <2>1 DEF Check, Resolve, files
  <1>10. ASSUME TunnelKey \/ TunnelKeyWrite PROVE ProcessTypes'
    <2>1. OwnTypes'
      BY <1>0, <1>3, <1>10 DEF TunnelKey, TunnelKeyWrite, ProcessTypes, tasks, Points
    <2> QED
      BY <1>0, <1>10, <2>1 DEF TunnelKey, TunnelKeyWrite, ProcessTypes
  <1>11. ASSUME NEW i \in 1..5, BringUp(i) PROVE ProcessTypes'
    <2>1. /\ WgSteps[1] = "link" /\ WgSteps[2] = "key" /\ WgSteps[3] = "peer"
          /\ WgSteps[4] = "addr" /\ WgSteps[5] = "up" /\ Len(WgSteps) = 5
      BY DEF WgSteps
    <2>2. (IF i = Len(WgSteps) THEN "start" ELSE WgSteps[i + 1]) \in Points
      BY <2>1 DEF Points
    <2>3. OwnTypes' /\ UNCHANGED <<cfg, keyFile, tunnelFile, overlap>>
      BY <1>0, <1>3, <1>11, <2>2 DEF BringUp, ProcessTypes, tasks, files
    <2>4. tun \in Ips /\ i \in {1, 2, 3, 4, 5}
      <3>1. i \in {1, 2, 3, 4, 5}
        OBVIOUS
      <3>2. pc \in ToSet(WgSteps)
        BY <1>11 DEF BringUp, ToSet, WgSteps
      <3> QED
        BY <1>0, <3>1, <3>2 DEF WgInv, ProcessTypes
    <2>5. Configured(wg0, WgSteps[i]) \in
             [link : BOOLEAN, key : BOOLEAN, peer : BOOLEAN, addrs : SUBSET Ips, up : BOOLEAN]
      <3>1. CASE i = 1 \/ i = 2 \/ i = 3
        BY <1>0, <2>1, <3>1 DEF Configured, ProcessTypes
      <3>2. CASE i = 4
        BY <1>0, <2>1, <2>4, <3>2 DEF Configured, ProcessTypes
      <3>3. CASE i = 5
        BY <1>0, <2>1, <3>3 DEF Configured, ProcessTypes
      <3> QED
        BY <2>4, <3>1, <3>2, <3>3
    <2> QED
      BY <1>0, <1>11, <2>3, <2>5 DEF BringUp, ProcessTypes
  <1>12. ASSUME Serve PROVE ProcessTypes'
    <2>1. OwnTypes'
      BY <1>0, <1>3, <1>12 DEF Serve, ProcessTypes, Points
    <2> QED
      BY <1>1, <1>12, <2>1 DEF Serve, files
  <1>13. ASSUME EnrollKey \/ EnrollKeyWrite PROVE ProcessTypes'
    <2>1. OwnTypes'
      BY <1>5, <1>6, <1>13 DEF EnrollKey, EnrollKeyWrite
    <2> QED
      BY <1>0, <1>13, <2>1 DEF EnrollKey, EnrollKeyWrite, ProcessTypes
  <1>14. ASSUME Begin \/ Poll \/ EdgeInfo PROVE ProcessTypes'
    <2>1. OwnTypes'
      BY <1>4, <1>5, <1>6, <1>14 DEF Begin, Poll, EdgeInfo, CallFails, tasks
    <2> QED
      BY <1>1, <1>14, <2>1 DEF Begin, Poll, EdgeInfo, CallFails, Answered, files
  <1>15. ASSUME Persist PROVE ProcessTypes'
    <2>1. OwnTypes'
      BY <1>5, <1>6, <1>15 DEF Persist
    <2>2. tunnelFile' \in Codes \cup {None, "torn"}
      BY <1>0, <1>15 DEF Persist, GotInv, ProcessTypes
    <2> QED
      BY <1>0, <1>15, <2>1, <2>2 DEF Persist, ProcessTypes
  <1>16. ASSUME Enrolled \/ Reexec PROVE ProcessTypes'
    <2>1. OwnTypes'
      BY <1>0, <1>2, <1>4, <1>16
         DEF Enrolled, Reexec, GotInv, After, Points, Ips, tasks, ProcessTypes
    <2> QED
      BY <1>1, <1>16, <2>1 DEF Enrolled, Reexec, files
  <1>17. ASSUME ForwarderBind \/ DashboardBind \/ Signal \/ Drain PROVE ProcessTypes'
    <2>1. UNCHANGED Rest
      BY <1>17 DEF ForwarderBind, DashboardBind, Signal, Drain, files
    <2>2. OwnTypes'
      BY <1>0, <1>17 DEF ForwarderBind, DashboardBind, Signal, Drain, ProcessTypes
    <2> QED
      BY <1>1, <2>1, <2>2
  <1>18. ASSUME NEW c \in Codes, Approve(c) \/ Refuse(c) \/ Delete(c) \/ ExpireDelivery(c)
         PROVE  ProcessTypes'
    BY <1>1, <1>4, <1>18 DEF Approve, Refuse, Delete, ExpireDelivery, files, tasks
  <1>19. ASSUME NEW c \in Codes \cup {"bad"}, ClaimSubmit(c) PROVE ProcessTypes'
    <2>1. OwnTypes' /\ UNCHANGED <<cfg, keyFile, tunnelFile, wg0>>
      BY <1>0, <1>19 DEF ClaimSubmit, files, ProcessTypes
    <2>2. overlap' \in BOOLEAN
      BY <1>0, <1>19 DEF ClaimSubmit, ProcessTypes
    <2> QED
      BY <1>0, <2>1, <2>2 DEF ProcessTypes
  <1>20. ASSUME UNCHANGED vars PROVE ProcessTypes'
    BY <1>1, <1>4, <1>20 DEF vars, files, tasks
  <1> HIDE DEF OwnTypes, Own, Rest
  <1> QED
    BY <1>7, <1>8, <1>9, <1>10, <1>11, <1>12, <1>13, <1>14, <1>15, <1>16, <1>17, <1>18, <1>19,
       <1>20, Steps

\* Every step keeps every type.
LEMMA StepTypes ==
  ASSUME TypeOK, EnrollInv, WgInv, MachineInv, GotInv, [Next]_vars
  PROVE  TypeOK'
  <1>1. ProcessTypes' /\ TokenTypes' /\ EdgeTypes'
    BY StepProcessTypes, StepTokenTypes, StepEdgeTypes
  <1>2. {"halted", "failed", "check", "resolve", "enroll", "tunnelKey",
         "tunnelKeyWrite", "start", "running"} \cup ToSet(WgSteps) = Points
    BY WgPoints DEF Points
  <1> QED
    BY <1>1, <1>2 DEF TypeOK, ProcessTypes, TokenTypes, EdgeTypes, EnrollRecord

-----------------------------------------------------------------------------
(***************************************************************************)
(* One enrollment at a time, and none that repeats one.                    *)
(***************************************************************************)

\* What an enrollment becomes: none, a later point of itself, or a new one.
LEMMA Enrollments ==
  ASSUME TypeOK
  PROVE  /\ NoEnroll.at = "none" /\ NoEnroll.by = "none" /\ NoEnroll.got = Nothing
         /\ \A p : LET e == [en EXCEPT !.at = p] IN
              e.at = p /\ e.by = en.by /\ e.code = en.code /\ e.got = en.got
         /\ \A by, c : LET e == Enroll(by, c) IN
              e.at = "key" /\ e.by = by /\ e.code = c /\ e.got = Nothing
  <1>1. en \in EnrollRecord
    BY TypeParts DEF TokenTypes
  <1>2. NoEnroll.at = "none" /\ NoEnroll.by = "none" /\ NoEnroll.got = Nothing
    BY DEF NoEnroll
  <1>3. ASSUME NEW p, NEW e, e = [en EXCEPT !.at = p]
        PROVE  e.at = p /\ e.by = en.by /\ e.code = en.code /\ e.got = en.got
    BY <1>1, <1>3 DEF EnrollRecord
  <1>4. ASSUME NEW by, NEW c, NEW e, e = Enroll(by, c)
        PROVE  e.at = "key" /\ e.by = by /\ e.code = c /\ e.got = Nothing
    BY <1>4 DEF Enroll, NoEnroll
  <1> QED
    BY <1>2, <1>3, <1>4

\* A step of the process as seen from the enrollment.
Restarts == \E p \in {"failed", "halted", "check"} :
  /\ pc' = p /\ en' = NoEnroll /\ claim' = "unclaimed" /\ fwd' = "none" /\ dash' = "none"
  /\ tun' = None
Advances(p) ==
  /\ en'.at = p /\ en'.by = en.by /\ en'.code = en.code
  /\ UNCHANGED <<pc, tun, claim, fwd, dash, stop>>
Fails ==
  \/ Restarts
  \/ en.by # "boot" /\ en' = NoEnroll /\ UNCHANGED <<pc, tun, fwd, dash, stop>>

\* The ways in which the process starts over and an enrollment ends or goes on.
LEMMA HowItGoes ==
  ASSUME TypeOK
  PROVE  /\ \A p \in {"failed", "halted", "check"} : Fresh(p) => Restarts
         /\ Exit => Restarts
         /\ EnrollFails => Fails
         /\ \A p : EnrollAt(p) => Advances(p) /\ en'.got = en.got
  <1>1. \A p \in {"failed", "halted", "check"} : Fresh(p) => Restarts
    BY DEF Fresh, Restarts, Points
  <1>2. Exit => Restarts
    BY <1>1 DEF Exit
  <1>3. EnrollFails => Fails
    BY <1>2 DEF EnrollFails, Fails
  <1>4. \A p : EnrollAt(p) => Advances(p) /\ en'.got = en.got
    BY Enrollments DEF EnrollAt, Advances, tasks
  <1> QED
    BY <1>1, <1>2, <1>3, <1>4

\* An enrollment is under way only where the process can run one.
LEMMA StepEnroll ==
  ASSUME TypeOK, EnrollInv, GotInv, [Next]_vars
  PROVE  EnrollInv'
  <1> DEFINE Points0 == {"none"} \cup Before \cup After
  <1>0. en.at \in Points0 /\ en.by \in {"none", "boot", "claim"} /\ NoEnroll.at = "none"
        /\ NoEnroll.by = "none"
    BY Enrollments, TypeParts DEF TokenTypes, EnrollRecord, EnrollPoints, Before, After
  <1>1. ASSUME Restarts, UNCHANGED overlap PROVE EnrollInv'
    BY <1>0, <1>1 DEF Restarts, EnrollInv, Before, After
  <1>2. ASSUME Fails, UNCHANGED overlap PROVE EnrollInv'
    BY <1>0, <1>1, <1>2 DEF Fails, EnrollInv, Before, After
  <1>3. ASSUME NEW p \in Before, Advances(p), en.at \in Before, UNCHANGED <<tunnelFile, overlap>>
        PROVE  EnrollInv'
    BY <1>3 DEF Advances, EnrollInv, Before, After, Persisted
  <1>4. ASSUME NEW p \in After, Advances(p), en.at \in After \/ en.at = "tunnelWrite",
               tunnelFile' \in Codes, UNCHANGED overlap
        PROVE  EnrollInv'
    BY <1>4 DEF Advances, EnrollInv, Before, After, Persisted
  <1>5. ASSUME UNCHANGED <<en, tunnelFile, overlap, pc, claim, fwd, dash>> PROVE EnrollInv'
    BY <1>5 DEF EnrollInv, Persisted
  <1>6. ASSUME pc \notin {"enroll", "running"}, en.by = "none" \/ en.at = "none",
               UNCHANGED <<en, overlap>>, fwd' = "none", dash' = "none"
        PROVE  EnrollInv'
    BY <1>0, <1>6 DEF EnrollInv, Before, After, NoEnroll
  <1>7. pc \notin {"enroll", "running"} => en.at = "none" /\ fwd = "none" /\ dash = "none"
    BY <1>0 DEF EnrollInv
  <1>8. ASSUME Restart \/ Start \/ Crash \/ PowerLoss \/ Leave PROVE EnrollInv'
    BY <1>1, <1>8, HowItGoes DEF Restart, Start, Crash, PowerLoss, Leave
  <1>9. ASSUME Check \/ TunnelKey \/ TunnelKeyWrite PROVE EnrollInv'
    <2>1. Restarts \/ UNCHANGED <<en, tasks>>
      BY <1>9, HowItGoes DEF Check, TunnelKey, TunnelKeyWrite
    <2>2. pc \notin {"enroll", "running"} /\ UNCHANGED overlap
      BY <1>9 DEF Check, TunnelKey, TunnelKeyWrite
    <2> QED
      BY <1>1, <1>6, <1>7, <2>1, <2>2 DEF tasks
  <1>10. ASSUME NEW i \in 1..5, BringUp(i) PROVE EnrollInv'
    <2>1. Restarts \/ UNCHANGED <<en, tasks>>
      BY <1>10, HowItGoes DEF BringUp
    <2>2. pc \in ToSet(WgSteps)
      BY <1>10 DEF BringUp, ToSet, WgSteps
    <2>3. pc \notin {"enroll", "running"} /\ UNCHANGED overlap
      BY <1>10, <2>2, WgPoints DEF BringUp
    <2> QED
      BY <1>1, <1>6, <1>7, <2>1, <2>3 DEF tasks
  <1>11. ASSUME Resolve PROVE EnrollInv'
    <2>1. pc = "resolve" /\ UNCHANGED <<overlap, tunnelFile>>
      BY <1>11 DEF Resolve, files
    <2>2. ASSUME ~Persisted, NEW c \in Codes, en' = Enroll("boot", c), pc' = "enroll",
                 UNCHANGED tasks
          PROVE  EnrollInv'
      <3>1. en'.at = "key" /\ en'.by = "boot" /\ en'.code = c
        BY <2>2, Enrollments
      <3> QED
        BY <1>7, <2>1, <2>2, <3>1 DEF EnrollInv, Before, After, tasks, Persisted
    <2>3. \/ Restarts
          \/ UNCHANGED <<en, tasks>>
          \/ ~Persisted /\ \E c \in Codes : en' = Enroll("boot", c) /\ pc' = "enroll" /\ UNCHANGED tasks
      BY <1>11, HowItGoes DEF Resolve
    <2> QED
      BY <1>1, <1>6, <1>7, <2>1, <2>2, <2>3 DEF tasks
  <1>12. ASSUME Serve PROVE EnrollInv'
    <2>1. CASE Exit
      BY <1>1, <1>12, <2>1, HowItGoes DEF Serve
    <2>2. CASE pc' = "running" /\ UNCHANGED en
      BY <1>7, <1>12, <2>2 DEF Serve, EnrollInv, Before, After, NoEnroll
    <2> QED
      BY <1>12, <2>1, <2>2 DEF Serve
  <1>13. ASSUME EnrollKey \/ EnrollKeyWrite \/ EdgeInfo PROVE EnrollInv'
    <2>1. UNCHANGED <<tunnelFile, overlap>> /\ en.at \in Before
      BY <1>13 DEF EnrollKey, EnrollKeyWrite, EdgeInfo, CallFails, Answered, files, Before
    <2>2. Fails \/ \E p \in Before : Advances(p)
      BY <1>13, HowItGoes DEF EnrollKey, EnrollKeyWrite, EdgeInfo, CallFails, Before
    <2> QED
      BY <1>2, <1>3, <2>1, <2>2
  <1>14. ASSUME Begin PROVE EnrollInv'
    <2>1. UNCHANGED <<tunnelFile, overlap>> /\ en.at \in Before
      BY <1>14 DEF Begin, CallFails, Answered, files, Before
    <2>2. Fails \/ \E p \in Before : Advances(p)
      BY <1>14, HowItGoes DEF Begin, CallFails, Before
    <2> QED
      BY <1>2, <1>3, <2>1, <2>2
  <1>15. ASSUME Poll PROVE EnrollInv'
    <2>1. UNCHANGED <<tunnelFile, overlap>> /\ en.at \in Before /\ en.at = "poll"
      BY <1>15 DEF Poll, CallFails, Answered, files, Before
    <2>2. Fails \/ \E p \in Before : Advances(p)
      <3>1. en \in EnrollRecord
        BY TypeParts DEF TokenTypes
      <3>2. ASSUME NEW d, en' = [en EXCEPT !.at = "info", !.got = d], UNCHANGED <<pc, tun, tasks>>
            PROVE  Advances("info")
        BY <3>1, <3>2 DEF Advances, EnrollRecord, tasks
      <3>3. ASSUME en' = [en EXCEPT !.polls = @ - 1], UNCHANGED <<pc, tun, tasks>>
            PROVE  Advances("poll")
        BY <2>1, <3>1, <3>3 DEF Advances, EnrollRecord, tasks
      <3> QED
        BY <1>15, <3>2, <3>3, HowItGoes DEF Poll, CallFails, Before
    <2> QED
      BY <1>2, <1>3, <2>1, <2>2
  <1>16. ASSUME Persist PROVE EnrollInv'
    <2>0. UNCHANGED overlap
      BY <1>16 DEF Persist
    <2>1. CASE en.at = "tunnelOpen" /\ tunnelFile' = "torn" /\ EnrollAt("tunnelWrite")
      BY <2>0, <2>1, HowItGoes, Distinct DEF Advances, EnrollInv, Before, After, Persisted
    <2>2. CASE en.at = "tunnelWrite" /\ tunnelFile' = en.got.mach /\ EnrollAt("tokenOpen")
      <3>1. en.got.mach \in Codes
        BY <2>2 DEF GotInv
      <3> QED
        BY <1>4, <2>0, <2>2, <3>1, HowItGoes DEF After
    <2>3. CASE en.at \in {"tokenOpen", "tokenWrite"} /\ UNCHANGED tunnelFile
               /\ (EnrollAt("tokenWrite") \/ EnrollAt("done"))
      <3>1. tunnelFile \in Codes
        BY <2>3 DEF EnrollInv, After, Persisted
      <3> QED
        BY <1>4, <2>0, <2>3, <3>1, HowItGoes DEF After
    <2>4. CASE EnrollFails
      BY <1>2, <2>0, <2>4, HowItGoes
    <2> QED
      BY <1>16, <2>1, <2>2, <2>3, <2>4 DEF Persist
  <1>17. ASSUME Enrolled PROVE EnrollInv'
    <2>1. pc = "enroll" /\ en' = NoEnroll /\ pc' = "tunnelKey" /\ UNCHANGED <<tasks, overlap>>
      BY <1>17 DEF Enrolled, EnrollInv
    <2> QED
      BY <1>0, <2>1 DEF EnrollInv, Before, After, tasks
  <1>18. ASSUME Reexec PROVE EnrollInv'
    <2>1. Fails /\ UNCHANGED overlap
      BY <1>18, HowItGoes DEF Reexec, Fails, tasks
    <2> QED
      BY <1>2, <2>1
  <1>19. ASSUME ForwarderBind \/ DashboardBind \/ Signal \/ Drain PROVE EnrollInv'
    <2>1. UNCHANGED <<en, tunnelFile, overlap, pc, claim>>
      BY <1>19 DEF ForwarderBind, DashboardBind, Signal, Drain, files
    <2>2. pc # "running" => UNCHANGED <<fwd, dash>>
      BY <1>19 DEF ForwarderBind, DashboardBind, Signal, Drain, EnrollInv
    <2> QED
      BY <2>1, <2>2 DEF EnrollInv, Persisted
  <1>20. ASSUME NEW c \in Codes, Approve(c) \/ Refuse(c) \/ Delete(c) \/ ExpireDelivery(c)
         PROVE  EnrollInv'
    BY <1>5, <1>20 DEF Approve, Refuse, Delete, ExpireDelivery, files, tasks
  <1>21. ASSUME NEW c \in Codes \cup {"bad"}, ClaimSubmit(c) PROVE EnrollInv'
    <2>1. pc = "running" /\ UNCHANGED <<tunnelFile, pc, fwd, dash>>
      BY <1>21 DEF ClaimSubmit, EnrollInv, files
    <2>2. CASE Persisted /\ UNCHANGED <<en, overlap>>
      BY <1>0, <2>1, <2>2 DEF EnrollInv, Persisted, Before, After
    <2>3. ~Persisted /\ claim # "awaiting" => en.at = "none"
      BY <1>0, <2>1 DEF EnrollInv
    <2>4. CASE ~Persisted /\ claim # "awaiting" /\ UNCHANGED <<en, overlap>>
      BY <2>1, <2>3, <2>4 DEF EnrollInv, Persisted, Before, After
    <2>5. CASE ~Persisted /\ claim # "awaiting" /\ c \in Codes /\ claim' = "awaiting"
               /\ en' = Enroll("claim", c) /\ overlap' = (overlap \/ en # NoEnroll)
      <3>1. en'.at = "key" /\ en'.by = "claim" /\ en'.code = c
        BY <2>5, Enrollments
      <3>2. ~overlap'
        BY <2>3, <2>5 DEF EnrollInv
      <3> QED
        BY <2>1, <2>5, <3>1, <3>2 DEF EnrollInv, Persisted, Before, After
    <2> QED
      BY <1>21, <2>2, <2>4, <2>5 DEF ClaimSubmit
  <1>22. ASSUME UNCHANGED vars PROVE EnrollInv'
    BY <1>5, <1>22 DEF vars, files, tasks
  <1> QED
    BY <1>8, <1>9, <1>10, <1>11, <1>12, <1>13, <1>14, <1>15, <1>16, <1>17, <1>18, <1>19, <1>20,
       <1>21, <1>22, Steps

-----------------------------------------------------------------------------
(***************************************************************************)
(* The key and the interface.                                              *)
(***************************************************************************)

\* What the edge sees of a step.
LEMMA EdgeSteps ==
  ASSUME [Next]_vars
  PROVE  \/ UNCHANGED edge
         \/ PowerLoss
         \/ \E c : TakeDelivery(c)
         \/ en.at = "begin" /\ EdgeBegin(en.code)
         \/ \E c \in Codes : Approve(c) \/ Refuse(c) \/ Delete(c)
  <1>1. CASE Begin
    BY <1>1 DEF Begin, CallFails
  <1>2. CASE Poll \/ EdgeInfo
    BY <1>2 DEF Poll, EdgeInfo, CallFails
  <1>3. CASE \E c \in Codes : Approve(c) \/ Refuse(c) \/ Delete(c) \/ ExpireDelivery(c)
    BY <1>3 DEF ExpireDelivery
  <1>4. CASE Restart \/ Start \/ Crash \/ Check \/ Resolve \/ TunnelKey \/ TunnelKeyWrite \/ Serve
    BY <1>4 DEF Restart, Start, Crash, Check, Resolve, TunnelKey, TunnelKeyWrite, Serve
  <1>5. CASE \E i \in 1..5 : BringUp(i)
    BY <1>5 DEF BringUp
  <1>6. CASE EnrollKey \/ EnrollKeyWrite \/ Persist \/ Enrolled \/ Reexec
    BY <1>6 DEF EnrollKey, EnrollKeyWrite, Persist, Enrolled, Reexec
  <1>7. CASE ForwarderBind \/ DashboardBind \/ Signal \/ Drain \/ Leave
    BY <1>7 DEF ForwarderBind, DashboardBind, Signal, Drain, Leave
  <1>8. CASE \E c \in Codes \cup {"bad"} : ClaimSubmit(c)
    BY <1>8 DEF ClaimSubmit
  <1>9. CASE UNCHANGED vars
    BY <1>9 DEF vars
  <1> QED
    BY <1>1, <1>2, <1>3, <1>4, <1>5, <1>6, <1>7, <1>8, <1>9, Steps

\* Nothing but a power loss takes a key from the disk, or a file at all; what it has
\* taken is not forgotten.
LEMMA KeyStays ==
  ASSUME TypeOK, [Next]_vars, ~PowerLoss
  PROVE  /\ keyFile = "key" => keyFile' = "key"
         /\ UNCHANGED cut
  <1>1. CASE TunnelKey \/ TunnelKeyWrite \/ EnrollKey \/ EnrollKeyWrite
    BY <1>1 DEF TunnelKey, TunnelKeyWrite, EnrollKey, EnrollKeyWrite, disk, Dirty
  <1>2. CASE \/ Restart \/ Start \/ Crash \/ Check \/ Resolve \/ Serve \/ (\E i \in 1..5 : BringUp(i))
             \/ Enrolled \/ Reexec \/ Persist
             \/ ForwarderBind \/ DashboardBind \/ Signal \/ Drain \/ Leave
    BY <1>2 DEF Restart, Start, Crash, Check, Resolve, Serve, BringUp, Enrolled, Reexec, Persist,
                ForwarderBind, DashboardBind, Signal, Drain, Leave, files, disk, Dirty
  <1>3. CASE Begin \/ Poll \/ EdgeInfo
    BY <1>3 DEF Begin, Poll, EdgeInfo, CallFails, Answered, files, disk
  <1>4. CASE \/ \E c \in Codes : Approve(c) \/ Refuse(c) \/ Delete(c) \/ ExpireDelivery(c)
             \/ \E c \in Codes \cup {"bad"} : ClaimSubmit(c)
             \/ UNCHANGED vars
    BY <1>4 DEF Approve, Refuse, Delete, ExpireDelivery, ClaimSubmit, vars, files, disk
  <1> QED
    BY <1>1, <1>2, <1>3, <1>4, Steps

\* The edge hears of the key only from begin; the owner decides only on what
\* a box has begun.
LEMMA StepKey ==
  ASSUME TypeOK, KeyInv, EnrollInv, [Next]_vars
  PROVE  KeyInv'
  <1> DEFINE Early == {"none", "key", "keyWrite"}
             Live == {"waiting", "approved"}
  <1>1. NoEnroll.at \in Early
    BY DEF NoEnroll
  <1>2. Fails \/ Restarts => en'.at \in Early
    BY <1>1 DEF Fails, Restarts
  <1>3. CASE PowerLoss
    <2>1. en'.at \in Early
      BY <1>2, <1>3, HowItGoes DEF PowerLoss
    <2>2. ASSUME "key" \notin cut'
          PROVE  "key" \notin cut /\ UNCHANGED <<keyFile, pubkey, invite>>
      <3>1. PICK gone \in SUBSET unsynced :
              /\ keyFile' \in IF "key" \in gone THEN {"absent", "empty"} ELSE {keyFile}
              /\ cut' = cut \cup gone
              /\ pubkey' = [c \in Codes |-> IF "key" \in gone /\ pubkey[c] = "box" THEN "lost"
                                           ELSE pubkey[c]]
        BY <1>3 DEF PowerLoss
      <3>2. "key" \notin gone /\ "key" \notin cut
        BY <2>2, <3>1
      <3>3. pubkey' = pubkey
        BY <3>1, <3>2 DEF TypeOK
      <3> QED
        BY <1>3, <3>1, <3>2, <3>3 DEF PowerLoss
    <2> QED
      BY <2>1, <2>2 DEF KeyInv, KnownKeyIsStored
  <1>4. ASSUME ~PowerLoss PROVE KnownKeyIsStored'
    <2>0. /\ UNCHANGED cut /\ (keyFile = "key" => keyFile' = "key")
          /\ invite \in [Codes -> {"none", "dormant", "waiting", "approved", "denied"}]
          /\ pubkey \in [Codes -> {"none", "box", "lost"}]
      BY <1>4, KeyStays DEF TypeOK
    <2>1. ASSUME \A c \in Codes : invite'[c] \in Live =>
                   invite[c] \in Live /\ pubkey'[c] = pubkey[c]
          PROVE  KnownKeyIsStored'
      BY <2>0, <2>1 DEF KeyInv, KnownKeyIsStored
    <2>2. CASE UNCHANGED edge
      BY <2>1, <2>2 DEF edge
    <2>3. CASE \E c : TakeDelivery(c)
      BY <2>1, <2>3 DEF TakeDelivery
    <2>4. CASE en.at = "begin" /\ EdgeBegin(en.code)
      <3>1. keyFile' = "key"
        BY <2>0, <2>4 DEF KeyInv
      <3>2. \A c \in Codes : invite'[c] \in Live =>
              pubkey'[c] = "box" \/ (invite[c] \in Live /\ pubkey'[c] = pubkey[c])
        BY <2>0, <2>4 DEF EdgeBegin, Rearm
      <3> QED
        BY <2>0, <3>1, <3>2 DEF KeyInv, KnownKeyIsStored
    <2>5. CASE \E c \in Codes : Approve(c) \/ Refuse(c) \/ Delete(c)
      BY <2>0, <2>1, <2>5 DEF Approve, Refuse, Delete
    <2> QED
      BY <1>4, <2>2, <2>3, <2>4, <2>5, EdgeSteps
  <1>5. ASSUME ~PowerLoss PROVE en'.at \in Early \/ keyFile' = "key"
    <2>1. ASSUME keyFile # "key" PROVE en'.at \in Early \/ keyFile' = "key"
      <3>1. en.at \in Early
        BY <2>1 DEF KeyInv
      <3>2. CASE \/ Restart \/ Start \/ Crash \/ Check \/ TunnelKey \/ TunnelKeyWrite
                 \/ Serve \/ (\E i \in 1..5 : BringUp(i))
                 \/ ForwarderBind \/ DashboardBind \/ Signal \/ Drain \/ Leave
        <4>1. UNCHANGED en \/ Restarts
          BY <3>2, HowItGoes DEF Restart, Start, Crash, Check, TunnelKey, TunnelKeyWrite, Serve,
                      BringUp, ForwarderBind, DashboardBind, Signal, Drain, Leave
        <4> QED
          BY <1>2, <3>1, <4>1
      <3>3. CASE Resolve \/ \E c \in Codes \cup {"bad"} : ClaimSubmit(c)
        <4>1. UNCHANGED en \/ Restarts \/ \E by, c : en' = Enroll(by, c)
          BY <3>3, HowItGoes DEF Resolve, ClaimSubmit
        <4> QED
          BY <1>2, <3>1, <4>1, Enrollments
      <3>4. CASE EnrollKey \/ EnrollKeyWrite
        <4>1. Fails \/ Advances("keyWrite") \/ keyFile' = "key"
          BY <2>1, <3>4, HowItGoes DEF EnrollKey, EnrollKeyWrite
        <4> QED
          BY <1>2, <4>1 DEF Advances
      <3>5. ~(Begin \/ Poll \/ EdgeInfo \/ Persist \/ Enrolled \/ Reexec)
        BY <3>1 DEF Begin, Poll, EdgeInfo, Persist, Enrolled, Reexec
      <3>6. CASE \/ \E c \in Codes : Approve(c) \/ Refuse(c) \/ Delete(c) \/ ExpireDelivery(c)
                 \/ UNCHANGED vars
        <4>1. UNCHANGED en
          BY <3>6 DEF Approve, Refuse, Delete, ExpireDelivery, vars
        <4> QED
          BY <3>1, <4>1
      <3> QED
        BY <1>5, <3>2, <3>3, <3>4, <3>5, <3>6, Steps
    <2> QED
      BY <1>5, <2>1, KeyStays
  <1> QED
    BY <1>3, <1>4, <1>5 DEF KeyInv

\* No command of bring_up_wg0 is skipped, and nothing but a reboot, which ends
\* the process, undoes one.
LEMMA StepWg ==
  ASSUME TypeOK, EnrollInv, WgInv, GotInv, [Next]_vars
  PROVE  WgInv'
  <1>0. /\ ProcessTypes /\ ToSet(WgSteps) = {"link", "key", "peer", "addr", "up"}
        /\ None \notin Codes /\ Static # None
    BY TypeParts, WgPoints, Distinct
  <1>1. ASSUME Restarts PROVE WgInv'
    BY <1>0, <1>1 DEF Restarts, WgInv, TunnelIsUp, Ready
  <1>2. ASSUME UNCHANGED <<cfg, pc, tun, fwd, wg0>> PROVE WgInv'
    BY <1>2 DEF WgInv, TunnelIsUp, Ready
  <1>3. ASSUME UNCHANGED <<cfg, wg0>>, Fails \/ (\E p : Advances(p)) PROVE WgInv'
    BY <1>1, <1>2, <1>3 DEF Fails, Advances
  <1>4. ASSUME Restart \/ Start \/ Crash \/ PowerLoss \/ Leave PROVE WgInv'
    BY <1>1, <1>4, HowItGoes DEF Restart, Start, Crash, PowerLoss, Leave
  <1>5. ASSUME UNCHANGED <<cfg, fwd>>, fwd = "none", pc' \in {"resolve", "enroll"} PROVE WgInv'
    BY <1>0, <1>5 DEF WgInv, TunnelIsUp, Ready
  <1>6. ASSUME Check PROVE WgInv'
    <2>1. fwd = "none"
      BY <1>6 DEF Check, EnrollInv
    <2> QED
      BY <1>1, <1>5, <1>6, <2>1, HowItGoes DEF Check, tasks
  <1>7. ASSUME Resolve PROVE WgInv'
    <2>1. fwd = "none"
      BY <1>7 DEF Resolve, EnrollInv
    <2>2. CASE pc' = "enroll"
      BY <1>5, <1>7, <2>1, <2>2, HowItGoes, <1>1 DEF Resolve, tasks
    <2>3. CASE UNCHANGED <<cfg, fwd>> /\ pc' \in {"tunnelKey", "start"} /\ (pc' = "start" => tun' = None)
               /\ (pc' = "tunnelKey" => tun' # None)
      BY <1>0, <2>1, <2>3 DEF WgInv, TunnelIsUp, Ready
    <2>4. \/ Restarts
          \/ pc' = "enroll"
          \/ /\ UNCHANGED <<cfg, fwd>> /\ pc' \in {"tunnelKey", "start"}
             /\ (pc' = "start" => tun' = None) /\ (pc' = "tunnelKey" => tun' # None)
      BY <1>0, <1>7, HowItGoes DEF Resolve, tasks, Persisted
    <2> QED
      BY <1>1, <2>2, <2>3, <2>4
  <1>8. ASSUME TunnelKey \/ TunnelKeyWrite PROVE WgInv'
    <2>1. fwd = "none" /\ tun # None
      BY <1>8 DEF TunnelKey, TunnelKeyWrite, EnrollInv, WgInv
    <2>2. \/ Restarts
          \/ UNCHANGED <<cfg, fwd, tun>> /\ pc' \in {"link", "tunnelKeyWrite"}
      BY <1>8, HowItGoes DEF TunnelKey, TunnelKeyWrite, tasks
    <2> QED
      BY <1>0, <1>1, <2>1, <2>2 DEF WgInv, TunnelIsUp, Ready
  <1>9. ASSUME NEW i \in 1..5, BringUp(i) PROVE WgInv'
    <2>1. /\ WgSteps[1] = "link" /\ WgSteps[2] = "key" /\ WgSteps[3] = "peer"
          /\ WgSteps[4] = "addr" /\ WgSteps[5] = "up" /\ Len(WgSteps) = 5
          /\ i \in {1, 2, 3, 4, 5}
      BY DEF WgSteps
    <2>2. pc \in ToSet(WgSteps)
      BY <1>9 DEF BringUp, ToSet, WgSteps
    <2>3. fwd = "none" /\ tun # None
      BY <1>0, <2>2 DEF EnrollInv, WgInv
    <2>4. ASSUME UNCHANGED <<cfg, fwd, tun>>, wg0' = Configured(wg0, WgSteps[i]),
                 pc' = IF i = Len(WgSteps) THEN "start" ELSE WgSteps[i + 1]
          PROVE  WgInv'
      <3>0. wg0 \in [link : BOOLEAN, key : BOOLEAN, peer : BOOLEAN, addrs : SUBSET Ips, up : BOOLEAN]
            /\ pc = WgSteps[i]
        BY <1>0, <1>9 DEF ProcessTypes, BringUp
      <3>1. CASE i = 1
        <4>1. wg0'.link /\ pc' = "key"
          BY <2>1, <2>4, <3>0, <3>1 DEF Configured
        <4> QED
          BY <1>0, <2>3, <2>4, <4>1 DEF WgInv, TunnelIsUp, Ready
      <3>2. CASE i = 2
        <4>1. wg0'.link = wg0.link /\ wg0'.key /\ pc' = "peer" /\ wg0.link
          BY <2>1, <2>4, <3>0, <3>2 DEF Configured, WgInv
        <4> QED
          BY <1>0, <2>3, <2>4, <4>1 DEF WgInv, TunnelIsUp, Ready
      <3>3. CASE i = 3
        <4>1. /\ wg0'.link = wg0.link /\ wg0'.key = wg0.key /\ wg0'.peer
              /\ pc' = "addr" /\ wg0.link /\ wg0.key
          BY <2>1, <2>4, <3>0, <3>3 DEF Configured, WgInv
        <4> QED
          BY <1>0, <2>3, <2>4, <4>1 DEF WgInv, TunnelIsUp, Ready
      <3>4. CASE i = 4
        <4>1. /\ wg0'.link = wg0.link /\ wg0'.key = wg0.key /\ wg0'.peer = wg0.peer
              /\ wg0'.addrs = wg0.addrs \cup {tun}
              /\ pc' = "up" /\ wg0.link /\ wg0.key /\ wg0.peer
          BY <2>1, <2>4, <3>0, <3>4 DEF Configured, WgInv
        <4> QED
          BY <1>0, <2>3, <2>4, <4>1 DEF WgInv, TunnelIsUp, Ready
      <3>5. CASE i = 5
        <4>1. /\ wg0'.link = wg0.link /\ wg0'.key = wg0.key /\ wg0'.peer = wg0.peer
              /\ wg0'.addrs = wg0.addrs /\ wg0'.up /\ tun \in wg0.addrs
              /\ pc' = "start" /\ wg0.link /\ wg0.key /\ wg0.peer
          BY <2>1, <2>4, <3>0, <3>5 DEF Configured, WgInv
        <4> QED
          BY <1>0, <2>3, <2>4, <4>1 DEF WgInv, TunnelIsUp, Ready
      <3> QED
        BY <2>1, <3>1, <3>2, <3>3, <3>4, <3>5
    <2> QED
      BY <1>1, <1>9, <2>4, HowItGoes DEF BringUp, tasks
  <1>10. ASSUME Serve PROVE WgInv'
    <2>1. CASE Exit
      BY <1>1, <2>1, HowItGoes
    <2>2. CASE pc' = "running" /\ UNCHANGED tun
               /\ fwd' = IF Mode = "full" /\ cfg.forwards THEN "binding" ELSE "none"
      <3>1. pc = "start" /\ UNCHANGED <<cfg, wg0>>
        BY <1>10 DEF Serve
      <3> QED
        BY <1>0, <2>2, <3>1 DEF WgInv, TunnelIsUp, Ready, Mode
    <2> QED
      BY <1>10, <2>1, <2>2 DEF Serve
  <1>11. ASSUME EnrollKey \/ EnrollKeyWrite \/ EdgeInfo \/ Begin \/ Persist PROVE WgInv'
    <2>1. UNCHANGED <<cfg, wg0>>
      BY <1>11 DEF EnrollKey, EnrollKeyWrite, EdgeInfo, Begin, Persist, CallFails, Answered
    <2>2. Fails \/ \E p : Advances(p)
      BY <1>11, HowItGoes DEF EnrollKey, EnrollKeyWrite, EdgeInfo, Begin, Persist, CallFails
    <2> QED
      BY <1>3, <2>1, <2>2
  <1>12. ASSUME Poll PROVE WgInv'
    <2>1. UNCHANGED <<cfg, wg0>>
      BY <1>12 DEF Poll, CallFails, Answered
    <2>2. Fails \/ UNCHANGED <<pc, tun, fwd>>
      BY <1>12, HowItGoes DEF Poll, CallFails, tasks
    <2> QED
      BY <1>2, <1>3, <2>1, <2>2
  <1>13. ASSUME Enrolled PROVE WgInv'
    <2>1. pc = "enroll" /\ en.got.mach \in Codes
      BY <1>13 DEF Enrolled, EnrollInv, GotInv, After
    <2>2. pc' = "tunnelKey" /\ tun' # None /\ UNCHANGED <<cfg, fwd>> /\ fwd = "none"
      BY <1>0, <1>13, <2>1 DEF Enrolled, EnrollInv, tasks
    <2> QED
      BY <1>0, <2>2 DEF WgInv, TunnelIsUp, Ready
  <1>14. ASSUME Reexec PROVE WgInv'
    BY <1>1, <1>2, <1>14, HowItGoes DEF Reexec, tasks
  <1>15. ASSUME ForwarderBind PROVE WgInv'
    <2>1. fwd = "binding" /\ UNCHANGED <<cfg, pc, tun, wg0>>
      BY <1>15 DEF ForwarderBind
    <2> QED
      BY <2>1 DEF WgInv, TunnelIsUp, Ready
  <1>16. ASSUME DashboardBind \/ Signal PROVE WgInv'
    BY <1>2, <1>16 DEF DashboardBind, Signal
  <1>17. ASSUME Drain PROVE WgInv'
    <2>1. UNCHANGED <<cfg, pc, tun, wg0>> /\ (UNCHANGED fwd \/ fwd' \in {"failed", "drained"})
      BY <1>17 DEF Drain
    <2> QED
      BY <2>1 DEF WgInv, TunnelIsUp, Ready
  <1>18. ASSUME NEW c \in Codes, Approve(c) \/ Refuse(c) \/ Delete(c) \/ ExpireDelivery(c)
         PROVE  WgInv'
    BY <1>2, <1>18 DEF Approve, Refuse, Delete, ExpireDelivery, tasks
  <1>19. ASSUME NEW c \in Codes \cup {"bad"}, ClaimSubmit(c) PROVE WgInv'
    BY <1>2, <1>19 DEF ClaimSubmit
  <1>20. ASSUME UNCHANGED vars PROVE WgInv'
    BY <1>2, <1>20 DEF vars, tasks
  <1> QED
    BY <1>4, <1>6, <1>7, <1>8, <1>9, <1>10, <1>11, <1>12, <1>13, <1>14, <1>15, <1>16, <1>17,
       <1>18, <1>19, <1>20, Steps

-----------------------------------------------------------------------------
(***************************************************************************)
(* Machines and tokens.                                                    *)
(***************************************************************************)
\* A step of the process as seen from what it was told and what it stores: it
\* keeps it, drops it, asks, is answered, or writes it down.
Kept == UNCHANGED <<tunnelFile, tokenFile>>
Keeps == en'.at = en.at /\ en'.code = en.code /\ en'.got = en.got /\ Kept
Drops == en'.at \in {"none", "key", "keyWrite", "begin"} /\ en'.got \in {en.got, Nothing} /\ Kept
Asks ==
  /\ en.at = "begin" /\ EdgeBegin(en.code)
  /\ en'.at = "poll" /\ en'.code = en.code /\ en'.got = en.got /\ Kept
Receives ==
  /\ en.at = "poll" /\ delivery[en.code] # Nothing /\ TakeDelivery(en.code)
  /\ en'.at = "info" /\ en'.got = delivery[en.code] /\ Kept
Writes ==
  /\ UNCHANGED edge /\ en'.got = en.got
  /\ \/ en.at = "info" /\ en'.at = "tunnelOpen" /\ Kept
     \/ en.at = "tunnelOpen" /\ en'.at = "tunnelWrite" /\ tunnelFile' = "torn" /\ UNCHANGED tokenFile
     \/ en.at = "tunnelWrite" /\ en'.at = "tokenOpen" /\ tunnelFile' = en.got.mach /\ UNCHANGED tokenFile
     \/ en.at = "tokenOpen" /\ en'.at = "tokenWrite" /\ tokenFile' = 0 /\ UNCHANGED tunnelFile
     \/ en.at = "tokenWrite" /\ en'.at = "done" /\ tokenFile' = en.got.token /\ UNCHANGED tunnelFile

\* With the power goes what it was told, and files that it may have written.
Loses ==
  /\ PowerLoss /\ en'.at = "none" /\ en'.got = Nothing
  /\ tunnelFile' \in {tunnelFile, None, "torn"} /\ tokenFile' \in {tokenFile, 0}
  /\ cut \subseteq cut'
  /\ "tunnel" \notin cut' => UNCHANGED tunnelFile
  /\ UNCHANGED <<invite, machines, hash, delivery>>

\* What a step does to the enrollment and the files is one of six things.
LEMMA BoxSteps ==
  ASSUME TypeOK, [Next]_vars
  PROVE  ((Keeps \/ Drops \/ Asks \/ Receives \/ Writes) /\ UNCHANGED cut) \/ Loses
  <1>16. CASE PowerLoss
    <2>1. en'.at = "none" /\ en'.got = Nothing
      BY <1>16, Enrollments DEF PowerLoss, Fresh
    <2>2. PICK gone \in SUBSET unsynced :
            /\ tunnelFile' \in IF "tunnel" \in gone THEN {None, "torn"} ELSE {tunnelFile}
            /\ tokenFile' = IF "token" \in gone THEN 0 ELSE tokenFile
            /\ cut' = cut \cup gone
      BY <1>16 DEF PowerLoss
    <2>3. UNCHANGED <<invite, machines, hash, delivery>>
      BY <1>16 DEF PowerLoss
    <2> QED
      BY <1>16, <2>1, <2>2, <2>3 DEF Loses
  <1>17. SUFFICES ASSUME ~PowerLoss PROVE Keeps \/ Drops \/ Asks \/ Receives \/ Writes
    BY <1>16, KeyStays
  <1>0. /\ NoEnroll.at = "none" /\ NoEnroll.got = Nothing
        /\ \A by, c : Enroll(by, c).at = "key" /\ Enroll(by, c).got = Nothing
    BY Enrollments
  <1>1. ASSUME Restarts \/ Fails, Kept PROVE Drops
    BY <1>0, <1>1 DEF Restarts, Fails, Drops
  <1>2. ASSUME UNCHANGED en, Kept PROVE Keeps
    BY <1>2 DEF Keeps
  <1>3. CASE Restart \/ Start \/ Crash \/ Leave
    BY <1>1, <1>3, HowItGoes DEF Restart, Start, Crash, Leave, files, Kept
  <1>4. CASE Check \/ TunnelKey \/ TunnelKeyWrite \/ Serve \/ (\E i \in 1..5 : BringUp(i))
    <2>1. Kept
      BY <1>4 DEF Check, TunnelKey, TunnelKeyWrite, Serve, BringUp, files, Kept
    <2>2. Restarts \/ UNCHANGED en
      BY <1>4, HowItGoes DEF Check, TunnelKey, TunnelKeyWrite, Serve, BringUp
    <2> QED
      BY <1>1, <1>2, <2>1, <2>2
  <1>5. CASE Resolve
    <2>1. Kept
      BY <1>5 DEF Resolve, files, Kept
    <2>2. Restarts \/ UNCHANGED en \/ \E c : en' = Enroll("boot", c)
      BY <1>5, HowItGoes DEF Resolve
    <2> QED
      BY <1>0, <1>1, <1>2, <2>1, <2>2 DEF Drops
  <1>6. CASE EnrollKey \/ EnrollKeyWrite
    <2>1. Kept
      BY <1>6 DEF EnrollKey, EnrollKeyWrite, Kept
    <2>2. Fails \/ \E p \in {"begin", "keyWrite"} : en'.at = p /\ en'.got = en.got
      BY <1>6, HowItGoes DEF EnrollKey, EnrollKeyWrite, Advances
    <2> QED
      BY <1>1, <2>1, <2>2 DEF Drops
  <1>7. CASE Begin
    <2>1. Kept
      BY <1>7 DEF Begin, CallFails, Answered, files, Kept
    <2>2. CASE EnrollFails
      BY <1>1, <2>1, <2>2, HowItGoes
    <2>3. CASE EdgeBegin(en.code) /\ EnrollAt("poll")
      BY <1>7, <2>1, <2>3, HowItGoes DEF Asks, Advances, Begin
    <2> QED
      BY <1>7, <2>2, <2>3 DEF Begin, CallFails
  <1>8. CASE Poll
    <2>0. en \in EnrollRecord /\ en.at = "poll"
      BY <1>8, TypeParts DEF TokenTypes, Poll
    <2>1. Kept
      BY <1>8 DEF Poll, CallFails, Answered, files, Kept
    <2>2. CASE EnrollFails
      BY <1>1, <2>1, <2>2, HowItGoes
    <2>3. CASE /\ delivery[en.code] # Nothing /\ TakeDelivery(en.code)
               /\ en' = [en EXCEPT !.at = "info", !.got = delivery[en.code]]
      <3>1. en'.at = "info" /\ en'.got = delivery[en.code]
        BY <2>0, <2>3 DEF EnrollRecord
      <3> QED
        BY <2>0, <2>1, <2>3, <3>1 DEF Receives
    <2>4. CASE en' = [en EXCEPT !.polls = @ - 1]
      <3>1. en'.at = en.at /\ en'.code = en.code /\ en'.got = en.got
        BY <2>0, <2>4 DEF EnrollRecord
      <3> QED
        BY <2>1, <3>1 DEF Keeps
    <2> QED
      BY <1>8, <2>2, <2>3, <2>4 DEF Poll, CallFails
  <1>9. CASE EdgeInfo
    <2>1. Kept
      BY <1>9 DEF EdgeInfo, CallFails, Answered, files, Kept
    <2>2. CASE EnrollFails
      BY <1>1, <2>1, <2>2, HowItGoes
    <2>3. CASE EnrollAt("tunnelOpen") /\ UNCHANGED edge
      BY <1>9, <2>1, <2>3, HowItGoes DEF Writes, Advances, EdgeInfo
    <2> QED
      BY <1>9, <2>2, <2>3 DEF EdgeInfo, CallFails
  <1>10. CASE Persist
    <2>1. \A p : EnrollAt(p) => en'.at = p /\ en'.got = en.got
      BY HowItGoes DEF Advances
    <2>2. CASE EnrollFails /\ Kept
      BY <1>1, <2>2, HowItGoes
    <2> QED
      BY <1>10, <2>1, <2>2 DEF Persist, Writes, Kept
  <1>11. CASE Enrolled \/ Reexec
    <2>1. Kept
      BY <1>11 DEF Enrolled, Reexec, files, Kept
    <2>2. Restarts \/ en' = NoEnroll
      BY <1>11, HowItGoes DEF Enrolled, Reexec
    <2> QED
      BY <1>0, <1>1, <2>1, <2>2 DEF Drops
  <1>12. CASE ForwarderBind \/ DashboardBind \/ Signal \/ Drain
    BY <1>2, <1>12 DEF ForwarderBind, DashboardBind, Signal, Drain, files, Kept
  <1>13. CASE \E c \in Codes : Approve(c) \/ Refuse(c) \/ Delete(c) \/ ExpireDelivery(c)
    BY <1>2, <1>13 DEF Approve, Refuse, Delete, ExpireDelivery, files, Kept
  <1>14. CASE \E c \in Codes \cup {"bad"} : ClaimSubmit(c)
    <2>1. Kept
      BY <1>14 DEF ClaimSubmit, files, Kept
    <2>2. UNCHANGED en \/ \E c : en' = Enroll("claim", c)
      BY <1>14 DEF ClaimSubmit
    <2> QED
      BY <1>0, <1>2, <2>1, <2>2 DEF Drops
  <1>15. CASE UNCHANGED vars
    BY <1>2, <1>15 DEF vars, files, Kept
  <1> QED
    BY <1>3, <1>4, <1>5, <1>6, <1>7, <1>8, <1>9, <1>10, <1>11, <1>12, <1>13, <1>14, <1>15,
       <1>17, Steps

\* An invite nobody has approved: nothing is known of its machine.
Open == {"dormant", "waiting", "denied"}

\* The edge's records of machines agree with its invites and deliveries.
LEMMA StepMachine ==
  ASSUME TypeOK, EnrollInv, MachineInv, GotInv, [Next]_vars
  PROVE  MachineInv'
  <1>0. /\ invite \in [Codes -> {"none", "dormant", "waiting", "approved", "denied"}]
        /\ machines \in Seq(Codes) /\ hash \in [Codes -> 0..MaxTokens]
        /\ delivery \in [Codes -> Delivery]
        /\ None \notin Codes /\ "torn" \notin Codes /\ Nothing.mach = None
    BY Distinct DEF TypeOK, Nothing
  <1>1. ASSUME \A m \in Codes : Known(m)' => Known(m) \/ invite'[m] \notin Open,
               \A c \in Codes : invite'[c] \in Open => invite[c] \in Open,
               \A c \in Codes : \/ delivery'[c] \in {delivery[c], Nothing}
                                \/ invite'[c] \notin Open /\ delivery'[c].mach \in Codes,
               \A i, j \in DOMAIN machines' : machines'[i] = machines'[j] => i = j
        PROVE  MachineInv'
    BY <1>1 DEF MachineInv, Open
  <1>2. \A m \in Codes : m = en'.got.mach =>
          m = en.got.mach \/ \E d \in Codes : m = delivery[d].mach
    <2>1. Receives => en.code \in Codes
      BY DEF Receives, EnrollInv
    <2>2. CASE Receives
      BY <2>1, <2>2 DEF Receives
    <2>3. CASE Keeps \/ Drops \/ Asks \/ Writes
      BY <1>0, <2>3 DEF Keeps, Drops, Asks, Writes
    <2>4. CASE Loses
      BY <1>0, <2>4 DEF Loses
    <2> QED
      BY <2>2, <2>3, <2>4, BoxSteps
  <1>3. \A m \in Codes : m = tunnelFile' => m = tunnelFile \/ m = en.got.mach
    BY <1>0, BoxSteps DEF Keeps, Drops, Asks, Receives, Writes, Loses, Kept
  <1>4. ASSUME NEW m \in Codes, Known(m)', ~Known(m)
        PROVE  \/ m \in ToSet(machines') /\ m \notin ToSet(machines)
               \/ \E d \in Codes : delivery'[d].mach = m /\ m # delivery[d].mach
    BY <1>2, <1>3, <1>4 DEF Known
  <1>5. CASE UNCHANGED edge \/ PowerLoss
    <2>1. UNCHANGED <<invite, machines, delivery>>
      BY <1>5 DEF edge, PowerLoss
    <2> QED
      BY <1>1, <1>4, <2>1 DEF MachineInv
  <1>6. CASE \E c : TakeDelivery(c)
    <2>1. PICK c : TakeDelivery(c)
      BY <1>6
    <2>2. \A d \in Codes : delivery'[d] \in {delivery[d], Nothing}
      BY <1>0, <2>1 DEF TakeDelivery
    <2>3. UNCHANGED <<invite, machines>>
      BY <2>1 DEF TakeDelivery
    <2>4. \A m \in Codes : Known(m)' => Known(m)
      BY <1>0, <1>4, <2>2, <2>3
    <2> QED
      BY <1>1, <2>2, <2>3, <2>4 DEF MachineInv
  <1>7. CASE en.at = "begin" /\ EdgeBegin(en.code)
    <2>0. en.code \in Codes
      BY <1>7 DEF EnrollInv
    <2>1. CASE /\ invite[en.code] \in {"dormant", "waiting"}
               /\ invite' = [invite EXCEPT ![en.code] = "waiting"]
               /\ UNCHANGED <<machines, hash, delivery>>
      <3>1. \A m \in Codes : Known(m)' => Known(m)
        BY <1>4, <2>1
      <3>2. \A c \in Codes : invite'[c] \in Open => invite[c] \in Open
        BY <1>0, <2>1 DEF Open
      <3> QED
        BY <1>1, <2>1, <3>1, <3>2 DEF MachineInv
    <2>2. ASSUME invite[en.code] = "approved", NEW o \in Codes, Oldest(o), Rearm(en.code, o)
          PROVE  MachineInv'
      <3>1. o \in ToSet(machines)
        BY <1>0, <2>2 DEF ToSet, Oldest, Mine
      <3>2. /\ \A d \in Codes \ {en.code} : delivery'[d] = delivery[d]
            /\ delivery'[en.code].mach = o
        BY <1>0, <2>0, <2>2 DEF Rearm
      <3>3. UNCHANGED <<invite, machines>>
        BY <2>2 DEF Rearm
      <3>4. \A m \in Codes : Known(m)' => Known(m)
        <4>1. SUFFICES ASSUME NEW m \in Codes, Known(m)', ~Known(m) PROVE FALSE
          OBVIOUS
        <4>2. \E d \in Codes : delivery'[d].mach = m /\ m # delivery[d].mach
          BY <1>4, <3>3, <4>1
        <4>3. m = o
          BY <3>2, <4>2
        <4> QED
          BY <3>1, <4>1, <4>3 DEF Known
      <3>5. \A c \in Codes : \/ delivery'[c] \in {delivery[c], Nothing}
                             \/ invite'[c] \notin Open /\ delivery'[c].mach \in Codes
        BY <2>2, <3>2, <3>3 DEF Open
      <3> QED
        BY <1>1, <3>3, <3>4, <3>5 DEF MachineInv
    <2> QED
      BY <1>7, <2>1, <2>2 DEF EdgeBegin
  <1>8. ASSUME NEW c \in Codes, Approve(c) PROVE MachineInv'
    <2>1. /\ invite[c] \in Open /\ invite'[c] \notin Open
          /\ \A d \in Codes \ {c} : invite'[d] = invite[d] /\ delivery'[d] = delivery[d]
          /\ delivery'[c].mach = c
      BY <1>0, <1>8 DEF Approve, Open
    <2>2. machines' = Append(machines, c) /\ c \notin ToSet(machines)
      BY <1>8, <2>1 DEF Approve, MachineInv, Known, Open
    <2>3. /\ Len(machines) \in Nat /\ DOMAIN machines' = 1..(Len(machines) + 1)
          /\ \A i \in 1..Len(machines) : machines'[i] = machines[i] /\ machines[i] # c
          /\ machines'[Len(machines) + 1] = c
          /\ DOMAIN machines = 1..Len(machines)
      BY <1>0, <2>2 DEF ToSet
    <2>4. \A i \in DOMAIN machines' : i \in 1..Len(machines) \/ i = Len(machines) + 1
      BY <2>3
    <2>5. \A i, j \in DOMAIN machines' : machines'[i] = machines'[j] => i = j
      BY <2>3, <2>4 DEF MachineInv
    <2>6. \A m \in Codes : Known(m)' => Known(m) \/ invite'[m] \notin Open
      <3>1. SUFFICES ASSUME NEW m \in Codes, Known(m)', ~Known(m) PROVE m = c
        BY <2>1
      <3>2. CASE m \in ToSet(machines') /\ m \notin ToSet(machines)
        <4>1. PICK i \in DOMAIN machines' : machines'[i] = m
          BY <3>2 DEF ToSet
        <4> QED
          BY <2>3, <2>4, <3>2, <4>1 DEF ToSet
      <3>3. CASE \E d \in Codes : delivery'[d].mach = m /\ m # delivery[d].mach
        BY <2>1, <3>3
      <3> QED
        BY <1>4, <3>1, <3>2, <3>3
    <2> QED
      BY <1>1, <2>1, <2>5, <2>6
  <1>9. ASSUME NEW c \in Codes, Refuse(c) PROVE MachineInv'
    <2>1. UNCHANGED <<machines, delivery>>
      BY <1>9 DEF Refuse
    <2>2. \A d \in Codes : invite'[d] \in Open => invite[d] \in Open
      BY <1>0, <1>9 DEF Refuse, Open
    <2>3. \A m \in Codes : Known(m)' => Known(m)
      BY <1>4, <2>1
    <2> QED
      BY <1>1, <2>1, <2>2, <2>3 DEF MachineInv
  <1>10. ASSUME NEW c \in Codes, Delete(c) PROVE MachineInv'
    <2>1. UNCHANGED <<invite, delivery>>
      BY <1>10 DEF Delete
    <2>2. /\ ToSet(machines') \subseteq ToSet(machines)
          /\ \A i, j \in DOMAIN machines' : machines'[i] = machines'[j] => i = j
      BY <1>10, Deleted DEF MachineInv
    <2>3. \A m \in Codes : Known(m)' => Known(m)
      BY <1>4, <2>1, <2>2
    <2> QED
      BY <1>1, <2>1, <2>2, <2>3
  <1> QED
    BY <1>5, <1>6, <1>7, <1>8, <1>9, <1>10, EdgeSteps

\* The hash of a machine somebody knows of, and that is still there, changes
\* only when its delivery is re-armed.
LEMMA HashStays ==
  ASSUME TypeOK, EnrollInv, MachineInv, [Next]_vars,
         ~(en.at = "begin" /\ \E o \in Codes : Rearm(en.code, o)),
         NEW m \in Codes, Known(m), m \in ToSet(machines')
  PROVE  m \in ToSet(machines) /\ hash'[m] = hash[m]
  <1>0. machines \in Seq(Codes) /\ hash \in [Codes -> 0..MaxTokens]
    BY DEF TypeOK
  <1>1. CASE UNCHANGED edge \/ PowerLoss
    BY <1>1 DEF edge, PowerLoss
  <1>2. CASE \E c : TakeDelivery(c)
    BY <1>2 DEF TakeDelivery
  <1>3. CASE en.at = "begin" /\ EdgeBegin(en.code)
    BY <1>3 DEF EdgeBegin
  <1>4. ASSUME NEW c \in Codes, Approve(c)
        PROVE  m \in ToSet(machines) /\ hash'[m] = hash[m]
    <2>1. m # c
      BY <1>4 DEF Approve, MachineInv
    <2>2. hash'[m] = hash[m]
      BY <1>0, <1>4, <2>1 DEF Approve
    <2>3. PICK i \in DOMAIN machines' : machines'[i] = m
      BY DEF ToSet
    <2>4. machines' = Append(machines, c)
      BY <1>4 DEF Approve
    <2>5. i \in DOMAIN machines /\ machines[i] = m
      BY <1>0, <2>1, <2>3, <2>4
    <2> QED
      BY <2>2, <2>5 DEF ToSet
  <1>5. ASSUME NEW c \in Codes, Refuse(c)
        PROVE  m \in ToSet(machines) /\ hash'[m] = hash[m]
    BY <1>5 DEF Refuse
  <1>6. ASSUME NEW c \in Codes, Delete(c)
        PROVE  m \in ToSet(machines) /\ hash'[m] = hash[m]
    <2>1. ToSet(machines') \subseteq ToSet(machines) \ {c}
      BY <1>6, Deleted DEF MachineInv
    <2> QED
      BY <1>0, <1>6, <2>1 DEF Delete
  <1> QED
    BY <1>1, <1>2, <1>3, <1>4, <1>5, <1>6, EdgeSteps

\* What the box has received and stored is what the edge still accepts.
LEMMA StepGot ==
  ASSUME TypeOK, EnrollInv, MachineInv, GotInv, [Next]_vars
  PROVE  GotInv'
  <1> DEFINE Told == {"info", "tunnelOpen", "tunnelWrite"} \cup After
  <1>0. /\ machines \in Seq(Codes) /\ hash \in [Codes -> 0..MaxTokens]
        /\ delivery \in [Codes -> Delivery]
        /\ None \notin Codes /\ "torn" \notin Codes
    BY Distinct DEF TypeOK
  <1>3. CASE Loses
    <2>1. "tunnel" \notin cut' => "tunnel" \notin cut /\ UNCHANGED tunnelFile
      BY <1>3 DEF Loses
    <2>2. ("tunnel" \notin cut /\ ~Persisted => tokenFile = 0)'
      BY <1>3, <2>1 DEF Loses, GotInv, Persisted
    <2>3. TokenIsCurrent'
      BY <1>3, <2>1 DEF Loses, GotInv, TokenIsCurrent, Persisted
    <2> QED
      BY <1>3, <2>2, <2>3 DEF Loses, GotInv, After
  <1>4. SUFFICES ASSUME Keeps \/ Drops \/ Asks \/ Receives \/ Writes, ~Loses, UNCHANGED cut
                 PROVE  GotInv'
    BY <1>3, BoxSteps
  <1>1. ASSUME en.at = "begin", NEW o \in Codes, Rearm(en.code, o) PROVE GotInv'
    <2>1. Kept /\ ~Persisted
      BY <1>1, <1>4 DEF Keeps, Drops, Asks, Receives, Writes, EnrollInv, Before
    <2>2. ~Persisted' /\ ("tunnel" \notin cut' => tokenFile' = 0)
      BY <1>4, <2>1 DEF Kept, Persisted, GotInv
    <2>3. en.code \in Codes
      BY <1>1 DEF EnrollInv
    <2>4. delivery'[en.code].mach = o /\ hash'[o] = delivery'[en.code].token
          /\ UNCHANGED machines
      BY <1>0, <1>1, <2>3 DEF Rearm
    <2>5. Drops \/ Keeps \/ Asks
      BY <1>1, <1>4 DEF Receives, Writes
    <2>6. en'.at \in {"none", "key", "keyWrite", "begin"} \/ (en'.at = "poll" /\ en'.code = en.code)
      BY <1>1, <2>5 DEF Drops, Keeps, Asks
    <2>7. en'.at = "poll" => Accepted(delivery[en.code])'
      <3>1. SUFFICES ASSUME en'.at = "poll" PROVE Accepted(delivery[en.code])'
        OBVIOUS
      <3>2. en'.code = en.code
        BY <2>6, <3>1
      <3> QED
        BY <2>4, <3>2 DEF Accepted
    <2> QED
      BY <2>2, <2>6, <2>7 DEF GotInv, TokenIsCurrent, After
  <1>2. ASSUME ~(en.at = "begin" /\ \E o \in Codes : Rearm(en.code, o)) PROVE GotInv'
    <2>1. \A m \in Codes : Known(m) /\ m \in ToSet(machines') =>
            m \in ToSet(machines) /\ hash'[m] = hash[m]
      BY <1>2, HashStays
    <2>2. ASSUME NEW d, d.mach \in Codes, Known(d.mach), Accepted(d)
          PROVE  d.mach \in ToSet(machines') => hash'[d.mach] = d.token
      BY <2>1, <2>2 DEF Accepted
    <2>3. ("tunnel" \notin cut /\ ~Persisted => tokenFile = 0)'
      <3>1. CASE Kept
        BY <1>4, <3>1 DEF Kept, GotInv, Persisted
      <3>2. CASE Writes
        BY <1>4, <3>2 DEF Writes, Kept, GotInv, EnrollInv, Before, After, Persisted
      <3> QED
        BY <1>4, <3>1, <3>2 DEF Keeps, Drops, Asks, Receives
    <2>4. TokenIsCurrent'
      <3>1. CASE Kept
        <4>1. SUFFICES ASSUME "tunnel" \notin cut, Persisted, tokenFile # 0, tunnelFile \in ToSet(machines')
                       PROVE  hash'[tunnelFile] = tokenFile
          BY <1>4, <3>1 DEF TokenIsCurrent, Kept, Persisted
        <4>2. tunnelFile \in Codes /\ Known(tunnelFile)
          BY <4>1 DEF Persisted, Known
        <4> QED
          BY <2>1, <4>1, <4>2 DEF GotInv, TokenIsCurrent
      <3>2. CASE Writes
        <4>1. CASE en.at \in {"info", "tunnelOpen", "tunnelWrite"} /\ UNCHANGED tokenFile
          BY <1>4, <4>1 DEF TokenIsCurrent, EnrollInv, GotInv, Before
        <4>2. CASE tokenFile' = 0
          BY <4>2 DEF TokenIsCurrent
        <4>3. CASE en.at = "tokenWrite" /\ tokenFile' = en.got.token /\ UNCHANGED tunnelFile
          BY <3>2, <4>3 DEF TokenIsCurrent, GotInv, Accepted, After, Writes, edge
        <4> QED
          BY <3>2, <4>1, <4>2, <4>3 DEF Writes, Kept
      <3> QED
        BY <1>4, <3>1, <3>2 DEF Keeps, Drops, Asks, Receives
    <2>5. ASSUME en'.at \in Told PROVE en'.got.mach \in Codes /\ Accepted(en.got)'
      <3>1. CASE en.at \in Told /\ en'.got = en.got
        <4>1. en.got.mach \in Codes /\ Accepted(en.got) /\ Known(en.got.mach)
          BY <3>1 DEF GotInv, Known
        <4>2. en.got.mach \in ToSet(machines') => hash'[en.got.mach] = en.got.token
          BY <2>2, <4>1
        <4> QED
          BY <3>1, <4>1, <4>2 DEF Accepted
      <3>2. CASE Receives
        <4>1. /\ en.code \in Codes /\ en'.got = delivery[en.code] /\ UNCHANGED <<machines, hash>>
              /\ delivery[en.code] # Nothing /\ en.at = "poll"
          BY <3>2 DEF Receives, TakeDelivery, EnrollInv
        <4>2. Accepted(delivery[en.code]) /\ delivery[en.code].mach \in Codes
          BY <4>1 DEF GotInv, MachineInv
        <4> QED
          BY <4>1, <4>2 DEF Accepted
      <3> QED
        BY <1>4, <2>5, <3>1, <3>2 DEF Keeps, Drops, Asks, Writes, After
    <2>6. ASSUME en'.at \in After PROVE tunnelFile' = en'.got.mach
      <3>1. Keeps \/ Writes
        BY <1>4, <2>6 DEF Drops, Asks, Receives, After
      <3> QED
        BY <2>6, <3>1 DEF Keeps, Writes, Kept, GotInv, After
    <2>7. ASSUME en'.at = "poll", delivery'[en'.code] # Nothing PROVE Accepted(delivery[en.code])'
      <3>1. CASE Asks
        <4>1. en.code \in Codes /\ en'.code = en.code
          BY <3>1 DEF Asks, EnrollInv
        <4>2. invite[en.code] \in {"dormant", "waiting"} /\ UNCHANGED delivery
          BY <1>2, <3>1 DEF Asks, EdgeBegin
        <4> QED
          BY <2>7, <4>1, <4>2 DEF MachineInv
      <3>2. CASE Keeps
        <4>1. en.at = "poll" /\ en.code \in Codes /\ en'.code = en.code
          BY <2>7, <3>2 DEF Keeps, EnrollInv
        <4>2. CASE delivery'[en.code] = delivery[en.code]
          <5>1. /\ Accepted(delivery[en.code]) /\ delivery[en.code].mach \in Codes
                /\ Known(delivery[en.code].mach)
            BY <2>7, <4>1, <4>2 DEF GotInv, MachineInv, Known
          <5>2. delivery[en.code].mach \in ToSet(machines') =>
                  hash'[delivery[en.code].mach] = delivery[en.code].token
            BY <2>2, <5>1
          <5> QED
            BY <4>1, <4>2, <5>2 DEF Accepted
        <4>3. CASE Approve(en.code)
          <5>1. /\ delivery'[en.code].mach = en.code
                /\ hash'[en.code] = delivery'[en.code].token
            BY <1>0, <4>1, <4>3 DEF Approve
          <5> QED
            BY <4>1, <5>1 DEF Accepted
        <4>4. CASE delivery'[en.code] = Nothing
          BY <2>7, <4>1, <4>4
        <4>5. \/ delivery'[en.code] \in {delivery[en.code], Nothing}
              \/ Approve(en.code)
          <5>1. CASE UNCHANGED edge \/ PowerLoss \/ \E c : TakeDelivery(c)
            BY <1>0, <4>1, <5>1 DEF edge, PowerLoss, TakeDelivery
          <5>2. CASE \E c \in Codes : Approve(c) \/ Refuse(c) \/ Delete(c)
            BY <1>0, <4>1, <5>2 DEF Approve, Refuse, Delete
          <5> QED
            BY <4>1, <5>1, <5>2, EdgeSteps
        <4> QED
          BY <4>2, <4>3, <4>4, <4>5
      <3> QED
        BY <1>4, <2>7, <3>1, <3>2 DEF Drops, Receives, Writes
    <2> QED
      BY <2>3, <2>4, <2>5, <2>6, <2>7 DEF GotInv
  <1> QED
    BY <1>1, <1>2

-----------------------------------------------------------------------------
(***************************************************************************)
(* The theorems.                                                           *)
(***************************************************************************)
LEMMA InitIInv == Init => IInv
  <1> SUFFICES ASSUME Init PROVE IInv
    OBVIOUS
  <1>0. /\ NoEnroll.at = "none" /\ NoEnroll.by = "none" /\ NoEnroll.got = Nothing
        /\ Nothing.mach = None /\ None \notin Codes /\ ToSet(machines) = {}
    BY Distinct DEF NoEnroll, Nothing, Init, ToSet
  <1>1. ProcessTypes
    BY Records, WgPoints, Numbers DEF Init, ProcessTypes, Points
  <1>2. TokenTypes
    BY Records, Numbers DEF Init, TokenTypes
  <1>3. EdgeTypes
    BY Records, Numbers DEF Init, EdgeTypes
  <1>4. TypeOK
    BY <1>1, <1>2, <1>3, TypeParts
  <1>5. EnrollInv
    BY <1>0 DEF Init, EnrollInv, Before, After, Persisted
  <1>6. KeyInv
    BY <1>0 DEF Init, KeyInv, KnownKeyIsStored
  <1>7. WgInv
    BY <1>0, WgPoints DEF Init, WgInv, TunnelIsUp, Ready
  <1>8. MachineInv
    BY <1>0 DEF Init, MachineInv, Known
  <1>9. GotInv
    BY <1>0 DEF Init, GotInv, TokenIsCurrent, After, Persisted
  <1> QED
    BY <1>4, <1>5, <1>6, <1>7, <1>8, <1>9 DEF IInv

\* Every step keeps the invariant.
LEMMA StepIInv == IInv /\ [Next]_vars => IInv'
  BY StepTypes, StepEnroll, StepKey, StepWg, StepMachine, StepGot DEF IInv

\* The invariant holds in every reachable state.
LEMMA InvariantHolds == Spec => []IInv
  BY InitIInv, StepIInv, PTL DEF Spec

\* Every variable keeps its type, whatever fails.  A token nobody holds can
\* always be drawn, and a command of bring_up_wg0 is always given an address.
THEOREM TypeCorrect == Spec => []TypeOK
  BY InvariantHolds, PTL DEF IInv

\* enroll: "A previous enrollment is never repeated".  Neither run() nor a
\* claim dials the edge while tunnel.json is readable, and the two never run
\* side by side: claim_submit looks at the file and at the claim that is
\* awaited, and what it does not look at, run()'s own enrollment, is over
\* before the dashboard is served.
THEOREM EnrollsOnlyOnce == Spec => []EnrollsOnce
  <1>1. EnrollInv => EnrollsOnce
    BY DEF EnrollInv, EnrollsOnce, Before
  <1> QED
    BY <1>1, InvariantHolds, PTL DEF IInv

\* The edge holds the box's key in an invite only when ensure_keypair has put it on
\* disk: no kill orphans a machine, and only a power loss that takes the unsynced
\* file can.
THEOREM KeyStored == Spec => []KnownKeyIsStored
  <1>1. KeyInv => KnownKeyIsStored
    BY DEF KeyInv
  <1> QED
    BY <1>1, InvariantHolds, PTL DEF IInv

\* bring_up_wg0 leaves nothing out before run() serves, whatever an earlier
\* attempt left behind, and no forward is bound on an address the box lacks.
THEOREM TunnelComplete == Spec => []TunnelIsUp
  <1>1. WgInv => TunnelIsUp
    BY DEF WgInv
  <1> QED
    BY <1>1, InvariantHolds, PTL DEF IInv

\* rearm_delivery, invite_approve and persist_device_token: the token on disk
\* is the one the edge accepts for the machine of tunnel.json, as long as no power
\* loss has taken a tunnel.json.
THEOREM TokenAccepted == Spec => []TokenIsCurrent
  <1>1. GotInv => TokenIsCurrent
    BY DEF GotInv
  <1> QED
    BY <1>1, InvariantHolds, PTL DEF IInv

=============================================================================
