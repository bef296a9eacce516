----------------------- MODULE TeleporterUpgradeProofs ------------------------
(***************************************************************************)
(* The registry and the applications built on it, for any number of        *)
(* versions, addresses, messages and any lists of entries.                 *)
(***************************************************************************)
EXTENDS TeleporterUpgradeable, CommonLemmas

\* Adding an entry keeps the registry's types, whatever the entry.
LEMMA AddKeepsType ==
    ASSUME NEW r \in Registries, NEW e \in Entries
    PROVE  AddToRegistry(r, e) \in Registries
<1>1. Larger(e.version, r.latestVersion) \in 0..MaxVersion
    BY DEF Larger, Registries, Entries
<1>2. \A a \in Addresses : Larger(e.version, r.addressToVersion[a]) \in 0..MaxVersion
    BY DEF Larger, Registries, Entries
<1>3. [r.addressToVersion EXCEPT ![e.protocolAddress] = Larger(e.version, @)]
          \in [Addresses -> 0..MaxVersion]
    BY <1>2 DEF Registries
<1>4. [r.versionToAddress EXCEPT ![e.version] = e.protocolAddress]
          \in [Versions -> Addresses \cup {Zero}]
    BY DEF Registries, Entries
<1> QED
    BY <1>1, <1>3, <1>4 DEF AddToRegistry, Registries

\* What a permitted entry does to the fields of the registry.
LEMMA AddEffect ==
    ASSUME NEW r \in Registries, NEW e \in Entries, CanRegister(r, e)
    PROVE  LET s == AddToRegistry(r, e) IN
           /\ e.version \in Versions /\ e.protocolAddress \in Addresses
           /\ \A v \in Versions :
                  s.versionToAddress[v] =
                      IF v = e.version THEN e.protocolAddress ELSE r.versionToAddress[v]
           /\ \A a \in Addresses :
                  s.addressToVersion[a] =
                      IF a = e.protocolAddress /\ e.version > r.addressToVersion[a]
                      THEN e.version ELSE r.addressToVersion[a]
           /\ s.latestVersion =
                  IF e.version > r.latestVersion THEN e.version ELSE r.latestVersion
<1>1. e.version \in Versions /\ e.protocolAddress \in Addresses
    BY VersionsAssumption DEF CanRegister, Entries, Versions
<1> QED
    BY <1>1 DEF AddToRegistry, Larger, Registries

\* A permitted entry keeps the mappings consistent.
LEMMA AddKeepsConsistent ==
    ASSUME NEW r \in Registries, NEW e \in Entries, CanRegister(r, e), Consistent(r)
    PROVE  Consistent(AddToRegistry(r, e))
<1> DEFINE s == AddToRegistry(r, e)
           b == e.protocolAddress
           w == e.version
<1>1. /\ w \in Versions /\ b \in Addresses
      /\ \A v \in Versions :
             s.versionToAddress[v] = IF v = w THEN b ELSE r.versionToAddress[v]
      /\ \A a \in Addresses :
             s.addressToVersion[a] = IF a = b /\ w > r.addressToVersion[a]
                                     THEN w ELSE r.addressToVersion[a]
      /\ s.latestVersion = IF w > r.latestVersion THEN w ELSE r.latestVersion
    BY AddEffect
<1>2. r.versionToAddress[w] = Zero
    BY DEF CanRegister
<1>3. \A v \in Versions : v \in Nat /\ v > 0
    BY VersionsAssumption DEF Versions
<1>4. \A a \in Addresses : r.addressToVersion[a] \in Nat
    BY VersionsAssumption DEF Registries
<1>5. r.latestVersion \in Nat
    BY VersionsAssumption DEF Registries
<1>6. /\ VersionsOf(s, b) = VersionsOf(r, b) \cup {w}
      /\ \A a \in Addresses : a # b => VersionsOf(s, a) = VersionsOf(r, a)
    <2> HIDE DEF s, b, w
    <2>1. b # Zero /\ \A a \in Addresses : a # Zero
        BY <1>1, RegistryZeroAssumption
    <2> QED
        BY <1>1, <1>2, <2>1 DEF VersionsOf
<1> HIDE DEF s, b, w
<1>7. ASSUME NEW a \in Addresses
      PROVE  IF VersionsOf(s, a) = {}
             THEN s.addressToVersion[a] = 0
             ELSE /\ s.addressToVersion[a] \in VersionsOf(s, a)
                  /\ \A v \in VersionsOf(s, a) : v <= s.addressToVersion[a]
    <2>1. CASE a # b
        <3>1. VersionsOf(s, a) = VersionsOf(r, a) /\ s.addressToVersion[a] = r.addressToVersion[a]
            BY <1>1, <1>6, <2>1
        <3> QED
            BY <3>1 DEF Consistent
    <2>2. CASE a = b
        <3>1. VersionsOf(s, a) = VersionsOf(r, a) \cup {w}
            BY <1>6, <2>2
        <3>2. VersionsOf(r, a) \subseteq Versions
            BY DEF VersionsOf
        <3>3. CASE w > r.addressToVersion[a]
            <4>1. s.addressToVersion[a] = w
                BY <1>1, <2>2, <3>3
            <4>2. \A v \in VersionsOf(r, a) : v <= r.addressToVersion[a]
                BY DEF Consistent
            <4>3. \A v \in VersionsOf(r, a) : v <= w
                BY <1>1, <1>3, <1>4, <3>2, <3>3, <4>2
            <4> QED
                BY <1>1, <1>3, <3>1, <4>1, <4>3
        <3>4. CASE ~(w > r.addressToVersion[a])
            <4>1. s.addressToVersion[a] = r.addressToVersion[a] /\ w <= r.addressToVersion[a]
                BY <1>1, <1>3, <1>4, <3>4
            <4>2. VersionsOf(r, a) # {}
                BY <4>1, <1>1, <1>3 DEF Consistent
            <4> QED
                BY <3>1, <4>1, <4>2 DEF Consistent
        <3> QED
            BY <3>3, <3>4
    <2> QED
        BY <2>1, <2>2
<1>8. \E a \in Addresses : s.addressToVersion[a] = s.latestVersion
    <2>1. CASE w > r.latestVersion
        <3>1. r.addressToVersion[b] <= r.latestVersion
            BY <1>1 DEF Consistent
        <3> QED
            BY <1>1, <1>3, <1>4, <1>5, <2>1, <3>1
    <2>2. CASE ~(w > r.latestVersion)
        <3>1. r.latestVersion # 0
            BY <1>1, <1>3, <1>5, <2>2
        <3>2. PICK a \in Addresses : r.addressToVersion[a] = r.latestVersion
            BY <3>1 DEF Consistent
        <3>3. s.addressToVersion[a] = s.latestVersion
            BY <1>1, <1>3, <1>4, <1>5, <2>2, <3>2
        <3> QED
            BY <3>3
    <2> QED
        BY <2>1, <2>2
<1>9. ASSUME NEW a \in Addresses PROVE s.addressToVersion[a] <= s.latestVersion
    <2>1. r.addressToVersion[a] <= r.latestVersion
        BY DEF Consistent
    <2> QED
        BY <1>1, <1>3, <1>4, <1>5, <2>1
<1>10. ~ \A a \in Addresses : VersionsOf(s, a) = {}
    BY <1>1, <1>6
<1> QED
    BY <1>7, <1>8, <1>9, <1>10 DEF Consistent, s

-----------------------------------------------------------------------------
(* The constructor's loop.                                                 *)

\* The loop over the constructor's entries, as the equation its states obey.
LoopStep(entries, after, i) ==
    IF i = 0 THEN EmptyRegistry ELSE AddToRegistry(after[i - 1], entries[i])
IsLoop(entries, n, after) ==
    after = [i \in 0..n |-> LoopStep(entries, after, i)]

\* The empty registry is one.
LEMMA EmptyType == EmptyRegistry \in Registries
BY VersionsAssumption DEF EmptyRegistry, Registries

\* The loop can be run over any number of the entries.
LEMMA LoopExists ==
    ASSUME NEW entries \in Seq(Entries)
    PROVE  \A n \in Nat : n <= Len(entries) =>
               \E after \in [0..n -> Registries] : IsLoop(entries, n, after)
<1> DEFINE S == {n \in Nat : n <= Len(entries) =>
               \E after \in [0..n -> Registries] : IsLoop(entries, n, after)}
<1>1. 0 \in S
    <2> DEFINE f == [i \in 0..0 |-> EmptyRegistry]
    <2>1. f \in [0..0 -> Registries]
        BY EmptyType
    <2>2. IsLoop(entries, 0, f)
        BY DEF IsLoop, LoopStep
    <2> HIDE DEF f
    <2> QED
        BY <2>1, <2>2
<1>2. ASSUME NEW n \in Nat, n \in S PROVE n + 1 \in S
    <2> SUFFICES ASSUME n + 1 <= Len(entries)
                 PROVE  \E after \in [0..(n + 1) -> Registries] : IsLoop(entries, n + 1, after)
        OBVIOUS
    <2>1. Len(entries) \in Nat
        BY LenProperties
    <2>2. PICK g \in [0..n -> Registries] : IsLoop(entries, n, g)
        BY <1>2, <2>1
    <2> DEFINE f == [i \in 0..(n + 1) |->
                        IF i = n + 1 THEN AddToRegistry(g[n], entries[n + 1]) ELSE g[i]]
    <2>3. AddToRegistry(g[n], entries[n + 1]) \in Registries
        <3>1. g[n] \in Registries /\ entries[n + 1] \in Entries
            BY <2>1, ElementOfSeq
        <3> QED
            BY <3>1, AddKeepsType
    <2>4. f \in [0..(n + 1) -> Registries]
        BY <2>3
    <2>5. \A i \in 0..n : f[i] = g[i] /\ g[i] = LoopStep(entries, g, i)
        BY <2>2 DEF IsLoop
    <2>6. \A i \in 0..(n + 1) : f[i] = LoopStep(entries, f, i)
        <3> TAKE i \in 0..(n + 1)
        <3>1. CASE i = n + 1
            BY <3>1, <2>5 DEF LoopStep
        <3>2. CASE i # n + 1
            <4>1. i \in 0..n /\ (i # 0 => i - 1 \in 0..n)
                BY <3>2
            <4> QED
                BY <4>1, <2>5 DEF LoopStep
        <3> QED
            BY <3>1, <3>2
    <2>7. IsLoop(entries, n + 1, f)
        BY <2>6 DEF IsLoop
    <2> HIDE DEF f
    <2> QED
        BY <2>4, <2>7
<1> HIDE DEF S
<1>3. \A n \in Nat : n \in S
    BY <1>1, <1>2, NatSetInduction
<1> QED
    BY <1>3 DEF S

\* The loop, as the constructor runs it, obeys its equation.
LEMMA ConstructorIsLoop ==
    ASSUME NEW entries \in Seq(Entries)
    PROVE  IsLoop(entries, Len(entries), AfterEntries(entries))
<1>1. Len(entries) \in Nat
    BY LenProperties
<1>2. \E after : IsLoop(entries, Len(entries), after)
    BY <1>1, LoopExists
<1>3. AfterEntries(entries) = CHOOSE after : IsLoop(entries, Len(entries), after)
    BY DEF AfterEntries, IsLoop, LoopStep
<1> QED
    BY <1>2, <1>3

\* What the constructor has registered is among its entries.
FromEntries(r, entries) ==
    \A v \in Versions :
        r.versionToAddress[v] # Zero =>
            \E i \in 1..Len(entries) :
                entries[i] = [version |-> v, protocolAddress |-> r.versionToAddress[v]]

\* A constructor that does not revert leaves a consistent registry of its entries.
LEMMA ConstructorEffect ==
    ASSUME NEW entries \in Seq(Entries),
           \A i \in 1..Len(entries) :
               CanRegister(AfterEntries(entries)[i - 1], entries[i])
    PROVE  LET r == AfterEntries(entries)[Len(entries)] IN
           r \in Registries /\ Consistent(r) /\ FromEntries(r, entries)
<1> DEFINE after == AfterEntries(entries)
           Good(r) == r \in Registries /\ Consistent(r) /\ FromEntries(r, entries)
           S == {n \in Nat : n <= Len(entries) => Good(after[n])}
<1>1. Len(entries) \in Nat
    BY LenProperties
<1>2. \A i \in 0..Len(entries) : after[i] = LoopStep(entries, after, i)
    BY ConstructorIsLoop DEF IsLoop
<1> HIDE DEF after
<1>3. 0 \in S
    <2>1. after[0] = EmptyRegistry
        BY <1>1, <1>2 DEF LoopStep
    <2>2. /\ EmptyRegistry.latestVersion = 0
          /\ \A v \in Versions : EmptyRegistry.versionToAddress[v] = Zero
          /\ \A a \in Addresses : EmptyRegistry.addressToVersion[a] = 0
        BY DEF EmptyRegistry
    <2>3. \A a \in Addresses : VersionsOf(EmptyRegistry, a) = {}
        BY <2>2, RegistryZeroAssumption DEF VersionsOf
    <2>4. Consistent(EmptyRegistry)
        BY <2>2, <2>3 DEF Consistent
    <2>5. FromEntries(EmptyRegistry, entries)
        BY <2>2 DEF FromEntries
    <2> QED
        BY <2>1, <2>4, <2>5, EmptyType
<1>4. ASSUME NEW n \in Nat, n \in S PROVE n + 1 \in S
    <2> SUFFICES ASSUME n + 1 <= Len(entries) PROVE Good(after[n + 1])
        OBVIOUS
    <2> DEFINE r == after[n]
               e == entries[n + 1]
    <2>1. n + 1 \in 1..Len(entries) /\ (n + 1) - 1 = n
        BY <1>1
    <2>2. after[n + 1] = AddToRegistry(r, e)
        BY <1>2, <2>1 DEF LoopStep
    <2>3. r \in Registries /\ Consistent(r) /\ FromEntries(r, entries)
        BY <1>1, <1>4
    <2>4. CanRegister(r, e)
        BY <2>1 DEF after
    <2>5. e \in Entries
        BY <2>1, ElementOfSeq
    <2> HIDE DEF r
    <2>6. AddToRegistry(r, e) \in Registries
        BY <2>3, <2>5, AddKeepsType
    <2>7. Consistent(AddToRegistry(r, e))
        BY <2>3, <2>4, <2>5, AddKeepsConsistent
    <2>8. FromEntries(AddToRegistry(r, e), entries)
        <3> DEFINE s == AddToRegistry(r, e)
        <3>1. \A v \in Versions :
                  s.versionToAddress[v] =
                      IF v = e.version THEN e.protocolAddress ELSE r.versionToAddress[v]
            BY <2>3, <2>4, <2>5, AddEffect
        <3>2. e = [version |-> e.version, protocolAddress |-> e.protocolAddress]
            BY <2>5 DEF Entries
        <3> HIDE DEF s
        <3>3. ASSUME NEW v \in Versions, s.versionToAddress[v] # Zero
              PROVE  \E i \in 1..Len(entries) :
                         entries[i] = [version |-> v, protocolAddress |-> s.versionToAddress[v]]
            <4>1. CASE v = e.version
                BY <2>1, <3>1, <3>2, <4>1
            <4>2. CASE v # e.version
                BY <2>3, <3>1, <3>3, <4>2 DEF FromEntries
            <4> QED
                BY <4>1, <4>2
        <3> QED
            BY <3>3 DEF FromEntries, s
    <2> QED
        BY <2>2, <2>6, <2>7, <2>8
<1> HIDE DEF S
<1>5. \A n \in Nat : n \in S
    BY <1>3, <1>4, NatSetInduction
<1> QED
    BY <1>1, <1>5 DEF S, after

-----------------------------------------------------------------------------
(* The inductive invariant.                                                *)

\* The application never requires more than the latest version; without it, the
\* Teleporter it sends through could be refused.
MinWithinLatest == minTeleporterVersion <= registry.latestVersion

IInv == TypeOK /\ RegistryConsistent /\ VersionsAuthorized /\ MinWithinLatest

\* What a presented message changes, under the inductive invariant.
LEMMA AddProtocolVersionEffect ==
    ASSUME IInv, NEW m \in SignedMessages, AddProtocolVersion(m)
    PROVE  /\ registry' \in Registries
           /\ Consistent(registry')
           /\ m.entry.version \in Versions
           /\ m.entry.protocolAddress \in Addresses
           /\ m.entry = [version |-> m.entry.version,
                         protocolAddress |-> m.entry.protocolAddress]
           /\ registry.versionToAddress[m.entry.version] = Zero
           /\ \A v \in Versions :
                  registry'.versionToAddress[v] =
                      IF v = m.entry.version THEN m.entry.protocolAddress
                      ELSE registry.versionToAddress[v]
           /\ \A a \in Addresses :
                  registry'.addressToVersion[a] =
                      IF a = m.entry.protocolAddress
                         /\ m.entry.version > registry.addressToVersion[a]
                      THEN m.entry.version ELSE registry.addressToVersion[a]
           /\ registry'.latestVersion >= registry.latestVersion
<1>1. registry \in Registries /\ Consistent(registry)
    BY DEF IInv, TypeOK, RegistryConsistent
<1>2. m.entry \in Entries
    BY EntriesAssumption
<1>3. CanRegister(registry, m.entry) /\ registry' = AddToRegistry(registry, m.entry)
    BY DEF AddProtocolVersion
<1>4. registry' \in Registries /\ Consistent(registry')
    BY <1>1, <1>2, <1>3, AddKeepsType, AddKeepsConsistent
<1>5. registry.versionToAddress[m.entry.version] = Zero
    BY <1>3 DEF CanRegister
<1>6. registry.latestVersion \in Nat /\ m.entry.version \in Nat
    BY <1>1, <1>2, VersionsAssumption DEF Registries, Entries
<1>7. LET s == registry' IN
      /\ m.entry.version \in Versions /\ m.entry.protocolAddress \in Addresses
      /\ \A v \in Versions :
             s.versionToAddress[v] = IF v = m.entry.version THEN m.entry.protocolAddress
                                     ELSE registry.versionToAddress[v]
      /\ \A a \in Addresses :
             s.addressToVersion[a] =
                 IF a = m.entry.protocolAddress
                    /\ m.entry.version > registry.addressToVersion[a]
                 THEN m.entry.version ELSE registry.addressToVersion[a]
      /\ s.latestVersion = IF m.entry.version > registry.latestVersion
                           THEN m.entry.version ELSE registry.latestVersion
    BY <1>1, <1>2, <1>3, AddEffect
<1>8. m.entry = [version |-> m.entry.version, protocolAddress |-> m.entry.protocolAddress]
    BY <1>2 DEF Entries
<1> QED
    BY <1>4, <1>5, <1>6, <1>7, <1>8

\* The initial states.
LEMMA InitIInv == Init => IInv
<1> SUFFICES ASSUME Init PROVE IInv
    OBVIOUS
<1>1. PICK entries \in InitialEntries :
          /\ \A i \in 1..Len(entries) :
                 CanRegister(AfterEntries(entries)[i - 1], entries[i])
          /\ registry = AfterEntries(entries)[Len(entries)]
    BY DEF Init, RegistryInit
<1>2. entries \in Seq(Entries)
    BY EntriesAssumption
<1>3. registry \in Registries /\ Consistent(registry) /\ FromEntries(registry, entries)
    BY <1>1, <1>2, ConstructorEffect
<1>4. registry.latestVersion \in Nat /\ 0 \in 0..MaxVersion
    BY <1>3, VersionsAssumption DEF Registries
<1>5. TypeOK
    BY <1>3, <1>4 DEF TypeOK, Init
<1>6. DOMAIN entries = 1..Len(entries)
    BY <1>2, LenProperties
<1>7. VersionsAuthorized
    BY <1>3, <1>6 DEF VersionsAuthorized, FromEntries
<1>8. MinWithinLatest
    BY <1>4 DEF MinWithinLatest, Init
<1> QED
    BY <1>3, <1>5, <1>7, <1>8 DEF IInv, RegistryConsistent

\* Every step keeps the inductive invariant.
LEMMA NextIInv == IInv /\ [Next]_vars => IInv'
<1> SUFFICES ASSUME IInv, [Next]_vars PROVE IInv'
    OBVIOUS
<1>1. /\ registry.latestVersion \in 0..MaxVersion
      /\ minTeleporterVersion \in 0..MaxVersion
      /\ MaxVersion \in Nat
    BY VersionsAssumption DEF IInv, TypeOK, Registries
<1>2. ASSUME NEW m \in SignedMessages, AddProtocolVersion(m), UNCHANGED << appVars, status >>
      PROVE  IInv'
    <2>1. /\ registry' \in Registries
          /\ Consistent(registry')
          /\ m.entry = [version |-> m.entry.version,
                        protocolAddress |-> m.entry.protocolAddress]
          /\ \A v \in Versions :
                 registry'.versionToAddress[v] =
                     IF v = m.entry.version THEN m.entry.protocolAddress
                     ELSE registry.versionToAddress[v]
          /\ registry'.latestVersion >= registry.latestVersion
        BY <1>2, AddProtocolVersionEffect
    <2>2. TypeOK'
        BY <1>2, <2>1 DEF TypeOK, IInv, appVars
    <2>3. VersionsAuthorized'
        <3> SUFFICES ASSUME NEW v \in Versions, registry'.versionToAddress[v] # Zero
                     PROVE  LET a == registry'.versionToAddress[v] IN
                            \/ \E entries \in InitialEntries : \E i \in DOMAIN entries :
                                   entries[i] = [version |-> v, protocolAddress |-> a]
                            \/ \E n \in SignedMessages :
                                   /\ n.sourceChainID = ThisChain
                                   /\ n.originSenderAddress = Zero
                                   /\ n.destinationAddress = ThisRegistry
                                   /\ n.entry = [version |-> v, protocolAddress |-> a]
            BY DEF VersionsAuthorized
        <3>1. CASE v = m.entry.version
            BY <1>2, <2>1, <3>1 DEF AddProtocolVersion, FromValidators
        <3>2. CASE v # m.entry.version
            BY <2>1, <3>2 DEF IInv, VersionsAuthorized
        <3> QED
            BY <3>1, <3>2
    <2>4. MinWithinLatest'
        <3>1. registry'.latestVersion \in 0..MaxVersion /\ minTeleporterVersion' = minTeleporterVersion
            BY <1>2, <2>1 DEF Registries, appVars
        <3> QED
            BY <1>1, <2>1, <3>1 DEF IInv, MinWithinLatest
    <2> QED
        BY <2>1, <2>2, <2>3, <2>4 DEF IInv, RegistryConsistent
<1>3. ASSUME registry' = registry, TypeOK', MinWithinLatest' PROVE IInv'
    BY <1>3 DEF IInv, RegistryConsistent, Consistent, VersionsOf, VersionsAuthorized
<1>4. CASE Construct
    BY <1>1, <1>3, <1>4 DEF Construct, LatestVersion, IInv, TypeOK, MinWithinLatest
<1>5. ASSUME NEW version \in Versions, UpdateMinTeleporterVersion(version) PROVE IInv'
    <2>1. minTeleporterVersion' \in 0..MaxVersion
        BY <1>1, <1>5 DEF UpdateMinTeleporterVersion, Versions
    <2> QED
        BY <1>3, <1>5, <2>1
           DEF UpdateMinTeleporterVersion, LatestVersion, IInv, TypeOK, MinWithinLatest
<1>6. ASSUME NEW a \in Addresses, PauseTeleporterAddress(a) \/ UnpauseTeleporterAddress(a)
      PROVE  IInv'
    BY <1>3, <1>6
       DEF PauseTeleporterAddress, UnpauseTeleporterAddress, IInv, TypeOK, MinWithinLatest
<1>7. ASSUME NEW m \in Messages, DeliverMessage(m) \/ RetryMessage(m) PROVE IInv'
    <2>1. status' \in [Messages -> {"sent", "failed", "executed"}]
        BY <1>7 DEF DeliverMessage, RetryMessage, IInv, TypeOK
    <2> QED
        BY <1>3, <1>7, <2>1
           DEF DeliverMessage, RetryMessage, appVars, IInv, TypeOK, MinWithinLatest
<1>8. CASE UNCHANGED vars
    BY <1>3, <1>8 DEF vars, IInv, TypeOK, MinWithinLatest
<1> QED
    BY <1>2, <1>4, <1>5, <1>6, <1>7, <1>8 DEF Next

\* The inductive invariant holds in every state.
THEOREM UpgradeSafety == Spec => []IInv
<1> QED
    BY InitIInv, NextIInv, PTL DEF Spec

\* Every mapping and version of the registry and of an application has its type.
THEOREM UpgradeTypeCorrect == Spec => []TypeOK
<1>1. IInv => TypeOK
    BY DEF IInv
<1> QED
    BY <1>1, UpgradeSafety, PTL

\* The two mappings and the latest version of a registry agree, for any order of
\* registrations.
THEOREM RegistryAlwaysConsistent == Spec => []RegistryConsistent
<1>1. IInv => RegistryConsistent
    BY DEF IInv
<1> QED
    BY <1>1, UpgradeSafety, PTL

\* Every registered version comes from the deployer or from the validators.
THEOREM VersionsAlwaysAuthorized == Spec => []VersionsAuthorized
<1>1. IInv => VersionsAuthorized
    BY DEF IInv
<1> QED
    BY <1>1, UpgradeSafety, PTL

\* An application accepts messages from the Teleporter it sends through.
THEOREM SendersAlwaysAccepted == Spec => []SendersAccepted
<1>1. ASSUME IInv PROVE SendersAccepted
    <2> SUFFICES ASSUME NEW a \in Addresses, SendsThrough(a) PROVE Accepts(a)
        BY DEF SendersAccepted
    <2>1. /\ registry.latestVersion \in 0..MaxVersion
          /\ minTeleporterVersion \in 0..MaxVersion
          /\ registry.addressToVersion[a] \in 0..MaxVersion
          /\ MaxVersion \in Nat
        BY <1>1, VersionsAssumption DEF IInv, TypeOK, Registries
    <2>2. registry.latestVersion \in VersionsOf(registry, a) /\ registry.latestVersion # 0
        BY <2>1 DEF SendsThrough, LatestVersion, VersionsOf, Versions
    <2>3. registry.latestVersion <= registry.addressToVersion[a]
        BY <1>1, <2>2 DEF IInv, RegistryConsistent, Consistent
    <2> QED
        BY <1>1, <2>1, <2>2, <2>3 DEF SendsThrough, Accepts, IInv, MinWithinLatest
<1> QED
    BY <1>1, UpgradeSafety, PTL

\* A registered version never changes; an address's version and the latest one
\* never fall.
THEOREM VersionsNeverChange == Spec => VersionsPermanent
<1> DEFINE Grows ==
        /\ \A v \in Versions :
               registry.versionToAddress[v] # Zero =>
                   registry'.versionToAddress[v] = registry.versionToAddress[v]
        /\ \A a \in Addresses :
               registry'.addressToVersion[a] >= registry.addressToVersion[a]
        /\ registry'.latestVersion >= registry.latestVersion
<1>1. ASSUME IInv, [Next]_vars PROVE [Grows]_registry
    <2>1. ASSUME NEW m \in SignedMessages, AddProtocolVersion(m) PROVE Grows
        <3>1. /\ registry.versionToAddress[m.entry.version] = Zero
              /\ m.entry.version \in Versions
              /\ \A v \in Versions :
                     registry'.versionToAddress[v] =
                         IF v = m.entry.version THEN m.entry.protocolAddress
                         ELSE registry.versionToAddress[v]
              /\ \A a \in Addresses :
                     registry'.addressToVersion[a] =
                         IF a = m.entry.protocolAddress
                            /\ m.entry.version > registry.addressToVersion[a]
                         THEN m.entry.version ELSE registry.addressToVersion[a]
              /\ registry'.latestVersion >= registry.latestVersion
            BY <1>1, <2>1, AddProtocolVersionEffect
        <3>2. m.entry.version \in Nat /\ \A a \in Addresses : registry.addressToVersion[a] \in Nat
            BY <1>1, <3>1, VersionsAssumption DEF IInv, TypeOK, Registries, Versions
        <3> QED
            BY <3>1, <3>2
    <2>2. CASE registry' = registry
        BY <2>2
    <2>3. \/ registry' = registry
          \/ \E m \in SignedMessages : AddProtocolVersion(m)
        BY <1>1 DEF Next, vars, Construct, UpdateMinTeleporterVersion, PauseTeleporterAddress,
                    UnpauseTeleporterAddress, DeliverMessage, RetryMessage
    <2> QED
        BY <2>1, <2>2, <2>3
<1> QED
    BY <1>1, UpgradeSafety, PTL DEF Spec, VersionsPermanent

\* What a step can do to what an application accepts: a new version, a new
\* minimum, a pause, or nothing.
LEMMA StepCases ==
    ASSUME IInv, [Next]_vars
    PROVE  \/ \E m \in SignedMessages :
                  AddProtocolVersion(m) /\ UNCHANGED << appVars, status >>
           \/ Construct
           \/ \E version \in Versions : UpdateMinTeleporterVersion(version)
           \/ \E a \in Addresses : PauseTeleporterAddress(a) \/ UnpauseTeleporterAddress(a)
           \/ UNCHANGED << registry, appVars >>
BY DEF Next, vars, appVars, DeliverMessage, RetryMessage

\* A new version keeps the versions of all other addresses and never lowers one.
LEMMA NewVersionEffect ==
    ASSUME IInv, NEW m \in SignedMessages, AddProtocolVersion(m),
           NEW a \in Addresses
    PROVE  /\ registry'.addressToVersion[a] >= registry.addressToVersion[a]
           /\ registry.addressToVersion[a] \in Nat /\ registry'.addressToVersion[a] \in Nat
           /\ registry'.addressToVersion[a] # registry.addressToVersion[a] =>
                  \E v \in Versions :
                      /\ v = registry'.addressToVersion[a]
                      /\ registry.versionToAddress[v] = Zero
                      /\ registry'.versionToAddress[v] = a
<1>1. /\ registry' \in Registries
      /\ m.entry.version \in Versions
      /\ registry.versionToAddress[m.entry.version] = Zero
      /\ \A v \in Versions :
             registry'.versionToAddress[v] =
                 IF v = m.entry.version THEN m.entry.protocolAddress
                 ELSE registry.versionToAddress[v]
      /\ registry'.addressToVersion[a] =
             IF a = m.entry.protocolAddress /\ m.entry.version > registry.addressToVersion[a]
             THEN m.entry.version ELSE registry.addressToVersion[a]
    BY AddProtocolVersionEffect
<1>2. registry.addressToVersion[a] \in Nat /\ registry'.addressToVersion[a] \in Nat
      /\ m.entry.version \in Nat
    BY <1>1, VersionsAssumption DEF IInv, TypeOK, Registries, Versions
<1> QED
    BY <1>1, <1>2

\* An application stops accepting an address only by what its owner does.
THEOREM OwnerAloneRevokes == Spec => OnlyOwnerRevokes
<1> DEFINE Revoked(a) == Accepts(a) /\ ~Accepts(a)' =>
               \/ minTeleporterVersion' > minTeleporterVersion
               \/ a \in pausedTeleporterAddresses'
<1>1. ASSUME IInv, [Next]_vars, NEW a \in Addresses PROVE Revoked(a)
    <2> SUFFICES ASSUME Accepts(a), ~Accepts(a)'
                 PROVE  \/ minTeleporterVersion' > minTeleporterVersion
                        \/ a \in pausedTeleporterAddresses'
        OBVIOUS
    <2>1. ASSUME NEW m \in SignedMessages, AddProtocolVersion(m), UNCHANGED << appVars, status >>
          PROVE  FALSE
        <3>1. /\ registry'.addressToVersion[a] >= registry.addressToVersion[a]
              /\ registry.addressToVersion[a] \in Nat /\ registry'.addressToVersion[a] \in Nat
            BY <1>1, <2>1, NewVersionEffect
        <3>2. minTeleporterVersion \in Nat
            BY <1>1, VersionsAssumption DEF IInv, TypeOK
        <3> QED
            BY <2>1, <3>1, <3>2 DEF Accepts, appVars
    <2>2. CASE Construct
        BY <2>2 DEF Construct, Accepts
    <2>3. ASSUME NEW version \in Versions, UpdateMinTeleporterVersion(version)
          PROVE  minTeleporterVersion' > minTeleporterVersion
        BY <2>3 DEF UpdateMinTeleporterVersion
    <2>4. ASSUME NEW b \in Addresses, PauseTeleporterAddress(b) \/ UnpauseTeleporterAddress(b)
          PROVE  a \in pausedTeleporterAddresses'
        BY <2>4 DEF PauseTeleporterAddress, UnpauseTeleporterAddress, Accepts
    <2>5. CASE UNCHANGED << registry, appVars >>
        BY <2>5 DEF Accepts, appVars
    <2> QED
        BY <1>1, <2>1, <2>2, <2>3, <2>4, <2>5, StepCases
<1>2. ASSUME IInv, [Next]_vars PROVE [\A a \in Addresses : Revoked(a)]_vars
    BY <1>1, <1>2
<1> QED
    BY <1>2, UpgradeSafety, PTL DEF Spec, OnlyOwnerRevokes

\* A retired address comes back only with a new version of its own; until then
\* none of its messages is executed.
THEOREM RetiredComesBackByVersion == Spec => RetiredStaysRetired
<1> DEFINE Retired(a) == constructed /\ registry.addressToVersion[a] < minTeleporterVersion =>
               /\ Accepts(a)' =>
                      \E v \in Versions :
                          /\ v >= minTeleporterVersion
                          /\ registry.versionToAddress[v] = Zero
                          /\ registry'.versionToAddress[v] = a
               /\ \A m \in Messages :
                      TeleporterOf(m) = a => (status'[m] = "executed" <=> status[m] = "executed")
<1>1. ASSUME IInv, [Next]_vars, NEW a \in Addresses PROVE Retired(a)
    <2> SUFFICES ASSUME constructed, registry.addressToVersion[a] < minTeleporterVersion
                 PROVE  /\ Accepts(a)' =>
                               \E v \in Versions :
                                   /\ v >= minTeleporterVersion
                                   /\ registry.versionToAddress[v] = Zero
                                   /\ registry'.versionToAddress[v] = a
                        /\ \A m \in Messages :
                               TeleporterOf(m) = a =>
                                   (status'[m] = "executed" <=> status[m] = "executed")
        OBVIOUS
    <2>1. registry.addressToVersion[a] \in Nat /\ minTeleporterVersion \in Nat
        BY <1>1, VersionsAssumption DEF IInv, TypeOK, Registries
    <2>2. ~Accepts(a)
        BY <2>1 DEF Accepts
    <2>3. ASSUME NEW m \in Messages, TeleporterOf(m) = a
          PROVE  status'[m] = "executed" <=> status[m] = "executed"
        <3>1. ASSUME NEW n \in Messages, DeliverMessage(n) \/ RetryMessage(n)
              PROVE  status'[m] = "executed" <=> status[m] = "executed"
            <4>1. CASE n = m
                BY <1>1, <2>2, <2>3, <3>1, <4>1 DEF DeliverMessage, RetryMessage, IInv, TypeOK
            <4>2. CASE n # m
                BY <1>1, <3>1, <4>2 DEF DeliverMessage, RetryMessage, IInv, TypeOK
            <4> QED
                BY <4>1, <4>2
        <3>2. status' = status \/ \E n \in Messages : DeliverMessage(n) \/ RetryMessage(n)
            BY <1>1 DEF Next, vars, Construct, UpdateMinTeleporterVersion,
                        PauseTeleporterAddress, UnpauseTeleporterAddress
        <3> QED
            BY <3>1, <3>2
    <2>4. ASSUME Accepts(a)'
          PROVE  \E v \in Versions :
                     /\ v >= minTeleporterVersion
                     /\ registry.versionToAddress[v] = Zero
                     /\ registry'.versionToAddress[v] = a
        <3>1. ASSUME NEW m \in SignedMessages, AddProtocolVersion(m),
                     UNCHANGED << appVars, status >>
              PROVE  \E v \in Versions :
                         /\ v >= minTeleporterVersion
                         /\ registry.versionToAddress[v] = Zero
                         /\ registry'.versionToAddress[v] = a
            <4>1. registry'.addressToVersion[a] >= minTeleporterVersion
                BY <2>4, <3>1 DEF Accepts, appVars
            <4>2. registry'.addressToVersion[a] # registry.addressToVersion[a]
                BY <2>1, <4>1
            <4> QED
                BY <1>1, <3>1, <4>1, <4>2, NewVersionEffect
        <3>2. CASE Construct
            BY <3>2 DEF Construct
        <3>3. ASSUME NEW version \in Versions, UpdateMinTeleporterVersion(version) PROVE FALSE
            <4>1. version \in Nat /\ version > minTeleporterVersion
                  /\ minTeleporterVersion' = version /\ registry' = registry
                BY <3>3, VersionsAssumption DEF UpdateMinTeleporterVersion, Versions
            <4>2. registry.addressToVersion[a] >= version
                BY <2>4, <4>1 DEF Accepts
            <4> QED
                BY <2>1, <4>1, <4>2
        <3>4. ASSUME NEW b \in Addresses, PauseTeleporterAddress(b) \/ UnpauseTeleporterAddress(b)
              PROVE  FALSE
            <4>1. registry' = registry /\ minTeleporterVersion' = minTeleporterVersion
                BY <3>4 DEF PauseTeleporterAddress, UnpauseTeleporterAddress
            <4> QED
                BY <2>1, <2>4, <4>1 DEF Accepts
        <3>5. CASE UNCHANGED << registry, appVars >>
            BY <2>2, <2>4, <3>5 DEF Accepts, appVars
        <3> QED
            BY <1>1, <3>1, <3>2, <3>3, <3>4, <3>5, StepCases
    <2> QED
        BY <2>3, <2>4
<1>2. ASSUME IInv, [Next]_vars PROVE [\A a \in Addresses : Retired(a)]_vars
    BY <1>1, <1>2
<1> QED
    BY <1>2, UpgradeSafety, PTL DEF Spec, RetiredStaysRetired
=============================================================================
