-------------------------- MODULE TeleporterRegistry --------------------------
(***************************************************************************)
(* One TeleporterRegistry (src/contracts/src/Teleporter/upgrades/          *)
(* TeleporterRegistry.sol): the versions of the TeleporterMessenger        *)
(* contract on one chain.  Entries come with the constructor, or in        *)
(* off-chain warp messages that the chain's validators sign and that       *)
(* anybody may present, in any order and as often as they like.            *)
(***************************************************************************)
EXTENDS Naturals, Sequences

CONSTANTS
    Addresses,            \* addresses of TeleporterMessenger contracts
    Zero,                 \* address(0), also VALIDATORS_SOURCE_ADDRESS
    MaxVersion,           \* bound: largest version in an entry
    MaxVersionIncrement,  \* MAX_VERSION_INCREMENT, 500 in the code
    InitialEntries,       \* bound: the lists a constructor may be given
    ThisChain,            \* the registry's blockchainID
    ThisRegistry,         \* the registry's address
    SignedMessages        \* bound: the warp messages that can be presented

Versions == 1..MaxVersion
Entries  == [version : 0..MaxVersion, protocolAddress : Addresses \cup {Zero}]

\* The fields of the two mappings and of latestVersion; 0 is no version.
Registries == [versionToAddress : [Versions -> Addresses \cup {Zero}],
               addressToVersion : [Addresses -> 0..MaxVersion],
               latestVersion    : 0..MaxVersion]

ASSUME VersionsAssumption == MaxVersion \in Nat /\ MaxVersionIncrement \in Nat

ASSUME RegistryZeroAssumption == Zero \notin Addresses

ASSUME EntriesAssumption ==
    /\ InitialEntries \subseteq Seq(Entries)
    /\ \A m \in SignedMessages : m.entry \in Entries

VARIABLE registry

EmptyRegistry ==
    [versionToAddress |-> [v \in Versions |-> Zero],
     addressToVersion |-> [a \in Addresses |-> 0],
     latestVersion    |-> 0]

Larger(m, n) == IF m > n THEN m ELSE n

\* (Mutant: a version can be registered again.)
ReplacesVersion(r, e) ==
    /\ e.version # 0
    /\ e.protocolAddress # Zero
    /\ e.version <= r.latestVersion + MaxVersionIncrement

\* What _addToRegistry requires of an entry.
CanRegister(r, e) ==
    /\ e.version # 0
    /\ r.versionToAddress[e.version] = Zero
    /\ e.protocolAddress # Zero
    /\ e.version <= r.latestVersion + MaxVersionIncrement

\* (Mutant: an address has the version it was registered with last.)
WithLastVersion(r, e) ==
    [versionToAddress |-> [r.versionToAddress EXCEPT ![e.version] = e.protocolAddress],
     addressToVersion |-> [r.addressToVersion EXCEPT ![e.protocolAddress] = e.version],
     latestVersion    |-> Larger(e.version, r.latestVersion)]

\* An address keeps the highest of its versions, and so does the registry.
AddToRegistry(r, e) ==
    [versionToAddress |-> [r.versionToAddress EXCEPT ![e.version] = e.protocolAddress],
     addressToVersion |-> [r.addressToVersion EXCEPT ![e.protocolAddress] =
                              Larger(e.version, @)],
     latestVersion    |-> Larger(e.version, r.latestVersion)]

\* The registry after the first i of the constructor's entries.
AfterEntries(entries) ==
    LET after[i \in 0..Len(entries)] ==
            IF i = 0 THEN EmptyRegistry ELSE AddToRegistry(after[i - 1], entries[i])
    IN  after

RegistryInit ==
    \E entries \in InitialEntries :
        /\ \A i \in 1..Len(entries) :
               CanRegister(AfterEntries(entries)[i - 1], entries[i])
        /\ registry = AfterEntries(entries)[Len(entries)]

\* (Mutant: the message may be for another registry.)
ForAnyRegistry(m) ==
    /\ m.sourceChainID = ThisChain
    /\ m.originSenderAddress = Zero

\* Signed by this chain's validators, off-chain, and for this registry.
FromValidators(m) ==
    /\ m.sourceChainID = ThisChain
    /\ m.originSenderAddress = Zero
    /\ m.destinationAddress = ThisRegistry

AddProtocolVersion(m) ==
    /\ FromValidators(m)
    /\ CanRegister(registry, m.entry)
    /\ registry' = AddToRegistry(registry, m.entry)

-----------------------------------------------------------------------------

VersionsOf(r, a) == {v \in Versions : r.versionToAddress[v] = a}

Consistent(r) ==
    /\ \A a \in Addresses :
           IF VersionsOf(r, a) = {}
           THEN r.addressToVersion[a] = 0
           ELSE /\ r.addressToVersion[a] \in VersionsOf(r, a)
                /\ \A v \in VersionsOf(r, a) : v <= r.addressToVersion[a]
    /\ IF \A a \in Addresses : VersionsOf(r, a) = {}
       THEN r.latestVersion = 0
       ELSE \E a \in Addresses : r.addressToVersion[a] = r.latestVersion
    /\ \A a \in Addresses : r.addressToVersion[a] <= r.latestVersion

\* The two mappings and the latest version agree, whatever the order in which
\* versions were registered: an address has the highest version that was
\* registered for it, or none, and the latest version is the highest of all.
RegistryConsistent == Consistent(registry)

\* Every version was given by the deployer or signed by this chain's validators
\* for this registry.
VersionsAuthorized ==
    \A v \in Versions : LET a == registry.versionToAddress[v] IN
        a # Zero =>
            \/ \E entries \in InitialEntries : \E i \in DOMAIN entries :
                   entries[i] = [version |-> v, protocolAddress |-> a]
            \/ \E m \in SignedMessages :
                   /\ m.sourceChainID = ThisChain
                   /\ m.originSenderAddress = Zero
                   /\ m.destinationAddress = ThisRegistry
                   /\ m.entry = [version |-> v, protocolAddress |-> a]

\* A registered version never changes, an address never loses its version and
\* gets a lower one, and the latest version never falls.
VersionsPermanent ==
    [][/\ \A v \in Versions :
              registry.versionToAddress[v] # Zero =>
                  registry'.versionToAddress[v] = registry.versionToAddress[v]
       /\ \A a \in Addresses :
              registry'.addressToVersion[a] >= registry.addressToVersion[a]
       /\ registry'.latestVersion >= registry.latestVersion]_registry
=============================================================================
