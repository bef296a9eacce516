------------------------ MODULE TeleporterUpgradeable ------------------------
(***************************************************************************)
(* An application built on TeleporterUpgradeable (src/contracts/src/       *)
(* Teleporter/upgrades/TeleporterUpgradeable.sol) and a registry, with the *)
(* messages that several versions of the TeleporterMessenger contract      *)
(* deliver to it and retry.  Only the application's owner changes its      *)
(* minimum version and pauses addresses (TeleporterOwnerUpgradeable.sol).  *)
(***************************************************************************)
EXTENDS TeleporterRegistry

CONSTANT Messages   \* bound: messages to the application, at a Teleporter each

\* The Teleporter that delivers a message.
CONSTANT TeleporterOf(_)

ASSUME TeleporterOfAssumption == \A m \in Messages : TeleporterOf(m) \in Addresses

VARIABLES
    constructed,                \* whether the application exists
    minTeleporterVersion,       \* _minTeleporterVersion
    pausedTeleporterAddresses,  \* _pausedTeleporterAddresses, as a set
    status                      \* [message]: at its Teleporter and the application

appVars == << constructed, minTeleporterVersion, pausedTeleporterAddresses >>
vars == << registry, constructed, minTeleporterVersion, pausedTeleporterAddresses, status >>

Init ==
    /\ RegistryInit
    /\ constructed = FALSE
    /\ minTeleporterVersion = 0
    /\ pausedTeleporterAddresses = {}
    /\ status = [m \in Messages |-> "sent"]

LatestVersion == registry.latestVersion

\* The application's constructor.
Construct ==
    /\ ~constructed
    /\ constructed' = TRUE
    /\ minTeleporterVersion' = LatestVersion
    /\ UNCHANGED << registry, pausedTeleporterAddresses, status >>

\* (Mutant: any later version may be required.)
AnyLaterVersion(version) ==
    /\ constructed
    /\ version > minTeleporterVersion
    /\ minTeleporterVersion' = version
    /\ UNCHANGED << registry, constructed, pausedTeleporterAddresses, status >>

\* (Mutant: the minimum may be lowered.)
AnyOtherVersion(version) ==
    /\ constructed
    /\ version <= LatestVersion
    /\ version # minTeleporterVersion
    /\ minTeleporterVersion' = version
    /\ UNCHANGED << registry, constructed, pausedTeleporterAddresses, status >>

\* The version need not be registered.
UpdateMinTeleporterVersion(version) ==
    /\ constructed
    /\ version <= LatestVersion
    /\ version > minTeleporterVersion
    /\ minTeleporterVersion' = version
    /\ UNCHANGED << registry, constructed, pausedTeleporterAddresses, status >>

PauseTeleporterAddress(a) ==
    /\ constructed
    /\ a \notin pausedTeleporterAddresses
    /\ pausedTeleporterAddresses' = pausedTeleporterAddresses \cup {a}
    /\ UNCHANGED << registry, constructed, minTeleporterVersion, status >>

UnpauseTeleporterAddress(a) ==
    /\ constructed
    /\ a \in pausedTeleporterAddresses
    /\ pausedTeleporterAddresses' = pausedTeleporterAddresses \ {a}
    /\ UNCHANGED << registry, constructed, minTeleporterVersion, status >>

\* receiveTeleporterMessage does not revert for this sender.
Accepts(a) ==
    /\ constructed
    /\ registry.addressToVersion[a] # 0
    /\ registry.addressToVersion[a] >= minTeleporterVersion
    /\ a \notin pausedTeleporterAddresses

\* _getTeleporterMessenger returns this address.
SendsThrough(a) ==
    /\ constructed
    /\ LatestVersion # 0
    /\ registry.versionToAddress[LatestVersion] = a
    /\ a \notin pausedTeleporterAddresses

\* A first delivery: the call to the application fails if it refuses this
\* Teleporter, or for reasons of its own (code or gas), and can be retried.
DeliverMessage(m) ==
    /\ status[m] = "sent"
    /\ \/ Accepts(TeleporterOf(m)) /\ status' = [status EXCEPT ![m] = "executed"]
       \/ status' = [status EXCEPT ![m] = "failed"]
    /\ UNCHANGED << registry, appVars >>

\* A retry that fails reverts and changes nothing.
RetryMessage(m) ==
    /\ status[m] = "failed"
    /\ Accepts(TeleporterOf(m))
    /\ status' = [status EXCEPT ![m] = "executed"]
    /\ UNCHANGED << registry, appVars >>

Next ==
    \/ \E m \in SignedMessages : AddProtocolVersion(m) /\ UNCHANGED << appVars, status >>
    \/ Construct
    \/ \E version \in Versions : UpdateMinTeleporterVersion(version)
    \/ \E a \in Addresses : PauseTeleporterAddress(a) \/ UnpauseTeleporterAddress(a)
    \/ \E m \in Messages : DeliverMessage(m) \/ RetryMessage(m)

Spec == Init /\ [][Next]_vars

\* Anybody may retry a failed message; its senders and receivers want it executed.
FairSpec == Spec /\ \A m \in Messages : WF_vars(RetryMessage(m))

-----------------------------------------------------------------------------

\* The type invariant.
TypeOK ==
    /\ registry \in Registries
    /\ constructed \in BOOLEAN
    /\ minTeleporterVersion \in 0..MaxVersion
    /\ pausedTeleporterAddresses \subseteq Addresses
    /\ status \in [Messages -> {"sent", "failed", "executed"}]

\* The application accepts messages from the Teleporter it sends through, so that
\* answers can come the same way: although the two are looked up in different
\* mappings, and whatever the owner required before.
SendersAccepted == \A a \in Addresses : SendsThrough(a) => Accepts(a)

\* New versions never take an address from the application: only its owner does,
\* by raising the minimum version or pausing the address.
OnlyOwnerRevokes ==
    [][\A a \in Addresses : Accepts(a) /\ ~Accepts(a)' =>
           \/ minTeleporterVersion' > minTeleporterVersion
           \/ a \in pausedTeleporterAddresses']_vars

\* An address whose version is below the minimum comes back only with a version
\* of its own that is not, never by what the owner or another address does; until
\* then what its messenger still holds for a retry stays there.
RetiredStaysRetired ==
    [][\A a \in Addresses :
           constructed /\ registry.addressToVersion[a] < minTeleporterVersion =>
               /\ Accepts(a)' =>
                      \E v \in Versions :
                          /\ v >= minTeleporterVersion
                          /\ registry.versionToAddress[v] = Zero
                          /\ registry'.versionToAddress[v] = a
               /\ \A m \in Messages :
                      TeleporterOf(m) = a => (status'[m] = "executed" <=> status[m] = "executed")]_vars

\* Once the application keeps sending through a Teleporter, every message that
\* this Teleporter could not deliver to it, even one delivered before the address
\* was registered, is executed in the end.
RetriesSucceed ==
    \A m \in Messages :
        <>[]SendsThrough(TeleporterOf(m)) => []<>(status[m] # "failed")

\* What src/contracts/src/Teleporter/upgrades/README.md says of
\* updateMinTeleporterVersion: the new minimum is less than the latest version.
MinUpdatedBelowLatest ==
    [][minTeleporterVersion' # minTeleporterVersion /\ constructed =>
           minTeleporterVersion' < registry.latestVersion]_vars
=============================================================================
