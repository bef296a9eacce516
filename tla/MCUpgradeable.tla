---------------------------- MODULE MCUpgradeable ----------------------------
(* Small instances of TeleporterUpgradeable for TLC. *)
EXTENDS TeleporterUpgradeable

CONSTANTS t1, t2, t3, m1, m2, m3, OtherChain, OtherRegistry

Entry(v, a) == [version |-> v, protocolAddress |-> a]

\* No entry, one, versions out of order, and one list that the constructor refuses.
Lists == { << >>, << Entry(1, t1) >>, << Entry(2, t1), Entry(1, t2) >>,
           << Entry(1, t1), Entry(1, t2) >> }

Signed(chain, origin, destination, entry) ==
    [sourceChainID |-> chain, originSenderAddress |-> origin,
     destinationAddress |-> destination, entry |-> entry]

\* Messages that the registry must refuse: of another chain, of a contract, and
\* for another registry.
Foreign(entry) ==
    { Signed(OtherChain, Zero, ThisRegistry, entry), Signed(ThisChain, t2, ThisRegistry, entry),
      Signed(ThisChain, Zero, OtherRegistry, entry) }

\* All entries but one for this registry, invalid ones included.
AllMessages ==
    { Signed(ThisChain, Zero, ThisRegistry, e) : e \in Entries \ {Entry(3, t2)} }
        \cup Foreign(Entry(3, t2))

\* A new version, then the old address again with a version of its own.
RollbackMessages ==
    { Signed(ThisChain, Zero, ThisRegistry, e) : e \in {Entry(1, t1), Entry(2, t2), Entry(3, t1)} }

Teleporters(m) == CASE m = m1 -> t1 [] m = m2 -> t2 [] m = m3 -> t3
=============================================================================
