----------------------------- MODULE Envelopes -----------------------------
(* The signed messages of internal/wire/wire.go.  An envelope names a peer, *)
(* carries a document and a signature made with some key for some domain;   *)
(* a keyring says which key speaks for which peer.  A signature verifies if *)
(* it was made with that key for that domain: the bytes are left out.       *)
(* Documents carry times; `now` is the reader's clock, which may be behind  *)
(* the writer's by Skew (maxClockSkew).                                     *)
EXTENDS Integers

CONSTANTS Skew,         \* maxClockSkew
          DocumentLife  \* how long a published document is fresh

SkewAssumption == Skew \in Nat /\ DocumentLife \in Nat

Domains == {"result", "request", "mesh", "heartbeat", "document"}

\* seal, and with it the Sign functions: what `peer` signs with its key.
Seal(key, domain, peer, doc) == [peer |-> peer, key |-> key, domain |-> domain, doc |-> doc]

\* verify: the peer is known, and its key signed these bytes for this use.
Verified(ring, domain, e) ==
    /\ e.peer \in DOMAIN ring
    /\ e.key = ring[e.peer]
    /\ e.domain = domain

FromTheFuture(at, now) == at > now + Skew

\* OpenResult and OpenMeshReport: the document speaks for the peer that signed
\* it, and is not from the future.  Neither grows too old: what uses them
\* compares their times with those of others.
OpenResult(ring, e, now) ==
    Verified(ring, "result", e) /\ e.doc.prober = e.peer /\ ~FromTheFuture(e.doc.at, now)
OpenMeshReport(ring, e, now) ==
    Verified(ring, "mesh", e) /\ e.doc.prober = e.peer /\ ~FromTheFuture(e.doc.at, now)

\* OpenRequest: within its lifetime, its last instant included.
OpenRequest(ring, e, now) ==
    /\ Verified(ring, "request", e)
    /\ now <= e.doc.expires
    /\ ~FromTheFuture(e.doc.issued, now)
    /\ e.doc.expires > e.doc.issued

\* Mutant: a heartbeat counts however old it is.
OpenHeartbeatOfAnyAge(ring, e, now, maxAge) ==
    /\ Verified(ring, "heartbeat", e)
    /\ e.doc.prober = e.peer
    /\ ~FromTheFuture(e.doc.at, now)

\* OpenHeartbeat: bounded in both directions; maxAge 0 is no bound.
OpenHeartbeat(ring, e, now, maxAge) ==
    /\ Verified(ring, "heartbeat", e)
    /\ e.doc.prober = e.peer
    /\ ~FromTheFuture(e.doc.at, now)
    /\ maxAge > 0 => e.doc.at >= now - maxAge

\* OpenPublishedDocument: from this publisher, for this reader, of this kind
\* and fresh.
OpenPublishedDocument(ring, e, publisher, audience, kind, now) ==
    /\ Verified(ring, "document", e)
    /\ e.peer = publisher
    /\ e.doc.audience = audience
    /\ e.doc.kind = kind
    /\ ~FromTheFuture(e.doc.issued, now)
    /\ e.doc.issued >= now - DocumentLife
=============================================================================
