----------------------------- MODULE WireQueue -----------------------------
(***************************************************************************)
(* The wire connections of one resident database                           *)
(* (src/packages/server/src/wire-queue.ts, and pump(), detach() and        *)
(* evict() of wire-router.ts).  PGlite is a single Postgres session; the   *)
(* QueryQueue shares it between connections, one protocol message at a     *)
(* time, and keeps other connections out while one is in a transaction.    *)
(*                                                                         *)
(* JavaScript runs one callback at a time: an action is what runs between  *)
(* two awaits.  A message is a simple query that opens a transaction, ends *)
(* one, or does neither, or one of the two messages of an extended query   *)
(* that hang together: the Parse that fills the session's unnamed slot and *)
(* the Bind (with its Execute and Sync) that uses what it finds there.     *)
(* Bytes and framing are left out.                                         *)
(***************************************************************************)
EXTENDS Naturals, SequencesExt

CONSTANTS
    Handler,      \* client connections
    Nobody,       \* lastHandlerId = null
    MaxSent,      \* bound: messages a client sends
    MaxEvictions  \* bound: attempts to evict this database

ASSUME WireQueueAssumption ==
    /\ Nobody \notin Handler
    /\ MaxSent \in Nat
    /\ MaxEvictions \in Nat

VARIABLES
    conn,       \* each connection: "new", "open", "terminating", "ending", "gone" or "cut"
    sent,       \* how many messages each client has sent
    opened,     \* has the client sent a BEGIN and no COMMIT or ROLLBACK since?
    parsed,     \* was its latest message a Parse?
    queue,      \* QueryQueue.queue
    engine,     \* the calls PGlite's mutex admits in turn; the first one runs
    inTx,       \* engine.isInTransaction()
    slot,       \* whose statement the session's unnamed slot holds
    last,       \* lastHandlerId
    evict,      \* the eviction under way: "no", "drain", "flush" or "done"
    evictions,  \* how many were begun
    owner,      \* history: who opened the transaction
    missed      \* history: who left in a way that rolls nothing back

clientVars  == <<sent, opened, parsed>>
sessionVars == <<inTx, slot, last, owner>>
evictVars   == <<evict, evictions>>
vars == <<conn, clientVars, queue, engine, sessionVars, evictVars, missed>>

----------------------------------------------------------------------------
Kind == {"begin", "stmt", "end", "parse", "bind"}

Message == [h : Handler, kind : Kind, inside : BOOLEAN]

RollbackOf(h) == [h |-> h, kind |-> "rollback", inside |-> FALSE]

IsMessage(job) == job.kind # "rollback"

(* `processing`: drain() is inside its loop.                               *)
Processing(e) == \E i \in DOMAIN e : IsMessage(e[i])

(* conn.entry is this database's.                                          *)
Attached(h) == conn[h] \in {"open", "terminating", "ending"}

Init ==
    /\ conn = [h \in Handler |-> "new"]
    /\ sent = [h \in Handler |-> 0]
    /\ opened = [h \in Handler |-> FALSE]
    /\ parsed = [h \in Handler |-> FALSE]
    /\ queue = <<>>
    /\ engine = <<>>
    /\ inTx = FALSE
    /\ slot = Nobody
    /\ last = Nobody
    /\ evict = "no"
    /\ evictions = 0
    /\ owner = Nobody
    /\ missed = {}

----------------------------------------------------------------------------
(* Wrong: the first message, whoever is in a transaction.                  *)
AnybodyNext(q, tx, l) == DOMAIN q

(* take(): while the session is in a transaction only messages of the      *)
(* handler that ran last are eligible.                                     *)
Eligible(q, tx, l) ==
    IF tx /\ l # Nobody THEN {i \in DOMAIN q : q[i].h = l} ELSE DOMAIN q

(* drain(), to its next await, with q queued and e before it in the mutex. *)
Drain(q, tx, l, e) ==
    LET able  == Eligible(q, tx, l)
        first == CHOOSE i \in able : \A j \in able : i <= j
    IN  IF able = {} THEN /\ queue' = q
                          /\ engine' = e
                     ELSE /\ queue' = RemoveAt(q, first)
                          /\ engine' = Append(e, q[first])

(* Wrong: drain() is entered twice.                                        *)
EnqueueAlways(item) == Drain(Append(queue, item), inTx, last, engine)

(* enqueue().                                                              *)
Enqueue(item) ==
    IF Processing(engine)
    THEN queue' = Append(queue, item) /\ UNCHANGED engine
    ELSE Drain(Append(queue, item), inTx, last, engine)

(* Wrong: anybody's transaction.                                           *)
OwnsAny(h) == inTx

(* Wrong: never.                                                           *)
OwnsNone(h) == FALSE

(* ownsOpenTransaction().                                                  *)
Owns(h) == inTx /\ last = h

(* The connection is routed here; not while the database is being evicted. *)
Attach(h) ==
    /\ conn[h] = "new"
    /\ evict = "no"
    /\ conn' = [conn EXCEPT ![h] = "open"]
    /\ UNCHANGED <<clientVars, queue, engine, sessionVars, evictVars, missed>>

(* pump(): a client sends a message, without waiting for earlier replies;  *)
(* after a Parse, its Bind.                                                *)
Send(h, kind) ==
    /\ conn[h] = "open"
    /\ sent[h] < MaxSent
    /\ parsed[h] <=> kind = "bind"
    /\ kind = "begin" => ~opened[h]
    /\ kind = "end" => opened[h]
    /\ sent' = [sent EXCEPT ![h] = @ + 1]
    /\ opened' = [opened EXCEPT ![h] = (@ \/ kind = "begin") /\ kind # "end"]
    /\ parsed' = [parsed EXCEPT ![h] = kind = "parse"]
    /\ Enqueue([h |-> h, kind |-> kind, inside |-> opened[h]])
    /\ UNCHANGED <<conn, sessionVars, evictVars, missed>>

(* What a message leaves in the unnamed slot; a simple query clears it.    *)
SlotAfter(m) == CASE m.kind = "parse" -> m.h
                  [] m.kind = "bind"  -> slot
                  [] OTHER            -> Nobody

(* The message at the head of the mutex has run: drain() notes who it was  *)
(* from and goes on.                                                       *)
Succeed ==
    LET m == Head(engine)
    IN  /\ inTx' = ((inTx \/ m.kind = "begin") /\ m.kind # "end")
        /\ slot' = SlotAfter(m)
        /\ owner' = IF ~inTx' THEN Nobody ELSE IF inTx THEN owner ELSE m.h
        /\ last' = m.h
        /\ Drain(queue, inTx', last', Tail(engine))
        /\ UNCHANGED conn

(* The engine throws: the item is rejected, which fails its connection,    *)
(* and drain() goes on.                                                    *)
Fail ==
    LET h == Head(engine).h
    IN  /\ conn' = [conn EXCEPT ![h] = IF Attached(h) THEN "ending" ELSE @]
        /\ Drain(queue, inTx, last, Tail(engine))
        /\ UNCHANGED sessionVars

Execute ==
    /\ engine # <<>>
    /\ IsMessage(Head(engine))
    /\ Succeed \/ Fail
    /\ UNCHANGED <<clientVars, evictVars, missed>>

(* Wrong: nobody is woken after the rollback.                              *)
Resume(q, e) == queue' = q /\ engine' = e

(* rollbackIfOwned(), once ROLLBACK has run: drain() is entered unless it  *)
(* is running.                                                             *)
AfterRollback(q, e) ==
    IF Processing(e) THEN queue' = q /\ engine' = e
                     ELSE Drain(q, FALSE, Nobody, e)

Rollback ==
    /\ engine # <<>>
    /\ ~IsMessage(Head(engine))
    /\ inTx' = FALSE
    /\ slot' = Nobody
    /\ owner' = Nobody
    /\ last' = Nobody
    /\ AfterRollback(queue, Tail(engine))
    /\ conn' = [conn EXCEPT ![Head(engine).h] = IF @ = "terminating" THEN "ending" ELSE @]
    /\ UNCHANGED <<clientVars, evictVars, missed>>

(* pump() meets a Terminate: roll back an open transaction, then end the   *)
(* socket.  Messages of the connection still queued stay there.            *)
Terminate(h) ==
    /\ conn[h] = "open"
    /\ \/ /\ Owns(h)
          /\ engine' = Append(engine, RollbackOf(h))
          /\ conn' = [conn EXCEPT ![h] = "terminating"]
       \/ /\ ~Owns(h)
          /\ conn' = [conn EXCEPT ![h] = "ending"]
          /\ UNCHANGED engine
    /\ UNCHANGED <<clientVars, queue, sessionVars, evictVars, missed>>

(* A message of h that will open a transaction is being executed.          *)
Beginning(h) == \E i \in DOMAIN engine : engine[i].h = h /\ engine[i].kind = "begin"

(* clearForHandler(): what is left of a queue without the messages of h,   *)
(* in their order.  Written without SelectSeq, whose definition is         *)
(* recursive, so that theorems can be proved of it.                        *)
Without(q, h) ==
    LET kept   == {i \in DOMAIN q : q[i].h # h}
        nth(n) == CHOOSE i \in kept : Cardinality({j \in kept : j <= i}) = n
    IN  [n \in 1..Cardinality(kept) |-> q[nth(n)]]

(* detach(): the socket is closed, by whatever side.                       *)
Detach(h) ==
    /\ Attached(h)
    /\ conn' = [conn EXCEPT ![h] = "gone"]
    /\ queue' = Without(queue, h)
    /\ engine' = IF Owns(h) THEN Append(engine, RollbackOf(h)) ELSE engine
    /\ missed' = IF Beginning(h) THEN missed \cup {h} ELSE missed
    /\ UNCHANGED <<clientVars, sessionVars, evictVars>>

----------------------------------------------------------------------------
(* evict(): no new connections; queued messages and connections are failed *)
(* and detached from the entry.                                            *)
EvictStart ==
    /\ evict = "no"
    /\ evictions < MaxEvictions
    /\ evictions' = evictions + 1
    /\ evict' = "drain"
    /\ queue' = <<>>
    /\ conn' = [h \in Handler |-> IF Attached(h) THEN "cut" ELSE conn[h]]
    /\ missed' = missed \cup {h \in Handler : Attached(h)}
    /\ UNCHANGED <<clientVars, engine, sessionVars>>

Idle == ~Processing(engine) /\ queue = <<>>

(* whenIdle(), or its timeout, which calls the eviction off.               *)
EvictDrain ==
    /\ evict = "drain"
    /\ \/ Idle /\ evict' = "flush"
       \/ ~Idle /\ evict' = "no"
    /\ UNCHANGED <<conn, clientVars, queue, engine, sessionVars, evictions, missed>>

(* flush(): a failure restores the entry to service, a success closes the  *)
(* instance.                                                               *)
EvictFlush ==
    /\ evict = "flush"
    /\ evict' \in {"no", "done"}
    /\ UNCHANGED <<conn, clientVars, queue, engine, sessionVars, evictions, missed>>

Next ==
    \/ \E h \in Handler :
          \/ Attach(h) \/ Terminate(h) \/ Detach(h)
          \/ \E kind \in Kind : Send(h, kind)
    \/ Execute \/ Rollback
    \/ EvictStart \/ EvictDrain \/ EvictFlush

Spec == Init /\ [][Next]_vars

(* A client that has opened a transaction ends it or goes away.            *)
Finish(h) == owner = h /\ (Send(h, "end") \/ Detach(h))

(* The engine answers, an eviction comes to an end, and so does every      *)
(* client's transaction: the caveat of the header of wire-queue.ts, "a     *)
(* handler that opens a transaction and then goes quiet stalls every other *)
(* handler".  Clients that wait need not leave.                            *)
FairSpec ==
    /\ Spec
    /\ WF_vars(Execute) /\ WF_vars(Rollback)
    /\ WF_vars(EvictDrain) /\ WF_vars(EvictFlush)
    /\ \A h \in Handler : WF_vars(Finish(h))

----------------------------------------------------------------------------
(* Types; and messages execute strictly one at a time.                     *)
TypeOK ==
    /\ conn \in [Handler -> {"new", "open", "terminating", "ending", "gone", "cut"}]
    /\ sent \in [Handler -> 0..MaxSent]
    /\ opened \in [Handler -> BOOLEAN]
    /\ queue \in Seq(Message)
    /\ engine \in Seq(Message \cup {RollbackOf(h) : h \in Handler})
    /\ \A i, j \in DOMAIN engine :
          IsMessage(engine[i]) /\ IsMessage(engine[j]) => i = j
    /\ parsed \in [Handler -> BOOLEAN]
    /\ inTx \in BOOLEAN
    /\ slot \in Handler \cup {Nobody}
    /\ last \in Handler \cup {Nobody}
    /\ evict \in {"no", "drain", "flush", "done"}
    /\ evictions \in 0..MaxEvictions
    /\ owner \in Handler \cup {Nobody}
    /\ inTx <=> owner # Nobody
    /\ missed \subseteq Handler

Executes(h) == Execute /\ Head(engine).h = h

(* No message is executed inside the transaction of another connection:    *)
(* "a `BEGIN` from one lands inside the other's transaction and both see   *)
(* the wrong snapshot" is what the queue is there to prevent.              *)
TxIsolated ==
    [][\A h \in Handler : Executes(h) /\ inTx => owner = h]_vars

(* What a connection sends between its BEGIN and its COMMIT runs inside    *)
(* the transaction it opened, for as long as the connection stands: no     *)
(* departure, Terminate or eviction of others ends it underneath.  A Bind  *)
(* among it runs the statement its own Parse put there.                    *)
TxWhole ==
    [][\A h \in Handler :
         Executes(h) /\ conn[h] = "open" /\ Head(engine).inside =>
            /\ inTx /\ owner = h
            /\ Head(engine).kind = "bind" => slot = h]_vars

(* The same outside a transaction: what "already protects the single       *)
(* unnamed slot from concurrent clobber" would promise.  take() keeps      *)
(* nobody out there, and the Bind of one client runs the statement of      *)
(* another.                                                                *)
SlotIsOwn ==
    [][\A h \in Handler :
         Executes(h) /\ conn[h] = "open" /\ Head(engine).kind = "bind" => slot = h]_vars

(* Somebody is there to end the transaction: its connection, or a ROLLBACK *)
(* on its way.                                                             *)
Attended ==
    inTx => \/ Attached(owner)
            \/ \E i \in DOMAIN engine : engine[i] = RollbackOf(owner)

(* "its departure issues a ROLLBACK": nobody leaves an open transaction    *)
(* behind.                                                                 *)
NoOrphan == Attended

(* The two departures that do leave one are the only ones: while the       *)
(* connection's own BEGIN is executing, and by an eviction that is then    *)
(* refused.                                                                *)
OrphansExplained == inTx /\ ~Attended => owner \in missed

Waiting(h) == \E i \in DOMAIN queue : queue[i].h = h

(* Every queued message is executed or rejected, unless such a transaction *)
(* is left behind, which then blocks the database for good.                *)
EveryoneServed ==
    \A h \in Handler : Waiting(h) ~> ~Waiting(h) \/ (inTx /\ ~Attended)
=============================================================================
