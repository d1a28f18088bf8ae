-------------------------- MODULE SessionProtocol ---------------------------
(***************************************************************************)
(* Navigator runtimes writing one session through the authoritative store: *)
(* harness/src/persistence.ts (CyreneSessionPersistence and                *)
(* CyreneSessionHandle) and persistence-wire.ts over the operations of     *)
(* module SessionStore.                                                    *)
(*                                                                         *)
(* A JavaScript turn (the code between two awaits) is one action.  Every    *)
(* request is a call record: "sent" until the server has executed it,      *)
(* "done" until the client reads the answer.  A request whose client timed  *)
(* out or died may still be executed later: it becomes a stray.            *)
(*                                                                         *)
(* Each runtime acts as one principal; of the other principals only the     *)
(* requests that reach the store are modelled.  Handles are numbered in the *)
(* order they are adopted; the events a handle writes carry its number as   *)
(* body.  The SHA-256 batch id is the batch itself.  External: the DSH agent loop that *)
(* produces events, asks for tools and opens a session once at a time.      *)
(***************************************************************************)
EXTENDS SessionStore

CONSTANTS
  Runtime,      \* principals modelled in detail
  s0,           \* the session
  MaxHandles,   \* handles adopted in one behaviour
  BatchSize,    \* config.batchSize
  MaxPending,   \* config.maxPendingEvents
  MaxOps,       \* operations waiting in one handle's chain
  MaxFaults     \* timeouts and runtime crashes in one behaviour

Handle == 1..MaxHandles
Others == Principal \ Runtime   \* writers of which only the requests are modelled

ASSUME ProtocolAssumption ==
  /\ s0 \in Session
  /\ Runtime \subseteq Principal
  /\ \A rt \in Runtime, p \in Others : ActorOf[rt] # ActorOf[p]
  /\ MaxHandles \in Nat /\ BatchSize \in Nat \ {0}
  /\ MaxPending \in Nat \ {0} /\ MaxOps \in Nat \ {0} /\ MaxFaults \in Nat
  /\ Handle \cup {0} \subseteq Body

\* The batch is its own id, and the store's bounds admit what a handle sends.
ASSUME BatchAssumption == BatchSize <= MaxBatch /\ BoundedBatch \subseteq BatchId

VARIABLES
  hs,         \* the adopted handles, in order
  writers,    \* [Runtime -> Handle or 0]: the writers map
  takeovers,  \* [Runtime -> Handle or 0]: the takeovers map
  opening,    \* [Runtime -> call]: the create/open/takeover request in flight
  resuming,   \* [Runtime -> phase of resumeWithTakeover]
  strays,     \* requests the server may still execute though nobody waits
  faults

clientVars == <<hs, writers, takeovers, opening, resuming, strays, faults>>
allVars    == <<vars, clientVars>>

NoCall == [kind |-> "none", batch |-> << >>, expected |-> {}, state |-> "idle",
           result |-> "none", next |-> 0, epoch |-> 0, token |-> None]
Call(kind, batch, expected) ==
  [NoCall EXCEPT !.kind = kind, !.batch = batch, !.expected = expected, !.state = "sent"]

\* adopt: the fields of a new CyreneSessionHandle.  produced counts the events of
\* the live session, dropped holds those enqueue refused, ran counts those that
\* existed when the last tool that started was requested, released that the
\* server executed this handle's release.
NewHandle(rt, c) ==
  [rt |-> rt, phase |-> "open", lost |-> FALSE, epoch |-> c.epoch, token |-> c.token,
   start |-> c.next, next |-> c.next, produced |-> c.next, pending |-> << >>,
   timer |-> FALSE, ops |-> << >>, call |-> NoCall, beat |-> NoCall, released |-> FALSE,
   ran |-> c.next, dropped |-> {}]

K(rt)  == KeyOf(rt, s0)
Live(h) == hs[h].phase \in {"open", "closing"}

ProtocolInit ==
  /\ Init
  /\ hs = << >>
  /\ writers = [rt \in Runtime |-> 0]
  /\ takeovers = [rt \in Runtime |-> 0]
  /\ opening = [rt \in Runtime |-> NoCall]
  /\ resuming = [rt \in Runtime |-> "no"]
  /\ strays = {} /\ faults = 0

-----------------------------------------------------------------------------
(* The server side of a request: SessionStore's operation and its answer.  *)

\* _new_token: tokens are opaque, so which fresh one is drawn does not matter.
NewToken == CHOOSE t \in Token : t \notin Minted

\* The store executes request r of runtime rt under the capability (t, e).
Execute(rt, r, t, e) ==
  \/ r.kind = "create"    /\ create_session(rt, s0, NewToken)
  \/ r.kind \in {"open", "takeover"} /\ open_handle(rt, s0, r.expected, NewToken)
  \/ r.kind = "append"    /\ append_events(rt, s0, t, e, r.batch, r.batch)
  \/ r.kind = "heartbeat" /\ heartbeat(rt, s0, t, e)
  \/ r.kind = "release"   /\ release(rt, s0, t, e)

Answer(rt, r, t, e) ==
  CASE r.kind = "create" -> CreateResult(rt, K(rt))
    [] r.kind \in {"open", "takeover"} -> OpenResult(rt, K(rt), r.expected)
    [] r.kind = "append" -> AppendResult(rt, K(rt), t, e, r.batch, r.batch)
    [] OTHER -> WriterResult(rt, K(rt), t, e)

\* Rejected requests, replays and flush commit nothing.
Serve(rt, r, t, e) ==
  IF Answer(rt, r, t, e) = "OK" /\ r.kind # "flush"
  THEN Execute(rt, r, t, e)
  ELSE UNCHANGED vars

Opens(r) == r.kind \in {"create", "open", "takeover"}

\* The call as the client will read it.
Answered(rt, r, t, e) ==
  [r EXCEPT !.state = "done", !.result = Answer(rt, r, t, e),
            !.next = CASE r.kind = "append" -> AppendNextSeq(K(rt), e, r.batch, r.batch)
                       [] Opens(r)           -> row[K(rt)].count
                       [] OTHER              -> 0,
            !.epoch = IF Opens(r) THEN row'[K(rt)].epoch ELSE 0,
            !.token = IF Opens(r) THEN row'[K(rt)].token ELSE None]

ServeHandle(h, slot) ==
  LET x == hs[h] r == x[slot] IN
  /\ r.state = "sent"
  /\ Serve(x.rt, r, x.token, x.epoch)
  /\ hs' = [hs EXCEPT ![h][slot] = Answered(x.rt, r, x.token, x.epoch),
                      ![h].released = @ \/ (r.kind = "release" /\
                                            Answer(x.rt, r, x.token, x.epoch) = "OK")]
  /\ UNCHANGED <<writers, takeovers, opening, resuming, strays, faults>>

ServeOpening(rt) ==
  /\ opening[rt].state = "sent"
  /\ Serve(rt, opening[rt], None, 0)
  /\ opening' = [opening EXCEPT ![rt] = Answered(rt, opening[rt], None, 0)]
  /\ UNCHANGED <<hs, writers, takeovers, resuming, strays, faults>>

ServeStray(q) ==
  /\ Serve(q.rt, q.call, q.token, q.epoch)
  /\ strays' = strays \ {q}
  /\ hs' = [h \in DOMAIN hs |->
              IF q.call.kind = "release" /\ hs[h].token = q.token
                 /\ Answer(q.rt, q.call, q.token, q.epoch) = "OK"
              THEN [hs[h] EXCEPT !.released = TRUE] ELSE hs[h]]
  /\ UNCHANGED <<writers, takeovers, opening, resuming, faults>>

\* What is left of a request when its client stops waiting.
Stray(rt, c, t, e) ==
  IF c.state = "sent" THEN {[rt |-> rt, call |-> c, token |-> t, epoch |-> e]} ELSE {}

-----------------------------------------------------------------------------
(* Opening a writer.                                                       *)

adopt(rt, c) ==
  /\ Len(hs) < MaxHandles
  /\ hs' = Append(hs, NewHandle(rt, c))
  /\ writers' = [writers EXCEPT ![rt] = Len(hs) + 1]

\* External: the agent loop keeps one agent per session and opens its writer once
\* at a time (ctx.agents, session-control.ts:287).  CyreneSessionPersistence itself
\* refuses only a takeover of a session it writes or is taking over already.
MayOpen(rt) ==
  /\ opening[rt] = NoCall /\ resuming[rt] = "no" /\ Len(hs) < MaxHandles
  /\ writers[rt] # 0 => hs[writers[rt]].phase # "open"

\* create: external session ids are fresh, open: external sessions were listed
create(rt) ==
  /\ MayOpen(rt) /\ K(rt) \notin sessions
  /\ opening' = [opening EXCEPT ![rt] = Call("create", << >>, {})]
  /\ UNCHANGED <<vars, hs, writers, takeovers, resuming, strays, faults>>

\* open(id, 'write') outside resumeWithTakeover: nothing is reserved
open(rt) ==
  /\ MayOpen(rt) /\ K(rt) \in sessions
  /\ opening' = [opening EXCEPT ![rt] = Call("open", << >>, {})]
  /\ UNCHANGED <<vars, hs, writers, takeovers, resuming, strays, faults>>

\* resumeWithTakeover: expectedEpoch was observed some time before.
resumeWithTakeover(rt, expectedEpoch) ==
  /\ MayOpen(rt) /\ writers[rt] = 0
  /\ expectedEpoch <= row[K(rt)].epoch
  /\ opening' = [opening EXCEPT ![rt] = Call("takeover", << >>, {expectedEpoch})]
  /\ resuming' = [resuming EXCEPT ![rt] = "requested"]
  /\ UNCHANGED <<vars, hs, writers, takeovers, strays, faults>>

\* The answer of create, open or takeover reaches the runtime.
Opened(rt) ==
  LET c == opening[rt] IN
  /\ c.state = "done"
  /\ opening' = [opening EXCEPT ![rt] = NoCall]
  /\ IF c.result = "OK"
     THEN /\ adopt(rt, c)
          /\ IF c.kind = "takeover"
             THEN /\ takeovers' = [takeovers EXCEPT ![rt] = Len(hs) + 1]
                  /\ resuming' = [resuming EXCEPT ![rt] = "resuming"]
             ELSE UNCHANGED <<takeovers, resuming>>
     ELSE /\ UNCHANGED <<hs, writers, takeovers>>
          /\ resuming' = [resuming EXCEPT ![rt] = "no"]
  /\ UNCHANGED <<vars, strays, faults>>

\* The upstream resume path opens the reserved writer.
openReserved(rt) ==
  /\ resuming[rt] = "resuming" /\ takeovers[rt] # 0
  /\ takeovers' = [takeovers EXCEPT ![rt] = 0]
  /\ UNCHANGED <<vars, hs, writers, opening, resuming, strays, faults>>

\* resume() returns after acquiring the writer.
ResumeDone(rt) ==
  /\ resuming[rt] = "resuming" /\ takeovers[rt] = 0
  /\ resuming' = [resuming EXCEPT ![rt] = "no"]
  /\ UNCHANGED <<vars, hs, writers, takeovers, opening, strays, faults>>

-----------------------------------------------------------------------------
(* The operation chain of a handle.                                        *)

\* The part of the chain after its head has settled.
Settled(x) == [x EXCEPT !.ops = Tail(@), !.call = NoCall]

\* The batch drain cuts from the retained events.
NextBatch(x) ==
  SubSeq(x.pending, 1, IF Len(x.pending) < BatchSize THEN Len(x.pending) ELSE BatchSize)

\* assertWriter and, in persist, assertContiguous
MaySend(x) == ~x.lost /\ Contiguous(NextBatch(x), x.next)

\* Mutant: an operation confirms the prefix without writing what is retained.
DrainNothing(x) == Call("flush", << >>, {})

\* drain followed by mutate('flush'): what the running operation sends next.
Drain(x) ==
  IF x.pending # << >> THEN Call("append", NextBatch(x), {}) ELSE Call("flush", << >>, {})

\* Mutant: a closing handle removes whatever the runtime has registered.
ForgetAny(m, h) == [m EXCEPT ![hs[h].rt] = 0]

\* CyreneSessionPersistence.release: an older handle cannot remove its successor.
Forget(m, h) == [rt \in Runtime |-> IF m[rt] = h THEN 0 ELSE m[rt]]

\* The running operation rejects.  close() runs its finally block.
Fail(h, x) ==
  IF Head(x.ops).name = "close"
  THEN /\ hs' = [hs EXCEPT ![h] = [Settled(x) EXCEPT !.phase = "closed", !.timer = FALSE,
                                                           !.pending = << >>]]
       /\ writers' = Forget(writers, h)
       /\ takeovers' = Forget(takeovers, h)
  ELSE /\ hs' = [hs EXCEPT ![h] = Settled(x)]
       /\ UNCHANGED <<writers, takeovers>>

\* Mutant: close does not wait for the renewal in flight.
StartOpUnjoined(h) ==
  LET x == [hs[h] EXCEPT !.timer = FALSE] IN
  /\ Live(h) /\ x.ops # << >> /\ x.call = NoCall
  /\ IF ~MaySend(x) THEN Fail(h, x)
     ELSE /\ hs' = [hs EXCEPT ![h] = [x EXCEPT !.call = Drain(x)]]
          /\ UNCHANGED <<writers, takeovers>>
  /\ UNCHANGED <<vars, opening, resuming, strays, faults>>

\* Start the operation at the head of the chain; close joins the heartbeat first.
StartOp(h) ==
  LET x == [hs[h] EXCEPT !.timer = FALSE] IN
  /\ Live(h) /\ x.ops # << >> /\ x.call = NoCall
  /\ Head(x.ops).name = "close" => x.beat = NoCall
  /\ IF ~MaySend(x) THEN Fail(h, x)
     ELSE /\ hs' = [hs EXCEPT ![h] = [x EXCEPT !.call = Drain(x)]]
          /\ UNCHANGED <<writers, takeovers>>
  /\ UNCHANGED <<vars, opening, resuming, strays, faults>>

\* Mutant: a refused request is taken for an accepted one.
AcceptedAny(x) == TRUE

\* persist and mutate: the answer is a success, and an append moved next_seq by the batch.
Accepted(x) ==
  /\ x.call.result \in {"OK", "REPLAY"}
  /\ x.call.kind = "append" => x.call.next = x.next + Len(x.call.batch)

\* persist: the acknowledged prefix grows, the batch leaves pending.
Acknowledged(x) ==
  [x EXCEPT !.next = x.call.next,
            !.pending = SubSeq(@, Len(x.call.batch) + 1, Len(@))]

\* Read the answer of the running operation's request and send the next one.
Reply(h) ==
  LET x == hs[h]
      c == x.call
      accepted == Accepted(x)
      y == IF c.kind = "append" THEN Acknowledged(x) ELSE x
      op == Head(x.ops)
  IN
  /\ Live(h) /\ c.state = "done"
  /\ \/ /\ ~accepted
        /\ Fail(h, [x EXCEPT !.lost = @ \/ c.result = "SESSION_OWNERSHIP_LOST"])
     \/ /\ accepted /\ c.kind = "append"
        /\ IF ~MaySend(y) THEN Fail(h, y)
           ELSE /\ hs' = [hs EXCEPT ![h] = [y EXCEPT !.call = Drain(y)]]
                /\ UNCHANGED <<writers, takeovers>>
     \/ /\ accepted /\ c.kind = "flush" /\ op.name = "close"
        /\ IF x.lost THEN Fail(h, x)
           ELSE /\ hs' = [hs EXCEPT ![h].call = Call("release", << >>, {})]
                /\ UNCHANGED <<writers, takeovers>>
     \/ /\ accepted /\ c.kind = "flush" /\ op.name # "close"
        /\ hs' = [hs EXCEPT ![h] = [Settled(x) EXCEPT !.ran = IF op.name = "tool" THEN op.mark
                                                                                 ELSE @]]
        /\ UNCHANGED <<writers, takeovers>>
     \/ /\ accepted /\ c.kind = "release"
        /\ Fail(h, x)     \* the same finally block on success
  /\ UNCHANGED <<vars, opening, resuming, strays, faults>>

\* assertOpen, assertWriter, queue
Queue(h, name) ==
  /\ hs[h].phase = "open" /\ ~hs[h].lost /\ Len(hs[h].ops) < MaxOps
  /\ hs' = [hs EXCEPT ![h].ops = Append(@, [name |-> name, mark |-> hs[h].produced])]
  /\ UNCHANGED <<vars, writers, takeovers, opening, resuming, strays, faults>>

\* ctx.on('session/flush')
flush(rt) == writers[rt] # 0 /\ Queue(writers[rt], "flush")

\* ctx.on('tools/execute'): the tool starts only after its flush.
execute(rt) == writers[rt] # 0 /\ Queue(writers[rt], "tool")

\* enqueue throws on a closed or lost handle and when the backlog is full.
Refuses(x) == x.phase # "open" \/ x.lost \/ Len(x.pending) >= MaxPending

\* ctx.on('session/event'): the live session has committed the event already, so
\* one that enqueue refuses is never retained and never written.
enqueue(rt) ==
  LET h == writers[rt] x == hs[h] IN
  /\ h # 0 /\ x.produced < MaxEvents
  /\ \/ /\ ~Refuses(x)
        /\ hs' = [hs EXCEPT ![h].pending = Append(@, [seq |-> x.produced, body |-> h]),
                            ![h].produced = @ + 1,
                            ![h].timer = TRUE]
     \/ /\ Refuses(x)
        /\ hs' = [hs EXCEPT ![h].produced = @ + 1,
                            ![h].dropped = @ \cup {x.produced}]
  /\ UNCHANGED <<vars, writers, takeovers, opening, resuming, strays, faults>>

\* The batch timer calls flush(), which rejects on a closing or lost handle.
BatchTimer(h) ==
  /\ Live(h) /\ hs[h].timer
  /\ hs' = [hs EXCEPT ![h].timer = FALSE,
                      ![h].ops = IF hs[h].phase = "open" /\ ~hs[h].lost
                                 THEN Append(@, [name |-> "flush", mark |-> hs[h].produced])
                                 ELSE @]
  /\ UNCHANGED <<vars, writers, takeovers, opening, resuming, strays, faults>>

Closing(h) ==
  hs' = [hs EXCEPT ![h].phase = "closing",
                   ![h].ops = Append(@, [name |-> "close", mark |-> hs[h].produced])]

\* ctx.on('session/disposed') and the teardown effect
close(h) ==
  /\ hs[h].phase = "open"
  /\ Closing(h)
  /\ UNCHANGED <<vars, writers, takeovers, opening, resuming, strays, faults>>

\* resume() throws, or returns without taking the reserved writer: it is closed.
ResumeFails(rt) ==
  /\ resuming[rt] = "resuming"
  /\ resuming' = [resuming EXCEPT ![rt] = "abandoned"]
  /\ IF writers[rt] # 0 /\ hs[writers[rt]].phase = "open"
     THEN Closing(writers[rt]) ELSE UNCHANGED hs
  /\ UNCHANGED <<vars, writers, takeovers, opening, strays, faults>>

\* finally, once the reserved handle's close() has settled
ResumeAbandoned(rt) ==
  /\ resuming[rt] = "abandoned" /\ writers[rt] = 0
  /\ resuming' = [resuming EXCEPT ![rt] = "no"]
  /\ takeovers' = [takeovers EXCEPT ![rt] = 0]
  /\ UNCHANGED <<vars, hs, writers, opening, strays, faults>>

-----------------------------------------------------------------------------
(* Lease renewal and faults.                                               *)

HeartbeatTimer(h) ==
  /\ hs[h].phase = "open" /\ ~hs[h].lost /\ hs[h].beat = NoCall
  /\ hs' = [hs EXCEPT ![h].beat = Call("heartbeat", << >>, {})]
  /\ UNCHANGED <<vars, writers, takeovers, opening, resuming, strays, faults>>

HeartbeatReply(h) ==
  /\ Live(h) /\ hs[h].beat.state = "done"
  /\ hs' = [hs EXCEPT ![h].beat = NoCall,
                      ![h].lost = @ \/ hs[h].beat.result = "SESSION_OWNERSHIP_LOST"]
  /\ UNCHANGED <<vars, writers, takeovers, opening, resuming, strays, faults>>

\* AbortSignal.timeout(requestTimeoutMs), an aborted signal or a broken connection
Timeout(h) ==
  LET x == hs[h] IN
  /\ Live(h) /\ x.call # NoCall /\ faults < MaxFaults
  /\ faults' = faults + 1
  /\ strays' = strays \cup Stray(x.rt, x.call, x.token, x.epoch)
  /\ Fail(h, x)
  /\ UNCHANGED <<vars, opening, resuming>>

HeartbeatTimeout(h) ==
  LET x == hs[h] IN
  /\ Live(h) /\ x.beat # NoCall /\ faults < MaxFaults
  /\ faults' = faults + 1
  /\ strays' = strays \cup Stray(x.rt, x.beat, x.token, x.epoch)
  /\ hs' = [hs EXCEPT ![h].beat = NoCall]
  /\ UNCHANGED <<vars, writers, takeovers, opening, resuming>>

OpeningTimeout(rt) ==
  /\ opening[rt] # NoCall /\ faults < MaxFaults
  /\ faults' = faults + 1
  /\ strays' = strays \cup Stray(rt, opening[rt], None, 0)
  /\ opening' = [opening EXCEPT ![rt] = NoCall]
  /\ resuming' = [resuming EXCEPT ![rt] = "no"]
  /\ UNCHANGED <<vars, hs, writers, takeovers>>

\* The runtime process dies: its pending events and its handles are gone.
Crash(rt) ==
  LET mine == {h \in DOMAIN hs : hs[h].rt = rt /\ Live(h)} IN
  /\ faults < MaxFaults /\ mine # {}
  /\ faults' = faults + 1
  /\ hs' = [h \in DOMAIN hs |->
              IF h \in mine
              THEN [hs[h] EXCEPT !.phase = "dead", !.pending = << >>, !.ops = << >>,
                                 !.timer = FALSE, !.call = NoCall, !.beat = NoCall]
              ELSE hs[h]]
  /\ writers' = [writers EXCEPT ![rt] = 0]
  /\ takeovers' = [takeovers EXCEPT ![rt] = 0]
  /\ opening' = [opening EXCEPT ![rt] = NoCall]
  /\ resuming' = [resuming EXCEPT ![rt] = "no"]
  /\ strays' = strays \cup Stray(rt, opening[rt], None, 0) \cup
       UNION {Stray(rt, hs[h].call, hs[h].token, hs[h].epoch) \cup
              Stray(rt, hs[h].beat, hs[h].token, hs[h].epoch) : h \in mine}
  /\ UNCHANGED vars

\* A writer of another device or administrator: it takes the session over,
\* writes an event of its own and releases.
OtherTakesOver(p) ==
  /\ open_handle(p, s0, {row[K(p)].epoch}, NewToken)
  /\ UNCHANGED clientVars

OtherWrites(p) ==
  LET r == row[K(p)]
      b == <<[seq |-> r.count, body |-> 0]>>
  IN  /\ r.actor = ActorOf[p]
      /\ \/ append_events(p, s0, r.token, r.epoch, b, b)
         \/ release(p, s0, r.token, r.epoch)
      /\ UNCHANGED clientVars

ProtocolTick == Tick /\ UNCHANGED clientVars

RuntimeStep(rt) ==
  \/ create(rt) \/ open(rt) \/ Opened(rt) \/ ServeOpening(rt)
  \/ \E e \in 1..MaxEpoch : resumeWithTakeover(rt, e)
  \/ openReserved(rt) \/ ResumeDone(rt) \/ ResumeFails(rt) \/ ResumeAbandoned(rt)
  \/ flush(rt) \/ execute(rt) \/ enqueue(rt)
  \/ OpeningTimeout(rt) \/ Crash(rt)

HandleStep(h) ==
  \/ ServeHandle(h, "call") \/ ServeHandle(h, "beat")
  \/ StartOp(h) \/ Reply(h) \/ BatchTimer(h) \/ close(h)
  \/ HeartbeatTimer(h) \/ HeartbeatReply(h)
  \/ Timeout(h) \/ HeartbeatTimeout(h)

ProtocolNext ==
  \/ \E rt \in Runtime : RuntimeStep(rt)
  \/ \E h \in DOMAIN hs : HandleStep(h)
  \/ \E q \in strays : ServeStray(q)
  \/ \E p \in Others : OtherTakesOver(p) \/ OtherWrites(p)
  \/ ProtocolTick

ProtocolSpec == ProtocolInit /\ [][ProtocolNext]_allVars

\* Fairness of the liveness runs: the event loop runs what is ready, the server
\* answers, the upstream loop flushes again after every turn.
Progress ==
  /\ \A rt \in Runtime : WF_allVars(ServeOpening(rt)) /\ WF_allVars(Opened(rt))
                         /\ WF_allVars(flush(rt))
  /\ \A h \in Handle : WF_allVars(h \in DOMAIN hs /\ ServeHandle(h, "call"))
                       /\ WF_allVars(h \in DOMAIN hs /\ StartOp(h))
                       /\ WF_allVars(h \in DOMAIN hs /\ Reply(h))

FairSpec == ProtocolSpec /\ Progress

-----------------------------------------------------------------------------
(* Properties.                                                             *)

\* What the handle has been acknowledged is in the authoritative log, written by
\* this handle and at these positions, whatever was retried or left in flight.
AcknowledgedIsDurable ==
  \A h \in DOMAIN hs : \A n \in hs[h].start..(hs[h].next - 1) :
    [seq |-> n, body |-> h] \in events[K(hs[h].rt)]

\* A tool starts only when every event the handle had taken over from the live
\* session when the tool was requested is durable: the flush of tools/execute
\* waits for the whole backlog, whatever was refused, timed out or retried.
ToolAfterRetained ==
  \A h \in DOMAIN hs : \A n \in hs[h].start..(hs[h].ran - 1) :
    n \in hs[h].dropped \/ [seq |-> n, body |-> h] \in events[K(hs[h].rt)]

\* A tool starts only when every event committed before it was requested is
\* durable ("A tool must not start while its owning call exists only in volatile
\* memory", persistence.ts:107).  The events enqueue refuses break it.
ToolAfterDurable ==
  \A h \in DOMAIN hs : \A n \in hs[h].start..(hs[h].ran - 1) :
    [seq |-> n, body |-> h] \in events[K(hs[h].rt)]

\* A handle that gave its session up itself is never told that it lost it: close
\* joins the renewal in flight before it releases.
ReleaseIsNotLoss == \A h \in DOMAIN hs : hs[h].released => ~hs[h].lost

\* As long as the server accepts a handle of a living runtime, that runtime
\* routes the session's events to it: an older handle's late close cannot remove
\* its successor from the writers map.
AcceptedWriterIsRouted ==
  \A h \in DOMAIN hs :
    hs[h].phase = "open" /\ IsWriter(hs[h].rt, K(hs[h].rt), hs[h].token, hs[h].epoch)
      => writers[hs[h].rt] = h

\* The handle holds events that are not acknowledged and can still write them.
Retained(h) ==
  h \in DOMAIN hs /\ hs[h].pending # << >> /\ hs[h].phase = "open" /\ ~hs[h].lost

\* Events retained after a rejected flush are eventually written, unless the
\* handle is closed, lost or dead ("later flushes can retry retained events").
RetainedEventsRetried == \A h \in Handle : Retained(h) ~> ~Retained(h)
=============================================================================
