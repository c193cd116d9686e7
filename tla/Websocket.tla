----------------------------- MODULE Websocket -----------------------------
(***************************************************************************)
(* One websocket connection (rpc/websockets.go) over the stream of Stream: *)
(* the read loop that serves eth_subscribe and eth_unsubscribe, the        *)
(* goroutine of each subscription, whose callback writes a chunk of the    *)
(* stream item by item to the connection, and the ways a connection fails. *)
(* A subscription is its id; one to logs writes only those that match its  *)
(* criteria (see LogFilter), the others write everything.  Requests passed *)
(* to the HTTP server change nothing here.                                 *)
(* The websocket library is external: when the peer                        *)
(* has closed, writes fail with ErrCloseSent and the next read fails; on a *)
(* broken connection writes fail, and reads too once it is closed here.    *)
(***************************************************************************)
EXTENDS Stream

CONSTANT Wanted \* for each subscription the items that match its criteria

ASSUME WebsocketAssumption == Wanted \in [Subscribers -> SUBSET (1..MaxItems)]

VARIABLES conn,          \* open, peerClosed, broken, closed
          loop,          \* the read loop: read, respond, cancel, done
          subscriptions, \* the map of the read loop, as its set of ids
          chunk,         \* what a callback has still to write
          sent           \* notifications the client was sent, for each subscription

wsVars == <<conn, loop, subscriptions, chunk, sent>>
allVars == <<vars, wsVars>>

-----------------------------------------------------------------------------
(* The peer and the network *)

Publish == \E n \in 1..MaxBatch : Add(n) /\ UNCHANGED wsVars

Fails ==
  /\ conn = "open"
  /\ conn' \in {"peerClosed", "broken"}
  /\ UNCHANGED <<vars, loop, subscriptions, chunk, sent>>

-----------------------------------------------------------------------------
(* The read loop *)

\* The goroutine of the subscription starts, then the response is written.
EthSubscribe(r) ==
  /\ loop = "read" /\ conn = "open"
  /\ Subscribe(r)
  /\ subscriptions' = subscriptions \cup {r}
  /\ loop' = "respond"
  /\ UNCHANGED <<conn, chunk, sent>>

\* An id that is not in the map is answered false and changes nothing.
EthUnsubscribe(r) ==
  /\ loop = "read" /\ conn = "open" /\ r \in subscriptions
  /\ Cancel(r)
  /\ subscriptions' = subscriptions \ {r}
  /\ loop' = "respond"
  /\ UNCHANGED <<conn, chunk, sent>>

\* Writes the response; the break after a failed write only leaves the switch.
Respond ==
  /\ loop = "respond"
  /\ loop' = "read"
  /\ UNCHANGED <<vars, conn, subscriptions, chunk, sent>>

\* ReadMessage fails: the connection is closed and the loop left.
ReadFails ==
  /\ loop = "read" /\ conn # "open"
  /\ conn' = "closed" /\ loop' = "cancel"
  /\ UNCHANGED <<vars, subscriptions, chunk, sent>>

\* The deferred function cancels the subscriptions of the map, in any order.
CancelOne(r) ==
  /\ loop = "cancel" /\ r \in subscriptions
  /\ Cancel(r)
  /\ subscriptions' = subscriptions \ {r}
  /\ UNCHANGED <<conn, loop, chunk, sent>>

Leave ==
  /\ loop = "cancel" /\ subscriptions = {}
  /\ loop' = "done"
  /\ UNCHANGED <<vars, conn, subscriptions, chunk, sent>>

-----------------------------------------------------------------------------
(* The goroutine of a subscription *)

\* What of a chunk the callback writes.
FilterLogs(r, items) == SelectSeq(items, LAMBDA item : item \in Wanted[r])

\* ReadBlocking's loop, which looks at no context, and what the callback makes
\* of the chunk it is handed.
ReadStream(r) ==
  /\ Read(r)
  /\ chunk' = [chunk EXCEPT ![r] = FilterLogs(r, DoRead(Buffer, offset[r]).items)]
  /\ UNCHANGED <<conn, loop, subscriptions, sent>>

Wait(r) == (EnterWait(r) \/ Wake(r)) /\ UNCHANGED wsVars

\* A mutant of Done: the result of Cond.Wait is ignored.
ReadsAgain(r) ==
  /\ pc[r] = "waiting" /\ cancelled[r]
  /\ pc' = [pc EXCEPT ![r] = "reading"]
  /\ UNCHANGED <<streamVars, offset, waitCh, cancelled, start, got, overrun, wsVars>>

Done(r) == CtxDone(r) /\ UNCHANGED wsVars

\* The callback writes the next item, under the mutex of the connection.
Notify(r) ==
  /\ pc[r] = "callback" /\ chunk[r] # << >> /\ conn = "open"
  /\ sent' = [sent EXCEPT ![r] = Append(@, Head(chunk[r]))]
  /\ chunk' = [chunk EXCEPT ![r] = Tail(@)]
  /\ UNCHANGED <<vars, conn, loop, subscriptions>>

\* A mutant of NotifyFails: the connection is left as it is.
LeavesOpen(r) ==
  /\ pc[r] = "callback" /\ chunk[r] # << >> /\ conn # "open"
  /\ Callback(r) /\ pc'[r] = "stopped"
  /\ UNCHANGED wsVars

\* A failed write: the connection is closed, unless the peer did, and the subscription ends.
NotifyFails(r) ==
  /\ pc[r] = "callback" /\ chunk[r] # << >> /\ conn # "open"
  /\ Callback(r) /\ pc'[r] = "stopped"
  /\ conn' = IF conn = "peerClosed" THEN conn ELSE "closed"
  /\ UNCHANGED <<loop, subscriptions, chunk, sent>>

\* A mutant of CallbackEnds: a cancelled callback drops the rest of its chunk.
EndsEarly(r) ==
  /\ pc[r] = "callback" /\ (chunk[r] = << >> \/ cancelled[r])
  /\ Callback(r) /\ pc'[r] = "reading"
  /\ chunk' = [chunk EXCEPT ![r] = << >>]
  /\ UNCHANGED <<conn, loop, subscriptions, sent>>

\* Everything is written, or nothing of the chunk matched.
CallbackEnds(r) ==
  /\ pc[r] = "callback" /\ chunk[r] = << >>
  /\ Callback(r) /\ pc'[r] = "reading"
  /\ UNCHANGED wsVars

-----------------------------------------------------------------------------

WInit ==
  /\ Init
  /\ conn = "open" /\ loop = "read" /\ subscriptions = {}
  /\ chunk = [r \in Subscribers |-> << >>] /\ sent = [r \in Subscribers |-> << >>]

Goroutine(r) == ReadStream(r) \/ Wait(r) \/ Notify(r) \/ NotifyFails(r) \/ CallbackEnds(r)

WNext ==
  \/ Publish \/ Fails \/ Respond \/ ReadFails \/ Leave
  \/ \E r \in Subscribers : EthSubscribe(r) \/ EthUnsubscribe(r) \/ CancelOne(r) \/ Goroutine(r) \/ Done(r)

\* Goroutines run on; ReadMessage returns an error only once the connection
\* was closed by one side, and select does not pass over a done context for ever.
WFairness ==
  /\ WF_allVars(Respond) /\ WF_allVars(Leave)
  /\ WF_allVars(ReadFails /\ conn \in {"peerClosed", "closed"})
  /\ \A r \in Subscribers : WF_allVars(CancelOne(r)) /\ WF_allVars(Goroutine(r)) /\ SF_allVars(Done(r))

WSpec == WInit /\ [][WNext]_allVars /\ WFairness

-----------------------------------------------------------------------------
(* Properties *)

Running(r) == pc[r] \notin {"idle", "stopped"}

\* A client is notified of exactly the items that match its subscription among
\* those that were published from where the subscription began to where it has
\* come: each once and in their order, across chunks that match only in part or
\* not at all, other writers, cancellation and failed writes (what was read and
\* not yet written is in chunk).  A subscription that was overrun may miss
\* items, but is sent none twice, out of order or against its criteria.
NotifiedExactly ==
  \A r \in Subscribers :
    LET out       == sent[r] \o chunk[r]
        published == [i \in 1..(offset[r] - start[r]) |-> start[r] + i]
    IN  /\ ~ overrun[r] => out = FilterLogs(r, published)
        /\ \A i, j \in DOMAIN out : i < j => out[i] < out[j]
        /\ Range(out) \subseteq Wanted[r] \cap Range(published)

\* The connection has ended, or its end is about to be noticed by a writer.
Ending ==
  \/ conn \in {"peerClosed", "closed"}
  \/ conn = "broken" /\ \E r \in Subscribers : chunk[r] # << >> /\ pc[r] = "callback"

\* A connection that one side has closed, or that a subscription fails to
\* write to, leaves nothing behind: its read loop returns, a goroutine with
\* something to write ends, and so does any other unless it reads further
\* items.  (The context is looked at where ReadBlocking waits and the connection
\* where a notification is written: a goroutine goes on as long as the stream
\* is ahead of it and nothing it reads matches.)
ConnectionEnds ==
  /\ Ending ~> loop = "done"
  /\ \A r \in Subscribers :
       /\ (loop = "done" /\ pc[r] = "callback" /\ chunk[r] # << >>) ~> ~ Running(r)
       /\ (loop = "done" /\ pc[r] # "callback") ~> (~ Running(r) \/ pc[r] = "callback")

\* eth_unsubscribe takes effect while the connection and the other
\* subscriptions go on: the goroutine does not stay in its callback, and
\* outside of it ends, however often the channel it waits on is closed, unless
\* it reads further items.  (As long as the stream is ahead of it, it goes on
\* to read and to notify.)
UnsubscribeEnds ==
  \A r \in Subscribers :
    /\ (r \notin subscriptions /\ pc[r] = "callback") ~> pc[r] # "callback"
    /\ (r \notin subscriptions /\ pc[r] \notin {"idle", "callback"}) ~> pc[r] \in {"stopped", "callback"}
=============================================================================
