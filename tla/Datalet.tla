------------------------------ MODULE Datalet -------------------------------
(***************************************************************************)
(* A datalet (apps/iHT; iLog and iMT have the same frame): the dispatcher  *)
(* accepts connections and hands each to a worker thread through the       *)
(* worker's queue and pipe; a worker takes one connection for each byte it *)
(* reads from its pipe, registers it with its event loop and answers the   *)
(* requests that come in on it.  The workers, the dispatcher and the       *)
(* kernel share the file descriptors.                                      *)
(*                                                                         *)
(* Requests are counted, what they do to the table is left out.  Critical  *)
(* sections of cq_lock and init_lock are one step.  A byte written to a    *)
(* pipe always gets there.  The model ends when a descriptor is closed     *)
(* that belongs to another connection.                                     *)
(***************************************************************************)
EXTENDS Integers, Sequences, FiniteSets, FiniteSetsExt

CONSTANTS
  T,         \* settings.num_threads
  F,         \* descriptors the process may still open
  MaxConns,  \* bound: connections of clients
  MaxReqs    \* bound: requests of a client

ASSUME DataletAssumption ==
  /\ T \in Nat \ {0}
  /\ F \in Nat \ {0}
  /\ MaxConns \in Nat
  /\ MaxReqs \in Nat

Threads == 0..T - 1
Fds == 1..F
Conns == 1..MaxConns
Items == Conns \X Fds   \* a CQ_ITEM: a connection and its sfd

VARIABLES
  file,       \* the connection open under each descriptor, 0 if none
  dpc,        \* dispatcher: "init", "loop", "push", "notify" or "over"
  item,       \* the CQ_ITEM it hands over
  last,       \* last_thread
  initcount,  \* init_count
  queue,      \* new_conn_q of each worker
  pipe,       \* bytes in each worker's pipe
  wpc,        \* worker: "start", "loop", "woken", "popped", "closing" or "over"
  mine,       \* the CQ_ITEM, or the descriptor being closed, of each worker
  links,      \* registered connections: <<connection, descriptor, worker>>
  state,      \* of a client's connection: "new", "waiting", "open", "closed"
  sent,       \* requests each client has sent
  unread,     \* of these, the ones in the socket
  input,      \* and the ones in Link::input
  replies     \* replies each client has got

server == <<file, dpc, item, last, initcount, queue, pipe, wpc, mine, links>>
clients == <<state, sent, unread, input, replies>>
vars == <<server, clients>>

None == <<0, 0>>

TypeOK ==
  /\ file \in [Fds -> 0..MaxConns]
  /\ dpc \in {"init", "loop", "push", "notify", "over"}
  /\ item \in Items \cup {None}
  /\ last \in -1..T - 1
  /\ initcount \in 0..T
  /\ queue \in [Threads -> Seq(Items)]
  /\ pipe \in [Threads -> Nat]
  /\ wpc \in [Threads -> {"start", "loop", "woken", "popped", "closing", "over"}]
  /\ mine \in [Threads -> Items \cup {None}]
  /\ links \subseteq Conns \X Fds \X Threads
  /\ state \in [Conns -> {"new", "waiting", "open", "closed"}]
  /\ sent \in [Conns -> 0..MaxReqs]
  /\ unread \in [Conns -> 0..MaxReqs]
  /\ input \in [Conns -> 0..MaxReqs]
  /\ replies \in [Conns -> 0..MaxReqs]

Init ==
  /\ file = [f \in Fds |-> 0]
  /\ dpc = "init" /\ item = None /\ last = -1 /\ initcount = 0
  /\ queue = [t \in Threads |-> <<>>]
  /\ pipe = [t \in Threads |-> 0]
  /\ wpc = [t \in Threads |-> "start"]
  /\ mine = [t \in Threads |-> None]
  /\ links = {}
  /\ state = [c \in Conns |-> "new"]
  /\ sent = [c \in Conns |-> 0]
  /\ unread = [c \in Conns |-> 0]
  /\ input = [c \in Conns |-> 0]
  /\ replies = [c \in Conns |-> 0]

-----------------------------------------------------------------------------
(* The dispatcher *)

\* kvs_thread_init waits for the workers; server_socket listens after it.
Ready ==
  /\ dpc = "init" /\ initcount = T
  /\ dpc' = "loop"
  /\ UNCHANGED <<file, item, last, initcount, queue, pipe, wpc, mine, links, clients>>

\* process of the listening link: accept takes the lowest free descriptor; with
\* none left it fails and the event loop comes back to it.
Accept(c) ==
  LET free == {f \in Fds : file[f] = 0} IN
  /\ dpc = "loop" /\ state[c] = "waiting" /\ free # {}
  /\ state' = [state EXCEPT ![c] = "open"]
  /\ file' = [file EXCEPT ![Min(free)] = c]
  /\ item' = <<c, Min(free)>>
  /\ dpc' = "push"
  /\ UNCHANGED <<last, initcount, queue, pipe, wpc, mine, links,
                 sent, unread, input, replies>>

NextThreadOffByOne == (last + 1) % (T + 1)

\* dispatch_conn_new: round robin.
NextThread == (last + 1) % T

\* cq_push.
Push ==
  /\ dpc = "push"
  /\ last' = NextThread
  /\ queue' = [queue EXCEPT ![NextThread] = Append(@, item)]
  /\ dpc' = "notify"
  /\ UNCHANGED <<file, item, initcount, pipe, wpc, mine, links, clients>>

NotifyIfIdle ==
  /\ dpc = "notify"
  /\ pipe' = IF Len(queue[last]) = 1 THEN [pipe EXCEPT ![last] = @ + 1] ELSE pipe
  /\ item' = None
  /\ dpc' = "loop"
  /\ UNCHANGED <<file, last, initcount, queue, wpc, mine, links, clients>>

\* The byte for the worker, and back to the event loop.
Notify ==
  /\ dpc = "notify"
  /\ pipe' = [pipe EXCEPT ![last] = @ + 1]
  /\ item' = None
  /\ dpc' = "loop"
  /\ UNCHANGED <<file, last, initcount, queue, wpc, mine, links, clients>>

-----------------------------------------------------------------------------
(* A worker *)

\* worker_loop.
Start(t) ==
  /\ wpc[t] = "start"
  /\ initcount' = initcount + 1
  /\ wpc' = [wpc EXCEPT ![t] = "loop"]
  /\ UNCHANGED <<file, dpc, item, last, queue, pipe, mine, links, clients>>

\* thread_ev_proc reads its byte,
Wake(t) ==
  /\ wpc[t] = "loop" /\ pipe[t] > 0
  /\ pipe' = [pipe EXCEPT ![t] = @ - 1]
  /\ wpc' = [wpc EXCEPT ![t] = "woken"]
  /\ UNCHANGED <<file, dpc, item, last, initcount, queue, mine, links, clients>>

PopAll(t) ==
  /\ wpc[t] = "woken" /\ queue[t] # <<>>
  /\ links' = links \cup {<<queue[t][i][1], queue[t][i][2], t>> : i \in DOMAIN queue[t]}
  /\ queue' = [queue EXCEPT ![t] = <<>>]
  /\ wpc' = [wpc EXCEPT ![t] = "loop"]
  /\ UNCHANGED <<file, dpc, item, last, initcount, pipe, mine, clients>>

\* takes a connection (cq_pop; its result is not initialised if there is none)
Pop(t) ==
  /\ wpc[t] = "woken" /\ queue[t] # <<>>
  /\ mine' = [mine EXCEPT ![t] = Head(queue[t])]
  /\ queue' = [queue EXCEPT ![t] = Tail(@)]
  /\ wpc' = [wpc EXCEPT ![t] = "popped"]
  /\ UNCHANGED <<file, dpc, item, last, initcount, pipe, links, clients>>

RegisterAndClose(t) ==
  /\ wpc[t] = "popped"
  /\ links' = links \cup {<<mine[t][1], mine[t][2], t>>}
  /\ file' = [file EXCEPT ![mine[t][2]] = 0]
  /\ mine' = [mine EXCEPT ![t] = None]
  /\ wpc' = [wpc EXCEPT ![t] = "loop"]
  /\ UNCHANGED <<dpc, item, last, initcount, queue, pipe, clients>>

\* and registers it (register_conn, cqi_free).
Register(t) ==
  /\ wpc[t] = "popped"
  /\ links' = links \cup {<<mine[t][1], mine[t][2], t>>}
  /\ mine' = [mine EXCEPT ![t] = None]
  /\ wpc' = [wpc EXCEPT ![t] = "loop"]
  /\ UNCHANGED <<file, dpc, item, last, initcount, queue, pipe, clients>>

\* event_handler, process: msg_read empties the socket, msg_parse takes one
\* request out of input and handle_request answers it.
Process(t, l) ==
  LET c == l[1] IN
  /\ wpc[t] = "loop" /\ l \in links
  /\ state[c] = "open" /\ unread[c] > 0
  /\ unread' = [unread EXCEPT ![c] = 0]
  /\ input' = [input EXCEPT ![c] = @ + unread[c] - 1]
  /\ replies' = [replies EXCEPT ![c] = @ + 1]
  /\ UNCHANGED <<server, state, sent>>

\* msg_read finds the end of the stream: conn_close.  Link::close takes the link
\* off the event loop and closes its descriptor,
Close(t, l) ==
  /\ wpc[t] = "loop" /\ l \in links
  /\ state[l[1]] = "closed"
  /\ links' = links \ {l}
  /\ file' = [file EXCEPT ![l[2]] = 0]
  /\ mine' = [mine EXCEPT ![t] = <<l[1], l[2]>>]
  /\ wpc' = [wpc EXCEPT ![t] = "closing"]
  /\ UNCHANGED <<dpc, item, last, initcount, queue, pipe, clients>>

\* and the destructor of Link calls it once more: sfd was not cleared.
CloseAgain(t) ==
  LET f == mine[t][2] IN
  /\ wpc[t] = "closing"
  /\ file' = [file EXCEPT ![f] = 0]
  /\ mine' = [mine EXCEPT ![t] = None]
  /\ IF file[f] = 0 THEN wpc' = [wpc EXCEPT ![t] = "loop"] /\ UNCHANGED dpc
     ELSE wpc' = [u \in Threads |-> "over"] /\ dpc' = "over"
  /\ UNCHANGED <<item, last, initcount, queue, pipe, links, clients>>

-----------------------------------------------------------------------------
(* The clients (proxies): one request at a time *)

Connect(c) ==
  /\ state[c] = "new"
  /\ \A d \in Conns : d < c => state[d] # "new"
  /\ state' = [state EXCEPT ![c] = "waiting"]
  /\ UNCHANGED <<server, sent, unread, input, replies>>

Send(c) ==
  /\ state[c] \in {"waiting", "open"}
  /\ sent[c] = replies[c] /\ sent[c] < MaxReqs
  /\ sent' = [sent EXCEPT ![c] = @ + 1]
  /\ unread' = [unread EXCEPT ![c] = @ + 1]
  /\ UNCHANGED <<server, state, input, replies>>

Leave(c) ==
  /\ state[c] = "open"
  /\ state' = [state EXCEPT ![c] = "closed"]
  /\ UNCHANGED <<server, sent, unread, input, replies>>

-----------------------------------------------------------------------------
Dispatcher == Ready \/ Push \/ Notify \/ \E c \in Conns : Accept(c)

Worker(t) ==
  \/ Start(t) \/ Wake(t) \/ Pop(t) \/ Register(t) \/ CloseAgain(t)
  \/ \E l \in Conns \X Fds \X {t} : Process(t, l) \/ Close(t, l)

Client(c) == Connect(c) \/ Send(c) \/ Leave(c)

Next ==
  \/ Dispatcher
  \/ \E t \in Threads : Worker(t)
  \/ \E c \in Conns : Client(c)

Spec == Init /\ [][Next]_vars

\* The threads run.  (An event loop serves every descriptor that is ready before
\* it looks for new ones; with a bounded number of requests none is passed over
\* for ever in any order.)
FairSpec ==
  /\ Spec
  /\ WF_vars(Dispatcher)
  /\ \A t \in Threads : WF_vars(Worker(t))

-----------------------------------------------------------------------------
(* Properties *)

\* A worker that has read a byte finds a connection in its queue (cq_pop would
\* return an uninitialised pointer), and the queue the dispatcher has just
\* pushed to still has one when it checks it outside of the lock (the CHECK of
\* cq_push), whatever the other has done in between.
QueueNotEmpty ==
  /\ \A t \in Threads : wpc[t] = "woken" => queue[t] # <<>>
  /\ dpc = "notify" => queue[last] # <<>>

\* A worker has closed a descriptor that belongs to another connection.
foreign == dpc = "over"

\* The connections the threads hold, with the descriptor they know them by.
Held ==
  (IF dpc = "push" THEN {item} ELSE {})
  \cup (UNION {{queue[t][i] : i \in DOMAIN queue[t]} : t \in Threads})
  \cup {mine[t] : t \in {u \in Threads : wpc[u] = "popped"}}
  \cup {<<l[1], l[2]>> : l \in links}

\* The connections the threads hold are exactly the open ones, each under its
\* own descriptor: none is dropped on the way from accept to a worker's event
\* loop, and no thread uses a descriptor that was closed or given to another
\* connection since.
HeldIsOpen ==
  ~foreign => Held = {<<file[f], f>> : f \in {g \in Fds : file[g] # 0}}

\* "we ... should destroy this link" (process): a worker closes the descriptor
\* of its own connection only.
ClosesItsOwn == ~foreign

\* Every request of a client that stays and waits for its replies is answered:
\* its connection gets to a worker, and nothing is left in Link::input, where no
\* event would come back to it.
EveryRequestAnswered ==
  \A c \in Conns : \A k \in 1..MaxReqs :
    state[c] = "open" /\ sent[c] = k ~> (foreign \/ state[c] = "closed" \/ replies[c] >= k)
=============================================================================
