-------------------------------- MODULE Api ---------------------------------
(***************************************************************************)
(* The threads of a vDexNode server: the workers that answer HTTP          *)
(* requests, the chat thread, and the thread of the DHT that runs the      *)
(* callbacks.  They share the mutexes of the Handler, of the EosNode and   *)
(* of the map of known nodes, which the announcements of nodes fill and    *)
(* their expiry empties.                                                   *)
(*                                                                         *)
(* A request is the sequence of its stages: the mutexes held, and what is  *)
(* done while they are.  A panic poisons the mutexes held, and lock()      *)
(* .unwrap() of a poisoned mutex panics.                                   *)
(***************************************************************************)
EXTENDS Integers, Sequences, SequencesExt

CONSTANTS
    Requests,   \* bound: the requests of a behaviour
    Mixes,      \* bound: the routes of the requests, for each combination tried
    Nodes,      \* ids of nodes in the network, this one included
    MaxStarts   \* bound: starts of each node

VARIABLES
    mix,        \* mix[r]: the route of request r, one of Mixes
    stage,      \* stage[r]: the stage of request r, or 0
    answer,     \* answer[r]: "none", "ok", "err", or "panic" (an error page)
    found,      \* found[r]: what done_cb left: "waiting", "value" or "nothing"
    poisoned,   \* the poisoned mutexes
    nodes,      \* shared_info: the announcement listed for each node, or NoInfo
    running,    \* the nodes that are up
    starts,     \* starts[n]: announcements of n so far
    values,     \* DHT: announcements that have not expired
    callbacks,  \* DHT: the callbacks to run, in order
    called      \* DHT: [values, expired]: the announcements called back with

requestVars == <<stage, answer, found>>
networkVars == <<running, starts, values>>
vars == <<mix, requestVars, poisoned, nodes, networkVars, callbacks, called>>

Locks == {"handler", "eosnode", "nodes"}

Stage(locks, does) == [holds |-> locks, does |-> does]
H == {"handler"}
HE == {"handler", "eosnode"}
HEN == {"handler", "eosnode", "nodes"}

-----------------------------------------------------------------------------
(* The routes.                                                               *)

\* GET /: Handler::info.
node_infos == <<Stage(H, ""), Stage(HE, "")>>

connected_nodes == <<Stage(H, ""), Stage(HE, ""), Stage(HEN, "")>>

\* node.ips.get(0).unwrap() for every node.
connected_ips == <<Stage(H, ""), Stage(HE, ""), Stage(HEN, "first_ip")>>

\* The requests to ipinfo.io are made with all three mutexes locked; an address
\* that cannot be located is skipped.
nodes_location == <<Stage(H, ""), Stage(HE, ""), Stage(HEN, ""), Stage(HEN, "locate")>>

\* "No country found" if ipinfo.io does not answer.
country == <<Stage(H, ""), Stage(H, "ipinfo")>>

\* The salt is read from info(), then Handler::insert puts.
set == <<Stage(H, ""), Stage(HE, ""), Stage(H, ""), Stage(HE, "")>>

\* Handler::get asks the DHT and waits for done_cb with the handler locked.
get == <<Stage(H, ""), Stage(HE, ""), Stage(H, ""), Stage(HE, "ask"), Stage(H, "wait")>>

\* signup_keygen and signup_sign: get(..).unwrap(), then insert.
signup == get \o <<Stage(H, "unwrap"), Stage(HE, "")>>

\* put_msg and put_encrypted_msg.
put_msg == <<Stage(H, ""), Stage(HE, "")>>

\* Fault: the guard lives until the command has run.
bitcoin_locked == <<Stage(H, ""), Stage(H, "exec")>>

\* The Bitcoin value is cloned and the command run without any mutex.
bitcoin == <<Stage(H, ""), Stage({}, "exec")>>

\* The chat thread, for one event: listen or cancel_listen.
chat_event == <<Stage({"eosnode"}, "")>>

Program(kind) ==
    CASE kind = "node_infos" -> node_infos
      [] kind = "connected_nodes" -> connected_nodes
      [] kind = "connected_ips" -> connected_ips
      [] kind = "nodes_location" -> nodes_location
      [] kind = "country" -> country
      [] kind = "set" -> set
      [] kind = "get" -> get
      [] kind = "signup" -> signup
      [] kind = "put_msg" -> put_msg
      [] kind = "bitcoin" -> bitcoin
      [] kind = "chat_event" -> chat_event

Kinds == {"node_infos", "connected_nodes", "connected_ips", "nodes_location", "country",
          "set", "get", "signup", "put_msg", "bitcoin", "chat_event"}

ASSUME ApiAssumption ==
    /\ Mixes \subseteq [Requests -> Kinds]
    /\ MaxStarts \in Nat

ProgramOf(r) == Program(mix[r])

Active(r) == answer[r] = "none"
Now(r) == IF stage[r] = 0 THEN Stage({}, "") ELSE ProgramOf(r)[stage[r]]
Holds(r) == IF Active(r) THEN Now(r).holds ELSE {}
Held == UNION {Holds(r) : r \in Requests}

-----------------------------------------------------------------------------
(* Nodes: what is announced at hash(eos), and what the callbacks make of it. *)

NoInfo == [id |-> "", start |-> 0, ips |-> FALSE]

\* Fault: get_public_ips announces what it found, even nothing.
NoneFoundIsFine(addresses) == TRUE

\* init_ips and get_public_ips panic when no public address is found.
AddressesFound(addresses) == addresses

\* EosNode::new and announce of node n; `addresses`: whether the DHT or ipify
\* gave a public address.  The permanent put replaces nothing.
start_node(n) ==
    /\ n \notin running
    /\ starts[n] < MaxStarts
    /\ \E addresses \in BOOLEAN :
          /\ AddressesFound(addresses)
          /\ values' = values \cup {[id |-> n, start |-> starts[n] + 1, ips |-> addresses]}
    /\ running' = running \cup {n}
    /\ starts' = [starts EXCEPT ![n] = @ + 1]
    /\ UNCHANGED <<requestVars, poisoned, nodes, callbacks, called>>

\* A node stops, and no longer refreshes its announcement.
stop_node(n) ==
    /\ n \in running
    /\ running' = running \ {n}
    /\ UNCHANGED <<requestVars, poisoned, nodes, starts, values, callbacks, called>>

\* The DHT has found an announcement, and queues value_cb.
detect(v) ==
    /\ v \in values \ called.values
    /\ callbacks' = Append(callbacks, [kind |-> "value", info |-> v])
    /\ called' = [called EXCEPT !.values = @ \cup {v}]
    /\ UNCHANGED <<requestVars, poisoned, nodes, networkVars>>

\* An announcement that is not refreshed expires; if it was detected, value_cb
\* is queued again with expired = TRUE.
expire(v) ==
    /\ v \in values
    /\ v.id \notin running \/ v.start < starts[v.id]
    /\ values' = values \ {v}
    /\ IF v \in called.values
       THEN /\ callbacks' = Append(callbacks, [kind |-> "expired", info |-> v])
            /\ called' = [called EXCEPT !.expired = @ \cup {v}]
       ELSE UNCHANGED <<callbacks, called>>
    /\ UNCHANGED <<requestVars, poisoned, nodes, running, starts>>

\* Fault: expiry is taken for detection.
NeverRemoved(v) == [nodes EXCEPT ![v.id] = v]

\* value_cb: remove(id), whichever announcement is listed.
Removed(v) == [nodes EXCEPT ![v.id] = NoInfo]

\* value_cb: insert(id, node).
Inserted(v) == [nodes EXCEPT ![v.id] = v]

\* The DHT thread runs the next callback: value_cb, which needs the map of
\* nodes, or the done_cb of a get.
run_callback ==
    /\ callbacks # <<>>
    /\ LET cb == Head(callbacks)
       IN  \/ /\ cb.kind = "value"
              /\ "nodes" \notin Held
              /\ nodes' = Inserted(cb.info)
              /\ UNCHANGED requestVars
           \/ /\ cb.kind = "expired"
              /\ "nodes" \notin Held
              /\ nodes' = Removed(cb.info)
              /\ UNCHANGED requestVars
           \/ /\ cb.kind = "done"
              /\ \E outcome \in {"value", "nothing"} :
                    found' = [found EXCEPT ![cb.request] = outcome]
              /\ UNCHANGED <<stage, answer, nodes>>
    /\ callbacks' = Tail(callbacks)
    /\ UNCHANGED <<poisoned, networkVars, called>>

-----------------------------------------------------------------------------
(* Requests.                                                                 *)

\* exec_command: the command cannot be run, fails, prints nothing, or prints.
exec_command == {"error", "status", "empty", "output"}

\* The answer of getaddr, dumpprivkey, balance, gettransaction, sendtoaddress,
\* signmessage: err, or what was printed.
command_answer(outcome) == IF outcome = "output" THEN "ok" ELSE "err"

\* The answer of createmultisig and addmultisigaddress: err also if the output
\* does not parse.
multisig_answers(outcome) == IF outcome = "output" THEN {"ok", "err"} ELSE {"err"}

\* A panic poisons what the request holds.
Panic(r) ==
    /\ answer' = [answer EXCEPT ![r] = "panic"]
    /\ poisoned' = poisoned \cup Holds(r)
    /\ UNCHANGED <<stage, found, nodes, networkVars, callbacks, called>>

\* What the stage does panics: an unwrap of nothing.
Unwraps(r) ==
    \/ Now(r).does = "unwrap" /\ found[r] = "nothing"
    \/ Now(r).does = "first_ip" /\ \E n \in Nodes : nodes[n] # NoInfo /\ ~nodes[n].ips

\* The stage can end.
Ready(r) ==
    /\ Active(r)
    /\ Now(r).does = "wait" => found[r] # "waiting"
    /\ ~Unwraps(r)

\* The mutexes that the next stage locks.
Wanted(r) == ProgramOf(r)[stage[r] + 1].holds \ Holds(r)

More(r) == stage[r] < Len(ProgramOf(r))

\* Go on to the next stage, unlocking and locking what it says.
advance(r) ==
    /\ Ready(r) /\ More(r)
    /\ Wanted(r) \cap (Held \cup poisoned) = {}
    /\ stage' = [stage EXCEPT ![r] = @ + 1]
    /\ callbacks' = IF Now(r).does = "ask" THEN Append(callbacks, [kind |-> "done", request |-> r])
                    ELSE callbacks
    /\ UNCHANGED <<answer, found, poisoned, nodes, networkVars, called>>

\* An unwrap of nothing, or of the lock of a poisoned mutex.
panic(r) ==
    /\ Active(r)
    /\ Unwraps(r) \/ (Ready(r) /\ More(r) /\ Wanted(r) \cap poisoned # {})
    /\ Panic(r)

\* The answer is returned and the mutexes unlocked.
respond(r) ==
    /\ Ready(r) /\ ~More(r)
    /\ \E result \in
          CASE Now(r).does = "exec" ->
                 UNION {{command_answer(o)} \cup multisig_answers(o) : o \in exec_command}
            [] Now(r).does = "wait" -> {IF found[r] = "value" THEN "ok" ELSE "err"}
            [] Now(r).does = "ipinfo" -> {"ok", "err"}
            [] OTHER -> {"ok"} :
          answer' = [answer EXCEPT ![r] = result]
    /\ UNCHANGED <<stage, found, poisoned, nodes, networkVars, callbacks, called>>

-----------------------------------------------------------------------------
Init ==
    /\ mix \in Mixes
    /\ stage = [r \in Requests |-> 0]
    /\ answer = [r \in Requests |-> "none"]
    /\ found = [r \in Requests |-> "waiting"]
    /\ poisoned = {}
    /\ nodes = [n \in Nodes |-> NoInfo]
    /\ running = {}
    /\ starts = [n \in Nodes |-> 0]
    /\ values = {}
    /\ callbacks = <<>>
    /\ called = [values |-> {}, expired |-> {}]

Next ==
    /\ \/ \E r \in Requests : advance(r) \/ panic(r) \/ respond(r)
       \/ \E n \in Nodes : start_node(n) \/ stop_node(n)
       \/ \E v \in values : detect(v) \/ expire(v)
       \/ run_callback
    /\ UNCHANGED mix

\* What a thread does by itself; a request of bitcoin waits for bitcoin-cli.
Progress(r) == advance(r) \/ panic(r) \/ (mix[r] # "bitcoin" /\ respond(r))

\* There are more workers than requests of bitcoin, threads run, ipinfo.io
\* answers or times out, and the DHT calls back and expires what is not
\* refreshed.  Nothing is assumed of bitcoin-cli.
Fairness ==
    /\ \A r \in Requests : WF_vars(Progress(r) /\ UNCHANGED mix)
    /\ WF_vars(UNCHANGED mix /\ \E v \in values : detect(v))
    /\ WF_vars(UNCHANGED mix /\ \E v \in values : expire(v))
    /\ WF_vars(UNCHANGED mix /\ run_callback)

Spec == Init /\ [][Next]_vars /\ Fairness

-----------------------------------------------------------------------------
Info == [id : Nodes, start : 1..MaxStarts, ips : BOOLEAN]

\* Ranges of the variables.
TypeOK ==
    /\ mix \in Mixes
    /\ \A r \in Requests : stage[r] \in 0..Len(ProgramOf(r))
    /\ answer \in [Requests -> {"none", "ok", "err", "panic"}]
    /\ found \in [Requests -> {"waiting", "value", "nothing"}]
    /\ poisoned \subseteq Locks
    /\ \A n \in Nodes : nodes[n] = NoInfo \/ (nodes[n] \in Info /\ nodes[n].id = n)
    /\ running \subseteq Nodes
    /\ starts \in [Nodes -> 0..MaxStarts]
    /\ values \subseteq Info
    /\ called.values \subseteq Info /\ called.expired \subseteq called.values

\* The map of nodes and the EosNode are never poisoned, because no node can
\* announce itself without an address; only a sign-up that the DHT answers with
\* nothing poisons the handler.
OnlySignupPoisons ==
    /\ poisoned \subseteq {"handler"}
    /\ poisoned # {} =>
          \E r \in Requests : mix[r] = "signup" /\ found[r] = "nothing" /\ answer[r] = "panic"

Queued(kind, v) == \E i \in 1..Len(callbacks) : callbacks[i] = [kind |-> kind, info |-> v]

\* /getConnectedNodes follows the DHT: an expired announcement is listed only
\* until its callback runs, and a node that was never restarted is listed as
\* soon as it is detected and for as long as its announcement lives.  (After a
\* restart the expiry of the old announcement removes the node.)
ListFollowsDht ==
    \A n \in Nodes :
        /\ nodes[n] \in called.expired => Queued("expired", nodes[n])
        /\ \A v \in called.values \ called.expired :
              v.id = n /\ starts[n] = 1 => nodes[n] = v \/ Queued("value", v)

\* Every request is answered, although workers, chat thread and callbacks wait
\* for one another's mutexes, whether or not bitcoin-cli ever returns.
RequestsAnswered ==
    <>(\A r \in Requests : mix[r] # "bitcoin" => answer[r] # "none")

\* A node that stops leaves the list, even if requests hold the map of nodes
\* when its announcement expires.
StoppedNodesLeave ==
    \A n \in Nodes : n \notin running ~> (nodes[n] = NoInfo \/ n \in running)

=============================================================================
