-------------------------------- MODULE Board --------------------------------
(***************************************************************************)
(* The board of the vDexNode server on which the parties of a threshold    *)
(* protocol meet: sign-up, /set and /get (server.rs), stored in the DHT    *)
(* (handler.rs), and the client side of one HTTP call.                     *)
(*                                                                         *)
(* A hash of the DHT holds every value ever put there; a permanent put     *)
(* removes nothing.  A get is handed the values one by one and keeps the   *)
(* last, and does not wait for puts under way: it may answer with any      *)
(* value, or with none.  A poll that gets none tries again, which changes  *)
(* nothing.  `Lagging` says whether the sign-up hash shows this too.       *)
(*                                                                         *)
(* A message is the process that wrote it: its content is what the writer  *)
(* had computed by then, which it does not change afterwards.              *)
(***************************************************************************)
EXTENDS Integers, Sequences, FiniteSets

CONSTANTS
    Procs,        \* client processes
    Limit,        \* parties of a session
    MaxSessions,  \* bound: uuids
    Lagging       \* the DHT may answer a get with an older value or none

ASSUME BoardAssumption ==
    /\ Limit \in Nat \ {0}
    /\ MaxSessions \in Nat \ {0}
    /\ Lagging \in BOOLEAN

Sessions == 1..MaxSessions
Numbers == 1..Limit

VARIABLES
    signups,   \* the PartySignup values at the sign-up hash
    latest,    \* the one put last
    board,     \* the round messages
    poisoned   \* a handler panicked with the mutex of the server locked

boardVars == <<signups, latest, board, poisoned>>

\* Server::run announces the first session with party number 0.
BoardInit ==
    /\ signups = {[number |-> 0, uuid |-> 1]}
    /\ latest = [number |-> 0, uuid |-> 1]
    /\ board = {}
    /\ poisoned = FALSE

\* Uuid::new_v4, a uuid not used before.
NewUuid == Cardinality({v.uuid : v \in signups}) + 1

\* Fault: a full session is filled again from 1.
SameUuid(last) ==
    IF last.number < Limit
    THEN [number |-> last.number + 1, uuid |-> last.uuid]
    ELSE [number |-> 1, uuid |-> last.uuid]

\* Fault: a session gets one party too many.
OneTooMany(last) ==
    IF last.number <= Limit
    THEN [number |-> last.number + 1, uuid |-> last.uuid]
    ELSE [number |-> 1, uuid |-> NewUuid]

\* The next party number after `last`, or the first of a new session.
NextSignup(last) ==
    IF last.number < Limit
    THEN [number |-> last.number + 1, uuid |-> last.uuid]
    ELSE [number |-> 1, uuid |-> NewUuid]

\* What handler.get may find at the sign-up hash.
SignupFound == IF Lagging THEN signups ELSE {latest}

\* A sign-up request that the server answers with NextSignup(found): read the
\* last party and put the next, all with the mutex locked.
SignupHandled(found) ==
    /\ ~poisoned
    /\ found \in SignupFound
    /\ NextSignup(found).uuid \in Sessions
    /\ signups' = signups \cup {NextSignup(found)}
    /\ latest' = NextSignup(found)
    /\ UNCHANGED <<board, poisoned>>

\* A sign-up request that finds no value: unwrap panics under the mutex.
SignupPanics ==
    /\ ~poisoned
    /\ Lagging
    /\ poisoned' = TRUE
    /\ UNCHANGED <<signups, latest, board>>

\* /set: one more value at hash(number, round, uuid, to).
Set(entry) ==
    /\ ~poisoned
    /\ board' = board \cup {entry}
    /\ UNCHANGED <<signups, latest, poisoned>>

\* /get: any of the values at the hash.
Found(from, round, uuid, to) ==
    {e.by : e \in {b \in board : b.from = from /\ b.round = round
                                 /\ b.uuid = uuid /\ b.to = to}}

\* The answer to a /get whose value was written by process q.
Get(from, round, uuid, to, q) ==
    /\ ~poisoned
    /\ q \in Found(from, round, uuid, to)
    /\ UNCHANGED boardVars

Entry(rounds) == [from : Numbers, round : rounds, uuid : Sessions, to : 0..Limit, by : Procs]

PartySignup == [number : 0..Limit, uuid : Sessions]

\* The j-th of the parties other than `number`, in ascending order.
Other(number, j) == IF j < number THEN j ELSE j + 1

\* Fault: the own value is appended after the answers.
OwnLast(answers, number, own) ==
    [i \in Numbers |-> IF i = Limit THEN own ELSE answers[i]]

\* All values of a round, by party number: the answers of the others in the
\* order they were polled, with the own value in its place.
Assemble(answers, number, own) ==
    [i \in Numbers |-> IF i = number THEN own
                       ELSE answers[IF i < number THEN i ELSE i - 1]]

\* Rounds that party i of session s has posted; the first round is `first`.
Posted(s, i, first) ==
    LET rounds == {e.round : e \in {b \in board : b.from = i /\ b.uuid = s}}
    IN  IF rounds = {} THEN 0
        ELSE 1 + (CHOOSE r \in rounds : \A q \in rounds : q <= r) - first

=============================================================================
