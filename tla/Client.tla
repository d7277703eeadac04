------------------------------- MODULE Client -------------------------------
(***************************************************************************)
(* What generate_key and sign have in common: a process signs up, and in   *)
(* each round posts its message and polls, one after the other, the        *)
(* messages of the other parties of its session.                           *)
(***************************************************************************)
EXTENDS Board

CONSTANT MaxFaults  \* bound: stale sign-ups, lost answers and crashes together

ASSUME ClientAssumption == MaxFaults \in Nat

VARIABLES
    status,   \* "start", "run", "done" (result file written) or "panic"
    party,    \* party_num_int and uuid, from the answer to the sign-up
    round,    \* the round the process has posted, or is posting, last
    sent,     \* in a peer-to-peer round: how many parties it was sent to
    got,      \* got[p][r]: the answers polled in round r
    history   \* [stale, faults]; no code reads it

procVars == <<status, party, round, sent, got>>
clientVars == <<boardVars, procVars, history>>

NoParty == [number |-> 0, uuid |-> 0]

ClientInit(rounds, before) ==
    /\ BoardInit
    /\ status = [p \in Procs |-> "start"]
    /\ party = [p \in Procs |-> NoParty]
    /\ round = [p \in Procs |-> before]
    /\ sent = [p \in Procs |-> 0]
    /\ got = [p \in Procs |-> [r \in rounds |-> <<>>]]
    /\ history = [stale |-> FALSE, faults |-> 0]

Fault ==
    /\ history.faults < MaxFaults
    /\ history' = [history EXCEPT !.faults = @ + 1]

-----------------------------------------------------------------------------
\* The sign-up request, answered.
signup(p) ==
    /\ status[p] = "start"
    /\ \E found \in signups :
          /\ SignupHandled(found)
          /\ party' = [party EXCEPT ![p] = NextSignup(found)]
          /\ \/ /\ found = latest
                /\ UNCHANGED history
             \/ /\ found # latest
                /\ history.faults < MaxFaults
                /\ history' = [stale |-> TRUE, faults |-> history.faults + 1]
    /\ status' = [status EXCEPT ![p] = "run"]
    /\ UNCHANGED <<round, sent, got>>

\* postb: the answer to the sign-up is lost, and the request sent again.
\* If that fails too, the process panics: see crash.
signupLost(p) ==
    /\ status[p] = "start"
    /\ SignupHandled(latest)
    /\ Fault
    /\ UNCHANGED procVars

Panic(p) ==
    /\ status' = [status EXCEPT ![p] = "panic"]
    /\ UNCHANGED <<party, round, sent, got>>

\* The sign-up found no value: the handler and the process both panic.
signupPanics(p) ==
    /\ status[p] = "start"
    /\ SignupPanics
    /\ Panic(p)
    /\ Fault

\* The process is killed, or both attempts of postb fail.
crash(p) ==
    /\ status[p] \in {"start", "run"}
    /\ Panic(p)
    /\ Fault
    /\ UNCHANGED boardVars

\* The server answers every request with an error page, which does not parse.
refused(p) ==
    /\ status[p] \in {"start", "run"}
    /\ poisoned
    /\ Panic(p)
    /\ UNCHANGED <<boardVars, history>>

-----------------------------------------------------------------------------
Message(p, r, to) ==
    [from |-> party[p].number, round |-> r, uuid |-> party[p].uuid, to |-> to, by |-> p]

\* Post the message of round r to all.
broadcast(p, r) ==
    /\ Set(Message(p, r, 0))
    /\ round' = [round EXCEPT ![p] = r]
    /\ UNCHANGED <<status, party, sent, got, history>>

\* Post the message of round r to the next party; the first of them begins
\* the round.
sendp2p(p, r) ==
    /\ sent[p] < Limit - 1
    /\ Set(Message(p, r, Other(party[p].number, sent[p] + 1)))
    /\ round' = [round EXCEPT ![p] = r]
    /\ sent' = [sent EXCEPT ![p] = @ + 1]
    /\ UNCHANGED <<status, party, got, history>>

\* Fault: the last answer is not waited for.
AllButOne(p, r) == Len(got[p][r]) >= Limit - 2

\* Fault: an answer is expected from the own number too.
OwnToo(p, r) == Len(got[p][r]) = Limit

\* The loop over the parties of poll_for_broadcasts or poll_for_p2p is over.
Polled(p, r) == Len(got[p][r]) = Limit - 1

\* p has posted round r and polled all of its answers.
Completed(p, r) == status[p] = "run" /\ round[p] = r /\ Polled(p, r)

\* One successful /get of round r, of a message addressed to `to`.
poll(p, r, to) ==
    /\ status[p] = "run" /\ round[p] = r
    /\ Len(got[p][r]) < Limit - 1
    /\ \E q \in Procs :
          /\ Get(Other(party[p].number, Len(got[p][r]) + 1), r, party[p].uuid, to, q)
          /\ got' = [got EXCEPT ![p][r] = Append(@, q)]
    /\ UNCHANGED <<status, party, round, sent, history>>

\* Messages to all.
poll_for_broadcasts(p, r) == poll(p, r, 0)

\* Messages to the own number, once the own messages are sent.
poll_for_p2p(p, r) ==
    /\ sent[p] = Limit - 1
    /\ poll(p, r, party[p].number)

\* Go on with `step` if the check holds, and panic (expect, assert!) if not.
Expect(p, check, step) ==
    \/ check /\ step
    \/ /\ ~check
       /\ Panic(p)
       /\ UNCHANGED <<boardVars, history>>

\* The result file is written.
finish(p) ==
    /\ status' = [status EXCEPT ![p] = "done"]
    /\ UNCHANGED <<boardVars, party, round, sent, got, history>>

Fail(p) == signupLost(p) \/ signupPanics(p) \/ crash(p)

-----------------------------------------------------------------------------
\* Who wrote the value that p holds for each party in round r.
View(p, r) == Assemble(got[p][r], party[p].number, p)

Joined == {p \in Procs : party[p] # NoParty}

\* Every number of session s is held by a process.
Full(s) == \A i \in Numbers : \E p \in Procs : party[p] = [number |-> i, uuid |-> s]

ClientTypeOK(rounds, before) ==
    /\ signups \subseteq PartySignup
    /\ latest \in signups
    /\ board \subseteq Entry(rounds)
    /\ poisoned \in BOOLEAN
    /\ status \in [Procs -> {"start", "run", "done", "panic"}]
    /\ party \in [Procs -> PartySignup \cup {NoParty}]
    /\ round \in [Procs -> rounds \cup {before}]
    /\ sent \in [Procs -> 0..(Limit - 1)]
    /\ got \in [Procs -> [rounds -> UNION {[1..n -> Procs] : n \in 0..(Limit - 1)}]]
    /\ history \in [stale : BOOLEAN, faults : 0..MaxFaults]

=============================================================================
