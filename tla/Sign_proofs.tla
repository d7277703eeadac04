----------------------------- MODULE Sign_proofs -----------------------------
(***************************************************************************)
(* Proofs about sign, for any number of processes, parties and sessions,   *)
(* any command lines and any number of faults.                             *)
(***************************************************************************)
EXTENDS Sign, SequenceTheorems, TLAPS

-----------------------------------------------------------------------------
(* The shapes a step can have.                                               *)

\* p posts its message of round r: of the next one, after it has polled all
\* answers, or one more of round 2.
Posts(p, r, to) ==
    /\ status[p] = "run"
    /\ r \in Rounds /\ to \in 0..Limit
    /\ \/ r = round[p] + 1 /\ (round[p] = -1 \/ Polled(p, round[p]))
       \/ r = 2 /\ round[p] = 2
    /\ r = 9 => SumVanishes(p)
    /\ board' = board \cup {Message(p, r, to)}
    /\ round' = [round EXCEPT ![p] = r]
    /\ \/ sent' = sent
       \/ sent[p] < Limit - 1 /\ sent' = [sent EXCEPT ![p] = @ + 1]
    /\ UNCHANGED <<signups, latest, poisoned, status, party, got, history, setup>>

\* p polls the next answer of its round, written by q.
Polls(p, r, q) ==
    /\ status[p] = "run" /\ round[p] = r /\ r \in Rounds
    /\ Len(got[p][r]) < Limit - 1
    /\ \E e \in board : /\ e.from = Other(party[p].number, Len(got[p][r]) + 1)
                        /\ e.round = r /\ e.uuid = party[p].uuid /\ e.by = q
    /\ got' = [got EXCEPT ![p][r] = Append(@, q)]
    /\ UNCHANGED <<boardVars, status, party, round, sent, history, setup>>

\* p signs up, or its answer is lost.
SignsUp(p) == (signup(p) \/ signupLost(p)) /\ UNCHANGED setup

\* p stops.
Halts(p) ==
    /\ status' = [status EXCEPT ![p] = "panic"]
    /\ poisoned' \in BOOLEAN
    /\ history' \in [stale : {history.stale}, faults : 0..MaxFaults]
    /\ UNCHANGED <<signups, latest, board, party, round, sent, got, setup>>

Saves(p) == Completed(p, 9) /\ finish(p) /\ UNCHANGED setup

\* Every step of sign has one of these shapes.
LEMMA Shapes ==
    ASSUME TypeOK, NEW p \in Procs, Step(p) \/ (Fail(p) /\ UNCHANGED setup)
    PROVE  \/ SignsUp(p)
           \/ \E r \in Rounds, to \in 0..Limit : Posts(p, r, to)
           \/ \E r \in Rounds, q \in Procs : Polls(p, r, q)
           \/ Halts(p) \/ Saves(p)
  <1>0. /\ Limit \in Nat /\ Limit > 0 /\ MaxFaults \in Nat
        /\ history \in [stale : BOOLEAN, faults : 0..MaxFaults]
        /\ poisoned \in BOOLEAN
        /\ party[p] \in PartySignup \cup {NoParty}
    BY BoardAssumption, ClientAssumption DEF TypeOK, ClientTypeOK
  <1>a. party[p].number \in 0..Limit
    BY <1>0 DEF PartySignup, NoParty
  <1>b. UNCHANGED setup
    BY DEF Step
  <1>1. ASSUME NEW r \in Rounds, broadcast(p, r), status[p] = "run",
               r = round[p] + 1, round[p] = -1 \/ Polled(p, round[p]),
               r = 9 => SumVanishes(p)
        PROVE  \E to \in 0..Limit : Posts(p, r, to)
    <2>1. Posts(p, r, 0)
      BY <1>0, <1>b, <1>1 DEF broadcast, Set, Posts
    <2>2. QED
      BY <1>0, <2>1
  <1>2. ASSUME sendp2p(p, 2), status[p] = "run",
               round[p] = 2 \/ (round[p] = 1 /\ Polled(p, 1))
        PROVE  \E to \in 0..Limit : Posts(p, 2, to)
    <2> DEFINE to == Other(party[p].number, sent[p] + 1)
    <2>1. sent[p] \in 0..(Limit - 1) /\ sent[p] < Limit - 1
      BY <1>0, <1>2 DEF TypeOK, ClientTypeOK, sendp2p
    <2>2. to \in 0..Limit
      BY <1>0, <1>a, <2>1 DEF Other
    <2>3. Posts(p, 2, to)
      BY <1>b, <1>2, <2>1, <2>2 DEF sendp2p, Set, Posts, Rounds
    <2>4. QED
      BY <2>2, <2>3
  <1>3. ASSUME NEW r \in Rounds, NEW to, poll(p, r, to)
        PROVE  \E q \in Procs : Polls(p, r, q)
    <2>1. PICK q \in Procs :
             /\ Get(Other(party[p].number, Len(got[p][r]) + 1), r, party[p].uuid, to, q)
             /\ got' = [got EXCEPT ![p][r] = Append(@, q)]
      BY <1>3 DEF poll
    <2>2. Polls(p, r, q)
      BY <1>b, <1>3, <2>1 DEF poll, Get, Found, Polls
    <2>3. QED
      BY <2>2
  <1>4. ASSUME Panic(p), UNCHANGED <<boardVars, history>>
        PROVE  Halts(p)
    BY <1>0, <1>b, <1>4 DEF Panic, Halts, boardVars
  <1>5. ASSUME NEW check, NEW step, Expect(p, check, step)
        PROVE  (check /\ step) \/ Halts(p)
    BY <1>4, <1>5 DEF Expect
  <1>6. CASE Fail(p)
    <2>1. CASE signupPanics(p)
      BY <1>0, <1>b, <2>1 DEF signupPanics, SignupPanics, Panic, Fault, Halts
    <2>2. CASE crash(p)
      BY <1>0, <1>b, <2>2 DEF crash, Panic, Fault, Halts, boardVars
    <2>3. QED
      BY <1>6, <1>b, <2>1, <2>2 DEF Fail, SignsUp
  <1>7. CASE Step(p)
    <2>1. CASE round0(p) \/ phase1_broadcast(p)
      BY <1>1, <2>1 DEF round0, phase1_broadcast, Completed, Rounds
    <2>2. CASE send_m_b(p)
      BY <1>2, <2>2 DEF send_m_b, Completed, Rounds
    <2>3. CASE phase2_delta(p)
      BY <1>1, <1>5, <2>3 DEF phase2_delta, Completed, Rounds
    <2>4. CASE decommit(p) \/ phase5b(p) \/ decommit5d(p)
      BY <1>1, <2>4 DEF decommit, phase5b, decommit5d, Completed, Rounds
    <2>5. CASE phase4_phase5a(p)
      BY <1>1, <1>5, <2>5 DEF phase4_phase5a, Completed, Rounds
    <2>6. CASE phase5c(p)
      BY <1>1, <1>5, <2>6 DEF phase5c, Completed, Rounds
    <2>7. CASE phase5d(p)
      BY <1>1, <1>5, <2>7 DEF phase5d, Completed, Rounds
    <2>8. CASE output_signature(p)
      BY <1>b, <1>5, <2>8 DEF output_signature, Saves
    <2>9. CASE \E r \in Rounds \ {2} : poll_for_broadcasts(p, r)
      BY <1>3, <2>9 DEF poll_for_broadcasts
    <2>10. CASE poll_for_p2p(p, 2)
      BY <1>3, <2>10 DEF poll_for_p2p, Rounds
    <2>11. CASE refused(p)
      BY <1>4, <2>11 DEF refused
    <2>12. QED
      BY <1>7, <1>b, <2>1, <2>2, <2>3, <2>4, <2>5, <2>6, <2>7, <2>8, <2>9, <2>10, <2>11
      DEF Step, SignsUp
  <1>8. QED
    BY <1>6, <1>7

-----------------------------------------------------------------------------
(* The inductive invariant.                                                  *)

\* A process has a number once its sign-up was answered.
Joining ==
    \A p \in Procs :
        /\ status[p] = "start" => party[p] = NoParty
        /\ status[p] \in {"run", "done"} => party[p] \in [number : Numbers, uuid : Sessions]
        /\ party[p] = NoParty => round[p] = -1

\* What is on the board was posted by a process with that number and session
\* that has come to that round, and it has posted all rounds up to its own.
BoardWritten ==
    /\ \A e \in board : /\ party[e.by] = [number |-> e.from, uuid |-> e.uuid]
                        /\ e.round <= round[e.by]
    /\ \A p \in Procs : \A r \in 0..round[p] :
          \E e \in board : /\ e.from = party[p].number /\ e.uuid = party[p].uuid
                           /\ e.round = r

\* The answers polled were written by processes with the number asked for.
GotWritten ==
    \A p \in Procs, r \in Rounds : \A k \in 1..Len(got[p][r]) :
        LET q == got[p][r][k]
        IN  /\ party[q] = [number |-> Other(party[p].number, k), uuid |-> party[p].uuid]
            /\ r <= round[q]

\* All answers of earlier rounds are polled, and none of later ones.
InRounds ==
    \A p \in Procs, r \in Rounds : /\ r < round[p] => Polled(p, r)
                                   /\ r > round[p] => got[p][r] = <<>>

\* The processes whose parts p added up in phase 5d hold different shares of
\* one key and have one message.
Quorate(p) ==
    /\ \A i \in Numbers : /\ file(View(p, 8)[i]).key = file(View(p, 8)[1]).key
                          /\ message(View(p, 8)[i]) = message(View(p, 8)[1])
    /\ Cardinality({file(View(p, 8)[i]).party_id : i \in Numbers}) = Limit

\* The check of phase 5d has been passed.
Checked == \A p \in Procs : round[p] = 9 => Quorate(p)

SignInv ==
    /\ TypeOK
    /\ Joining
    /\ BoardWritten
    /\ GotWritten
    /\ InRounds
    /\ Checked

-----------------------------------------------------------------------------
(* Types.                                                                    *)

\* The types of the parts of the state that the lemmas below use.
LEMMA Types ==
    ASSUME TypeOK
    PROVE  /\ Limit \in Nat /\ Limit >= 1 /\ MaxSessions \in Nat /\ MaxFaults \in Nat
           /\ signups \subseteq PartySignup /\ latest \in signups
           /\ board \subseteq Entry(Rounds)
           /\ poisoned \in BOOLEAN
           /\ status \in [Procs -> {"start", "run", "done", "panic"}]
           /\ party \in [Procs -> PartySignup \cup {NoParty}]
           /\ round \in [Procs -> (-1)..9]
           /\ sent \in [Procs -> 0..(Limit - 1)]
           /\ history \in [stale : BOOLEAN, faults : 0..MaxFaults]
           /\ setup \in Setups
  <1>1. Rounds \cup {-1} = (-1)..9
    BY DEF Rounds
  <1>2. QED
    BY <1>1, BoardAssumption, ClientAssumption DEF TypeOK, ClientTypeOK

\* Sequences of at most n entries, as TypeOK writes them.
LEMMA ShortSeqs ==
    ASSUME NEW n \in Nat, NEW s
    PROVE  s \in UNION {[1..m -> Procs] : m \in 0..n} <=> s \in Seq(Procs) /\ Len(s) <= n
  <1>1. ASSUME NEW m \in 0..n, s \in [1..m -> Procs]
        PROVE  s \in Seq(Procs) /\ Len(s) <= n
    BY <1>1
  <1>2. ASSUME s \in Seq(Procs), Len(s) <= n
        PROVE  Len(s) \in 0..n /\ s \in [1..Len(s) -> Procs]
    BY <1>2, LenProperties
  <1>3. QED
    BY <1>1, <1>2

\* The answers of every round, as sequences.
LEMMA GotType ==
    ASSUME Limit \in Nat, Limit >= 1, NEW g
    PROVE  g \in [Procs -> [Rounds -> UNION {[1..n -> Procs] : n \in 0..(Limit - 1)}]]
           <=> /\ g \in [Procs -> [Rounds -> Seq(Procs)]]
               /\ \A p \in Procs, r \in Rounds : Len(g[p][r]) <= Limit - 1
  <1> DEFINE S == UNION {[1..n -> Procs] : n \in 0..(Limit - 1)}
  <1>1. \A s : s \in S <=> s \in Seq(Procs) /\ Len(s) <= Limit - 1
    BY ShortSeqs
  <1> HIDE DEF S
  <1>2. ASSUME g \in [Procs -> [Rounds -> S]]
        PROVE  /\ g \in [Procs -> [Rounds -> Seq(Procs)]]
               /\ \A p \in Procs, r \in Rounds : Len(g[p][r]) <= Limit - 1
    BY <1>1, <1>2
  <1>3. ASSUME g \in [Procs -> [Rounds -> Seq(Procs)]],
               \A p \in Procs, r \in Rounds : Len(g[p][r]) <= Limit - 1
        PROVE  g \in [Procs -> [Rounds -> S]]
    BY <1>1, <1>3
  <1>4. QED
    BY <1>2, <1>3 DEF S

\* The number a sign-up gives is one of the session's.
LEMMA NextSignupType ==
    ASSUME TypeOK, NEW found \in signups, NextSignup(found).uuid \in Sessions
    PROVE  NextSignup(found) \in [number : Numbers, uuid : Sessions]
  <1>1. found.number \in 0..Limit /\ found.uuid \in Sessions
    BY Types DEF PartySignup
  <1>2. QED
    BY <1>1, Types DEF NextSignup, Numbers

\* Every step preserves the types.
LEMMA TypeStep ==
    ASSUME SignInv, [Next]_vars
    PROVE  TypeOK'
  <1> USE DEF SignInv
  <1>0. /\ got \in [Procs -> [Rounds -> Seq(Procs)]]
        /\ \A p \in Procs, r \in Rounds : Len(got[p][r]) <= Limit - 1
    BY Types, GotType DEF TypeOK, ClientTypeOK
  <1>1. ASSUME NEW p \in Procs, signup(p), UNCHANGED setup
        PROVE  TypeOK'
    <2>1. PICK found \in signups :
             /\ SignupHandled(found)
             /\ party' = [party EXCEPT ![p] = NextSignup(found)]
             /\ \/ UNCHANGED history
                \/ /\ history.faults < MaxFaults
                   /\ history' = [stale |-> TRUE, faults |-> history.faults + 1]
      BY <1>1 DEF signup
    <2>2. NextSignup(found) \in PartySignup
      BY <2>1, NextSignupType DEF SignupHandled, PartySignup, Numbers
    <2>3. history' \in [stale : BOOLEAN, faults : 0..MaxFaults]
      <3>1. history.faults \in 0..MaxFaults /\ MaxFaults \in Nat
        BY Types
      <3>2. history.faults < MaxFaults => history.faults + 1 \in 0..MaxFaults
        BY <3>1
      <3>3. CASE UNCHANGED history
        BY <3>3, Types
      <3>4. CASE /\ history.faults < MaxFaults
                 /\ history' = [stale |-> TRUE, faults |-> history.faults + 1]
        BY <3>2, <3>4
      <3>5. QED
        BY <2>1, <3>3, <3>4
    <2>4. QED
      BY <1>1, <2>1, <2>2, <2>3, Types DEF signup, SignupHandled, TypeOK, ClientTypeOK
  <1>2. ASSUME NEW p \in Procs, signupLost(p), UNCHANGED setup
        PROVE  TypeOK'
    <2>1. NextSignup(latest) \in PartySignup
      BY <1>2, Types, NextSignupType DEF signupLost, SignupHandled, PartySignup, Numbers
    <2>2. history' \in [stale : BOOLEAN, faults : 0..MaxFaults]
      BY <1>2, Types DEF signupLost, Fault
    <2>3. QED
      BY <1>2, <2>1, <2>2, Types
      DEF signupLost, SignupHandled, procVars, TypeOK, ClientTypeOK
  <1>3. ASSUME NEW p \in Procs, NEW r \in Rounds, NEW to \in 0..Limit, Posts(p, r, to)
        PROVE  TypeOK'
    <2>1. party[p] \in [number : Numbers, uuid : Sessions]
      BY <1>3 DEF Posts, Joining
    <2>2. Message(p, r, to) \in Entry(Rounds)
      BY <2>1 DEF Message, Entry
    <2>3. sent' \in [Procs -> 0..(Limit - 1)]
      BY <1>3, Types DEF Posts
    <2>4. QED
      BY <1>3, <2>2, <2>3, Types DEF Posts, TypeOK, ClientTypeOK
  <1>4. ASSUME NEW p \in Procs, NEW r \in Rounds, NEW q \in Procs, Polls(p, r, q)
        PROVE  TypeOK'
    <2>1. /\ got' \in [Procs -> [Rounds -> Seq(Procs)]]
          /\ \A x \in Procs, y \in Rounds : Len(got'[x][y]) <= Limit - 1
      BY <1>0, <1>4, Types DEF Polls
    <2>2. got' \in [Procs -> [Rounds -> UNION {[1..n -> Procs] : n \in 0..(Limit - 1)}]]
      BY <2>1, Types, GotType
    <2>3. QED
      BY <1>4, <2>2 DEF Polls, boardVars, TypeOK, ClientTypeOK
  <1>5. ASSUME NEW p \in Procs, Halts(p)
        PROVE  TypeOK'
    BY <1>5, Types DEF Halts, TypeOK, ClientTypeOK
  <1>6. ASSUME NEW p \in Procs, Saves(p)
        PROVE  TypeOK'
    BY <1>6, Types DEF Saves, finish, boardVars, TypeOK, ClientTypeOK
  <1>7. CASE UNCHANGED vars
    BY <1>7 DEF vars, clientVars, boardVars, procVars, TypeOK, ClientTypeOK
  <1>8. QED
    BY <1>1, <1>2, <1>3, <1>4, <1>5, <1>6, <1>7, Shapes DEF Next, SignsUp

-----------------------------------------------------------------------------
(* What no step takes back.                                                  *)

\* One more answer leaves the earlier ones where they are.
LEMMA AppendLonger ==
    ASSUME NEW s \in Seq(Procs), NEW q \in Procs
    PROVE  /\ Append(s, q) \in Seq(Procs)
           /\ Len(Append(s, q)) = Len(s) + 1
           /\ Append(s, q)[Len(s) + 1] = q
           /\ \A k \in 1..Len(s) : k \in 1..Len(Append(s, q)) /\ Append(s, q)[k] = s[k]
  OBVIOUS

\* A process keeps its number, its round does not decrease, the answers of
\* earlier rounds do not change and nothing is taken off the board.
Kept ==
    /\ \A p \in Procs : party[p] # NoParty => party'[p] = party[p]
    /\ \A p \in Procs : round[p] <= round'[p]
    /\ \A p \in Procs, r \in Rounds : r < round[p] => got'[p][r] = got[p][r]
    /\ \A p \in Procs, r \in Rounds : \A k \in 1..Len(got[p][r]) :
          k \in 1..Len(got'[p][r]) /\ got'[p][r][k] = got[p][r][k]
    /\ board \subseteq board'

\* A step that leaves numbers, rounds and answers alone takes nothing back.
LEMMA SameKeeps ==
    ASSUME TypeOK, UNCHANGED <<party, round, got>>, board \subseteq board'
    PROVE  Kept
  <1>1. \A p \in Procs : round[p] <= round'[p]
    BY Types
  <1>2. \A p \in Procs : party[p] # NoParty => party'[p] = party[p]
    OBVIOUS
  <1>3. \A p \in Procs, r \in Rounds : r < round[p] => got'[p][r] = got[p][r]
    OBVIOUS
  <1>4. \A p \in Procs, r \in Rounds : \A k \in 1..Len(got[p][r]) :
          k \in 1..Len(got'[p][r]) /\ got'[p][r][k] = got[p][r][k]
    OBVIOUS
  <1>5. QED
    BY <1>1, <1>2, <1>3, <1>4 DEF Kept

\* No step takes anything back.
LEMMA StepKeeps ==
    ASSUME SignInv, [Next]_vars
    PROVE  Kept
  <1> USE DEF SignInv
  <1>0. /\ got \in [Procs -> [Rounds -> Seq(Procs)]]
        /\ \A p \in Procs, r \in Rounds : Len(got[p][r]) <= Limit - 1
    BY Types, GotType DEF TypeOK, ClientTypeOK
  <1>a. round \in [Procs -> (-1)..9]
    BY Types
  <1>1. ASSUME NEW p \in Procs, signup(p), UNCHANGED setup
        PROVE  Kept
    <2>1. party[p] = NoParty
      BY <1>1 DEF signup, Joining
    <2>2. /\ \A q \in Procs : q # p => party'[q] = party[q]
          /\ UNCHANGED <<round, got, board>>
      BY <1>1, Types DEF signup, SignupHandled
    <2>3. QED
      BY <1>a, <2>1, <2>2 DEF Kept
  <1>2. ASSUME NEW p \in Procs, signupLost(p), UNCHANGED setup
        PROVE  Kept
    BY <1>2, SameKeeps DEF signupLost, SignupHandled, procVars
  <1>3. ASSUME NEW p \in Procs, NEW r \in Rounds, NEW to \in 0..Limit, Posts(p, r, to)
        PROVE  Kept
    BY <1>a, <1>3 DEF Posts, Kept
  <1>4. ASSUME NEW p \in Procs, NEW r \in Rounds, NEW q \in Procs, Polls(p, r, q)
        PROVE  Kept
    <2>1. \A x \in Procs, y \in Rounds :
             got'[x][y] = IF x = p /\ y = r THEN Append(got[x][y], q) ELSE got[x][y]
      BY <1>0, <1>4 DEF Polls
    <2>2. r = round[p] /\ UNCHANGED <<party, round, board>>
      BY <1>4 DEF Polls, boardVars
    <2>3. \A x \in Procs, y \in Rounds : \A k \in 1..Len(got[x][y]) :
             k \in 1..Len(got'[x][y]) /\ got'[x][y][k] = got[x][y][k]
      <3>1. SUFFICES ASSUME NEW x \in Procs, NEW y \in Rounds, NEW k \in 1..Len(got[x][y])
                     PROVE  k \in 1..Len(got'[x][y]) /\ got'[x][y][k] = got[x][y][k]
        OBVIOUS
      <3>2. CASE x = p /\ y = r
        <4>1. got[x][y] \in Seq(Procs) /\ got'[x][y] = Append(got[x][y], q)
          BY <1>0, <2>1, <3>2
        <4>2. QED
          BY <4>1, AppendLonger
      <3>3. CASE ~(x = p /\ y = r)
        BY <2>1, <3>3
      <3>4. QED
        BY <3>2, <3>3
    <2>4. \A x \in Procs, y \in Rounds : y < round[x] => got'[x][y] = got[x][y]
      BY <1>a, <2>1, <2>2 DEF Rounds
    <2>5. QED
      BY <1>a, <2>2, <2>3, <2>4 DEF Kept
  <1>5. ASSUME NEW p \in Procs, Halts(p)
        PROVE  Kept
    BY <1>5, SameKeeps DEF Halts
  <1>6. ASSUME NEW p \in Procs, Saves(p)
        PROVE  Kept
    BY <1>6, SameKeeps DEF Saves, finish, boardVars
  <1>7. CASE UNCHANGED vars
    BY <1>7, SameKeeps DEF vars, clientVars, boardVars, procVars
  <1>8. QED
    BY <1>1, <1>2, <1>3, <1>4, <1>5, <1>6, <1>7, Shapes DEF Next, SignsUp

\* Processes with a number, and their rounds.
LEMMA JoiningStep ==
    ASSUME SignInv, [Next]_vars
    PROVE  Joining'
  <1> USE DEF SignInv
  <1>1. ASSUME NEW p \in Procs, signup(p), UNCHANGED setup
        PROVE  Joining'
    <2>1. PICK found \in signups :
             SignupHandled(found) /\ party' = [party EXCEPT ![p] = NextSignup(found)]
      BY <1>1 DEF signup
    <2>2. NextSignup(found) \in [number : Numbers, uuid : Sessions]
      BY <2>1, NextSignupType DEF SignupHandled
    <2>3. NextSignup(found) # NoParty
      BY <2>2, Types DEF NoParty, Numbers
    <2>4. QED
      BY <1>1, <2>1, <2>2, <2>3, Types DEF signup, Joining
  <1>2. ASSUME NEW p \in Procs, signupLost(p), UNCHANGED setup
        PROVE  Joining'
    BY <1>2 DEF signupLost, procVars, Joining
  <1>3. ASSUME NEW p \in Procs, NEW r \in Rounds, NEW to \in 0..Limit, Posts(p, r, to)
        PROVE  Joining'
    <2>1. party[p] # NoParty
      BY <1>3, Types DEF Posts, Joining, NoParty, Numbers
    <2>2. QED
      BY <1>3, <2>1, Types DEF Posts, Joining
  <1>4. ASSUME NEW p \in Procs, NEW r \in Rounds, NEW q \in Procs, Polls(p, r, q)
        PROVE  Joining'
    BY <1>4 DEF Polls, Joining
  <1>5. ASSUME NEW p \in Procs, Halts(p)
        PROVE  Joining'
    BY <1>5, Types DEF Halts, Joining
  <1>6. ASSUME NEW p \in Procs, Saves(p)
        PROVE  Joining'
    BY <1>6, Types DEF Saves, finish, Joining, Completed
  <1>7. CASE UNCHANGED vars
    BY <1>7 DEF vars, clientVars, procVars, Joining
  <1>8. QED
    BY <1>1, <1>2, <1>3, <1>4, <1>5, <1>6, <1>7, Shapes DEF Next, SignsUp

-----------------------------------------------------------------------------
(* Messages and answers.                                                     *)

\* Only a post changes the board or a round.
LEMMA OnlyPosts ==
    ASSUME TypeOK, [Next]_vars
    PROVE  \/ \E p \in Procs, r \in Rounds, to \in 0..Limit : Posts(p, r, to)
           \/ UNCHANGED <<board, round>>
  <1>1. ASSUME NEW p \in Procs, SignsUp(p) \/ Halts(p) \/ Saves(p)
        PROVE  UNCHANGED <<board, round>>
    BY <1>1
    DEF SignsUp, signup, signupLost, SignupHandled, Halts, Saves, finish, boardVars, procVars
  <1>2. ASSUME NEW p \in Procs, NEW r \in Rounds, NEW q \in Procs, Polls(p, r, q)
        PROVE  UNCHANGED <<board, round>>
    BY <1>2 DEF Polls, boardVars
  <1>3. CASE UNCHANGED vars
    BY <1>3 DEF vars, clientVars, boardVars, procVars
  <1>4. QED
    BY <1>1, <1>2, <1>3, Shapes DEF Next

\* Only a poll changes the answers.
LEMMA OnlyPolls ==
    ASSUME TypeOK, [Next]_vars
    PROVE  \/ \E p \in Procs, r \in Rounds, q \in Procs : Polls(p, r, q)
           \/ UNCHANGED got
  <1>1. ASSUME NEW p \in Procs, SignsUp(p) \/ Halts(p) \/ Saves(p)
        PROVE  UNCHANGED got
    BY <1>1 DEF SignsUp, signup, signupLost, Halts, Saves, finish, procVars
  <1>2. ASSUME NEW p \in Procs, NEW r \in Rounds, NEW to \in 0..Limit, Posts(p, r, to)
        PROVE  UNCHANGED got
    BY <1>2 DEF Posts
  <1>3. CASE UNCHANGED vars
    BY <1>3 DEF vars, clientVars, procVars
  <1>4. QED
    BY <1>1, <1>2, <1>3, Shapes DEF Next

\* A process that has come to a round, or that was sent to, has a number.
LEMMA HasNumber ==
    ASSUME SignInv
    PROVE  /\ \A p \in Procs : round[p] >= 0 => party[p] # NoParty
           /\ \A p \in Procs, r \in Rounds : Len(got[p][r]) > 0 => party[p] # NoParty
           /\ \A p \in Procs : status[p] = "run" => party[p] # NoParty
           /\ \A i \in Numbers : \A s : [number |-> i, uuid |-> s] # NoParty
  <1> USE DEF SignInv
  <1>1. \A p \in Procs : party[p] = NoParty => round[p] = -1
    BY DEF Joining
  <1>2. \A p \in Procs, r \in Rounds : party[p] = NoParty => got[p][r] = <<>>
    BY <1>1 DEF InRounds, Rounds
  <1>3. \A i \in Numbers : \A s : [number |-> i, uuid |-> s] # NoParty
    BY Types DEF Numbers, NoParty
  <1>4. \A p \in Procs : status[p] = "run" => party[p] # NoParty
    BY <1>3 DEF Joining
  <1>5. QED
    BY <1>1, <1>2, <1>3, <1>4

\* The rounds before and after a step.
LEMMA RoundTypes ==
    ASSUME SignInv, [Next]_vars
    PROVE  \A p \in Procs : round[p] \in (-1)..9 /\ round'[p] \in (-1)..9
  <1>1. round \in [Procs -> (-1)..9]
    BY Types DEF SignInv
  <1>2. round' \in [Procs -> Rounds \cup {-1}]
    BY TypeStep DEF TypeOK, ClientTypeOK
  <1>3. Rounds \cup {-1} = (-1)..9
    BY DEF Rounds
  <1>4. QED
    BY <1>1, <1>2, <1>3

\* A post is written by the holder of its number, in the round it comes to.
LEMMA BoardStep ==
    ASSUME SignInv, [Next]_vars
    PROVE  BoardWritten'
  <1> USE DEF SignInv
  <1>k. Kept
    BY StepKeeps
  <1>1. \A e \in board : e.by \in Procs /\ party[e.by] # NoParty
    <2>1. ASSUME NEW e \in board
          PROVE  e.by \in Procs /\ party[e.by] # NoParty
      <3>1. e.by \in Procs /\ e.from \in Numbers
        BY Types DEF Entry
      <3>2. party[e.by] = [number |-> e.from, uuid |-> e.uuid]
        BY DEF BoardWritten
      <3>3. QED
        BY <3>1, <3>2, HasNumber
    <2>2. QED
      BY <2>1
  <1>2. \A e \in board : /\ party'[e.by] = [number |-> e.from, uuid |-> e.uuid]
                         /\ e.round <= round'[e.by]
    <2>1. \A e \in board : e.round \in 0..9
      BY Types DEF Entry, Rounds
    <2>2. \A x \in Procs : round[x] \in (-1)..9 /\ round'[x] \in (-1)..9
      BY RoundTypes
    <2>3. ASSUME NEW e \in board
          PROVE  /\ party'[e.by] = [number |-> e.from, uuid |-> e.uuid]
                 /\ e.round <= round'[e.by]
      <3>1. /\ party[e.by] = [number |-> e.from, uuid |-> e.uuid]
            /\ e.round <= round[e.by]
        BY DEF BoardWritten
      <3>2. party'[e.by] = party[e.by] /\ round[e.by] <= round'[e.by]
        BY <1>1, <1>k DEF Kept
      <3>3. QED
        BY <1>1, <2>1, <2>2, <3>1, <3>2
    <2>4. QED
      BY <2>3
  <1>3. \A p \in Procs : \A r \in 0..round[p] :
          \E e \in board' : /\ e.from = party'[p].number /\ e.uuid = party'[p].uuid
                            /\ e.round = r
    <2>1. \A p \in Procs : round[p] \in (-1)..9
      BY Types
    <2>2. SUFFICES ASSUME NEW p \in Procs, NEW r \in 0..round[p]
                   PROVE  \E e \in board' : /\ e.from = party'[p].number
                                            /\ e.uuid = party'[p].uuid /\ e.round = r
      OBVIOUS
    <2>3. party'[p] = party[p]
      BY <1>k, <2>1, HasNumber DEF Kept
    <2>4. QED
      BY <1>k, <2>3 DEF BoardWritten, Kept
  <1>4. CASE UNCHANGED <<board, round>>
    BY <1>2, <1>3, <1>4 DEF BoardWritten
  <1>5. CASE \E p \in Procs, r \in Rounds, to \in 0..Limit : Posts(p, r, to)
    <2>1. PICK p \in Procs, r \in Rounds, to \in 0..Limit : Posts(p, r, to)
      BY <1>5
    <2>2. /\ board' = board \cup {Message(p, r, to)} /\ party' = party
          /\ \A x \in Procs : x # p => round'[x] = round[x]
          /\ round'[p] = r /\ (r = round[p] + 1 \/ r = round[p])
      BY <2>1, Types DEF Posts
    <2>3. \A e \in board' : /\ party'[e.by] = [number |-> e.from, uuid |-> e.uuid]
                            /\ e.round <= round'[e.by]
      <3>1. party[p] \in [number : Numbers, uuid : Sessions]
        BY <2>1 DEF Posts, Joining
      <3>2. party[p] = [number |-> party[p].number, uuid |-> party[p].uuid]
        BY <3>1
      <3>3. ASSUME NEW e, e = Message(p, r, to)
            PROVE  /\ party'[e.by] = [number |-> e.from, uuid |-> e.uuid]
                   /\ e.round <= round'[e.by]
        <4>1. e.by = p /\ e.from = party[p].number /\ e.uuid = party[p].uuid /\ e.round = r
          BY <3>3 DEF Message
        <4>2. QED
          BY <2>2, <3>2, <4>1 DEF Rounds
      <3>4. QED
        BY <1>2, <2>2, <3>3
    <2>4. ASSUME NEW x \in Procs, NEW y \in 0..round'[x]
          PROVE  \E e \in board' : /\ e.from = party'[x].number /\ e.uuid = party'[x].uuid
                                   /\ e.round = y
      <3>1. CASE y \in 0..round[x]
        BY <1>3, <3>1
      <3>2. CASE y \notin 0..round[x]
        <4>1. round[x] \in (-1)..9
          BY Types
        <4>2. x = p /\ y = r
          BY <2>2, <3>2, <4>1 DEF Rounds
        <4>3. Message(p, r, to) \in board'
          BY <2>2
        <4>4. QED
          BY <2>2, <4>2, <4>3 DEF Message
      <3>3. QED
        BY <3>1, <3>2
    <2>5. QED
      BY <2>3, <2>4 DEF BoardWritten
  <1>6. QED
    BY <1>4, <1>5, OnlyPosts

\* An answer polled is one on the board, whose writer keeps its number.
LEMMA GotStep ==
    ASSUME SignInv, [Next]_vars
    PROVE  GotWritten'
  <1> USE DEF SignInv
  <1>k. Kept
    BY StepKeeps
  <1>0. /\ got \in [Procs -> [Rounds -> Seq(Procs)]]
        /\ \A x \in Procs, y \in Rounds : Len(got[x][y]) <= Limit - 1
    BY Types, GotType DEF TypeOK, ClientTypeOK
  <1>r. \A x \in Procs : round[x] \in (-1)..9 /\ round'[x] \in (-1)..9
    BY RoundTypes
  <1>1. /\ \A x \in Procs : party[x].number \in 0..Limit
        /\ Limit \in Nat
    <2>1. \A v \in PartySignup \cup {NoParty} : v.number \in 0..Limit
      BY Types DEF PartySignup, NoParty
    <2>2. QED
      BY <2>1, Types
  <1>2. ASSUME NEW p \in Procs, NEW r \in Rounds, NEW q \in Procs, NEW k \in 1..(Limit - 1),
               party[p] # NoParty, r <= round[q],
               party[q] = [number |-> Other(party[p].number, k), uuid |-> party[p].uuid]
        PROVE  /\ party'[q] = [number |-> Other(party'[p].number, k), uuid |-> party'[p].uuid]
               /\ r <= round'[q]
    <2>1. Other(party[p].number, k) \in Numbers
      BY <1>1 DEF Other, Numbers
    <2>2. party'[q] = party[q] /\ party'[p] = party[p]
      BY <1>k, <1>2, <2>1, HasNumber DEF Kept
    <2>3. r <= round'[q]
      <3>1. round[q] <= round'[q] /\ r \in 0..9
        BY <1>k DEF Kept, Rounds
      <3>2. QED
        BY <1>r, <1>2, <3>1
    <2>4. QED
      BY <1>2, <2>2, <2>3
  <1>3. ASSUME NEW p \in Procs, NEW r \in Rounds, NEW k \in 1..Len(got[p][r])
        PROVE  /\ party'[got[p][r][k]] =
                      [number |-> Other(party'[p].number, k), uuid |-> party'[p].uuid]
               /\ r <= round'[got[p][r][k]]
    <2>1. got[p][r] \in Seq(Procs) /\ Len(got[p][r]) <= Limit - 1
      BY <1>0
    <2>2. got[p][r][k] \in Procs /\ k \in 1..(Limit - 1)
      BY <1>1, <2>1
    <2>3. Len(got[p][r]) > 0
      BY <2>1
    <2>4. party[p] # NoParty
      BY <2>3, HasNumber
    <2>5. /\ party[got[p][r][k]] =
                [number |-> Other(party[p].number, k), uuid |-> party[p].uuid]
          /\ r <= round[got[p][r][k]]
      BY DEF GotWritten
    <2>6. QED
      BY <1>2, <2>2, <2>4, <2>5
  <1>4. CASE UNCHANGED got
    BY <1>3, <1>4 DEF GotWritten
  <1>5. CASE \E p \in Procs, r \in Rounds, q \in Procs : Polls(p, r, q)
    <2>1. PICK p \in Procs, r \in Rounds, q \in Procs : Polls(p, r, q)
      BY <1>5
    <2>2. \A x \in Procs, y \in Rounds :
             got'[x][y] = IF x = p /\ y = r THEN Append(got[x][y], q) ELSE got[x][y]
      BY <1>0, <2>1 DEF Polls
    <2>3. SUFFICES ASSUME NEW x \in Procs, NEW y \in Rounds, NEW k \in 1..Len(got'[x][y])
                   PROVE  /\ party'[got'[x][y][k]] =
                                [number |-> Other(party'[x].number, k), uuid |-> party'[x].uuid]
                          /\ y <= round'[got'[x][y][k]]
      BY DEF GotWritten
    <2>4. CASE k \in 1..Len(got[x][y])
      <3>1. got'[x][y][k] = got[x][y][k]
        BY <1>k, <2>4 DEF Kept
      <3>2. QED
        BY <1>3, <2>4, <3>1
    <2>5. CASE k \notin 1..Len(got[x][y])
      <3>1. x = p /\ y = r
        BY <2>2, <2>3, <2>5
      <3>2. got[p][r] \in Seq(Procs) /\ got'[p][r] = Append(got[p][r], q)
        BY <1>0, <2>2
      <3>3. k = Len(got[p][r]) + 1 /\ got'[p][r][k] = q
        BY <2>3, <2>5, <3>1, <3>2, AppendLonger
      <3>4. PICK e \in board : /\ e.from = Other(party[p].number, k)
                               /\ e.round = r /\ e.uuid = party[p].uuid /\ e.by = q
        BY <2>1, <3>3 DEF Polls
      <3>5. party[q] = [number |-> Other(party[p].number, k), uuid |-> party[p].uuid]
            /\ r <= round[q]
        BY <3>4 DEF BoardWritten
      <3>6. k \in 1..(Limit - 1)
        BY <1>1, <2>1, <3>2, <3>3, LenProperties DEF Polls
      <3>7. party[p] # NoParty
        BY <2>1, HasNumber DEF Polls
      <3>8. QED
        BY <1>2, <3>1, <3>3, <3>5, <3>6, <3>7
    <2>6. QED
      BY <2>4, <2>5
  <1>6. QED
    BY <1>4, <1>5, OnlyPolls

\* A round is left only when all of its answers are polled.
LEMMA RoundsStep ==
    ASSUME SignInv, [Next]_vars
    PROVE  InRounds'
  <1> USE DEF SignInv
  <1>1. CASE \E p \in Procs, r \in Rounds, to \in 0..Limit : Posts(p, r, to)
    <2>1. PICK p \in Procs, r \in Rounds, to \in 0..Limit : Posts(p, r, to)
      BY <1>1
    <2>2. /\ \A x \in Procs : round[x] \in (-1)..9
          /\ \A x \in Procs : x # p => round'[x] = round[x]
          /\ round'[p] = r /\ got' = got
          /\ \/ r = round[p] + 1 /\ (round[p] = -1 \/ Polled(p, round[p]))
             \/ r = round[p]
      BY <2>1, Types DEF Posts
    <2>3. SUFFICES ASSUME NEW x \in Procs, NEW y \in Rounds
                   PROVE  /\ y < round'[x] => Len(got[x][y]) = Limit - 1
                          /\ y > round'[x] => got[x][y] = <<>>
      BY <2>2 DEF InRounds, Polled
    <2>4. /\ y < round[x] => Len(got[x][y]) = Limit - 1
          /\ y > round[x] => got[x][y] = <<>>
      BY DEF InRounds, Polled
    <2>5. r \in 0..9 /\ y \in 0..9
      BY DEF Rounds
    <2>6. CASE x # p \/ r = round[p]
      BY <2>2, <2>4, <2>6
    <2>7. CASE x = p /\ r = round[p] + 1
      <3>1. y < r => y < round[p] \/ (y = round[p] /\ round[p] # -1)
        BY <2>2, <2>5, <2>7
      <3>2. y > r => y > round[p]
        BY <2>2, <2>5, <2>7
      <3>3. y = round[p] /\ round[p] # -1 => Len(got[p][y]) = Limit - 1
        BY <2>2, <2>5, <2>7 DEF Polled
      <3>4. QED
        BY <2>2, <2>4, <2>7, <3>1, <3>2, <3>3
    <2>8. QED
      BY <2>2, <2>6, <2>7
  <1>2. CASE \E p \in Procs, r \in Rounds, q \in Procs : Polls(p, r, q)
    <2>1. PICK p \in Procs, r \in Rounds, q \in Procs : Polls(p, r, q)
      BY <1>2
    <2>2. /\ \A x \in Procs : round[x] \in (-1)..9
          /\ round' = round /\ r = round[p]
          /\ \A x \in Procs, y \in Rounds : ~(x = p /\ y = r) => got'[x][y] = got[x][y]
      BY <2>1, Types DEF Polls, TypeOK, ClientTypeOK
    <2>3. \A x \in Procs, y \in Rounds : y # round[x] => got'[x][y] = got[x][y]
      BY <2>2
    <2>4. \A x \in Procs, y \in Rounds : y < round[x] \/ y > round[x] => y # round[x]
      BY <2>2 DEF Rounds
    <2>5. QED
      BY <2>2, <2>3, <2>4 DEF InRounds, Polled
  <1>3. CASE UNCHANGED <<round, got>>
    BY <1>3 DEF InRounds, Polled
  <1>4. QED
    BY <1>1, <1>2, <1>3, OnlyPosts, OnlyPolls

-----------------------------------------------------------------------------
(* What a process holds for each party.                                      *)

\* A process that has come to a round has a number of its session.
LEMMA Numbered ==
    ASSUME SignInv, NEW p \in Procs, round[p] >= 0
    PROVE  party[p] \in [number : Numbers, uuid : Sessions]
  <1>1. round[p] \in (-1)..9 /\ party[p] \in PartySignup \cup {NoParty}
    BY Types DEF SignInv
  <1>2. 0 \in 0..round[p]
    BY <1>1
  <1>3. PICK e \in board : e.from = party[p].number
    BY <1>2 DEF SignInv, BoardWritten
  <1>4. e.from \in Numbers
    BY Types DEF SignInv, Entry
  <1>5. party[p] # NoParty
    BY HasNumber
  <1>6. party[p] \in PartySignup
    BY <1>1, <1>5
  <1>7. QED
    BY <1>3, <1>4, <1>6 DEF PartySignup

\* The values of a round that is polled are the own one, and for every other
\* number one of a process that holds the number in the session and has come
\* to the round.
LEMMA ViewAnswers ==
    ASSUME SignInv, NEW p \in Procs, NEW r \in Rounds, round[p] >= 0, Polled(p, r)
    PROVE  /\ View(p, r)[party[p].number] = p
           /\ \A i \in Numbers \ {party[p].number} :
                 /\ View(p, r)[i] \in Procs
                 /\ party[View(p, r)[i]] = [number |-> i, uuid |-> party[p].uuid]
                 /\ round[View(p, r)[i]] >= r
  <1> DEFINE n == party[p].number
  <1>1. n \in Numbers /\ Limit \in Nat /\ Numbers = 1..Limit
    BY Numbered, Types DEF SignInv, Numbers
  <1>2. got[p][r] \in Seq(Procs) /\ Len(got[p][r]) = Limit - 1
    <2>1. got \in [Procs -> [Rounds -> Seq(Procs)]]
      BY Types, GotType DEF SignInv, TypeOK, ClientTypeOK
    <2>2. QED
      BY <2>1 DEF Polled
  <1>3. View(p, r)[n] = p
    BY <1>1 DEF View, Assemble
  <1>4. ASSUME NEW i \in Numbers \ {n}
        PROVE  /\ View(p, r)[i] \in Procs
               /\ party[View(p, r)[i]] = [number |-> i, uuid |-> party[p].uuid]
               /\ round[View(p, r)[i]] >= r
    <2> DEFINE k == IF i < n THEN i ELSE i - 1
    <2>1. k \in 1..(Limit - 1) /\ Other(n, k) = i
      BY <1>1 DEF Other
    <2>2. View(p, r)[i] = got[p][r][k]
      BY <1>4 DEF View, Assemble
    <2> HIDE DEF k, n
    <2>3. got[p][r][k] \in Procs /\ k \in 1..Len(got[p][r])
      BY <1>2, <2>1
    <2>4. /\ party[got[p][r][k]] = [number |-> Other(party[p].number, k), uuid |-> party[p].uuid]
          /\ r <= round[got[p][r][k]]
      BY <2>3 DEF SignInv, GotWritten
    <2>5. round[got[p][r][k]] \in (-1)..9 /\ r \in 0..9
      BY <2>3, Types DEF SignInv, Rounds
    <2>6. QED
      BY <2>1, <2>2, <2>3, <2>4, <2>5 DEF n
  <1>5. QED
    BY <1>3, <1>4

\* The values of a round do not change once the process has left it.
LEMMA ViewKept ==
    ASSUME SignInv, [Next]_vars, NEW p \in Procs, NEW r \in Rounds, r < round[p]
    PROVE  View(p, r)' = View(p, r) /\ party'[p] = party[p]
  <1>1. round[p] >= 0
    BY Types DEF SignInv, Rounds
  <1>2. party'[p] = party[p] /\ got'[p][r] = got[p][r]
    BY <1>1, HasNumber, StepKeeps DEF Kept
  <1>3. QED
    BY <1>2 DEF View, Assemble

\* Whether the processes p added up are a quorum depends only on who they are.
LEMMA QuorateKept ==
    ASSUME SignInv, [Next]_vars, NEW p \in Procs, 8 < round[p], Quorate(p)
    PROVE  Quorate(p)'
  <1>1. View(p, 8)' = View(p, 8)
    BY ViewKept DEF Rounds
  <1>2. setup' = setup
    BY DEF Next, Step, vars
  <1>3. QED
    BY <1>1, <1>2 DEF Quorate, file, message

\* Phase 5d lets a process go on to round 9 only if it has a quorum, which it
\* then keeps.
LEMMA CheckedStep ==
    ASSUME SignInv, [Next]_vars
    PROVE  Checked'
  <1> SUFFICES ASSUME NEW p \in Procs, round'[p] = 9
               PROVE  Quorate(p)'
    BY DEF Checked
  <1>1. CASE round[p] = 9
    BY <1>1, QuorateKept DEF SignInv, Checked
  <1>2. CASE round[p] # 9
    <2>1. PICK x \in Procs, r \in Rounds, to \in 0..Limit : Posts(x, r, to)
      BY <1>2, OnlyPosts DEF SignInv
    <2>2. x = p /\ r = 9
      BY <1>2, <2>1, Types DEF SignInv, Posts
    <2>3. SumIsSignature(View(p, 8))
      BY <2>1, <2>2 DEF Posts, SumVanishes
    <2>4. UNCHANGED <<party, got, setup>>
      BY <2>1 DEF Posts
    <2>5. Quorate(p)
      BY <2>3 DEF SumIsSignature, PartsFit, Quorate
    <2>6. View(p, 8)' = View(p, 8)
      BY <2>4 DEF View, Assemble
    <2>7. QED
      BY <2>4, <2>5, <2>6 DEF Quorate, file, message
  <1>3. QED
    BY <1>1, <1>2

\* The processes whose values of a round p holds, once it has left the round:
\* for each number one that holds it in the session of p.
LEMMA Holders ==
    ASSUME SignInv, NEW p \in Procs, NEW r \in Rounds, r < round[p]
    PROVE  \A k \in Numbers : /\ View(p, r)[k] \in Procs
                              /\ party[View(p, r)[k]] = [number |-> k, uuid |-> party[p].uuid]
  <1>1. round[p] >= 0
    BY Types DEF SignInv, Rounds
  <1>2. Polled(p, r)
    BY DEF SignInv, InRounds
  <1>3. /\ View(p, r)[party[p].number] = p
        /\ \A i \in Numbers \ {party[p].number} :
              /\ View(p, r)[i] \in Procs
              /\ party[View(p, r)[i]] = [number |-> i, uuid |-> party[p].uuid]
    BY <1>1, <1>2, ViewAnswers
  <1>4. party[p] = [number |-> party[p].number, uuid |-> party[p].uuid]
    BY <1>1, Numbered
  <1>5. QED
    BY <1>3, <1>4

\* A process that reveals its part has a quorum for its message.
LEMMA QuorumRevealed ==
    SignInv => RevealNeedsQuorum
  <1> SUFFICES ASSUME SignInv, NEW e \in board, e.round = 9
               PROVE  \E Q \in SUBSET Joined :
                         /\ e.by \in Q
                         /\ Cardinality({file(q).party_id : q \in Q}) = Limit
                         /\ \A q \in Q : /\ message(q) = message(e.by)
                                         /\ file(q).key = file(e.by).key
                                         /\ party[q].uuid = e.uuid
    BY DEF RevealNeedsQuorum
  <1>1. PICK p \in Procs : p = e.by
    BY Types DEF SignInv, Entry
  <1>2. /\ party[p] = [number |-> e.from, uuid |-> e.uuid]
        /\ e.from \in Numbers /\ round[p] = 9
    <2>1. party[p] = [number |-> e.from, uuid |-> e.uuid] /\ 9 <= round[p]
      BY <1>1 DEF SignInv, BoardWritten
    <2>2. e.from \in Numbers /\ round[p] \in (-1)..9
      BY Types DEF SignInv, Entry
    <2>3. QED
      BY <2>1, <2>2
  <1>3. PICK signers : signers = View(p, 8)
    OBVIOUS
  <1>4. \A k \in Numbers : /\ signers[k] \in Procs
                           /\ party[signers[k]] = [number |-> k, uuid |-> e.uuid]
    BY <1>2, <1>3, Holders DEF Rounds
  <1>5. signers[e.from] = p
    BY <1>2, <1>3 DEF View, Assemble
  <1>6. /\ \A i \in Numbers : /\ file(signers[i]).key = file(signers[1]).key
                             /\ message(signers[i]) = message(signers[1])
        /\ Cardinality({file(signers[i]).party_id : i \in Numbers}) = Limit
    BY <1>2, <1>3 DEF SignInv, Checked, Quorate
  <1>7. PICK Q : Q = {signers[i] : i \in Numbers}
    OBVIOUS
  <1>8. Q \in SUBSET Joined
    <2>1. \A k \in Numbers : party[signers[k]] # NoParty
      BY <1>4, HasNumber
    <2>2. QED
      BY <1>4, <1>7, <2>1 DEF Joined
  <1>9. {file(q).party_id : q \in Q} = {file(signers[i]).party_id : i \in Numbers}
    BY <1>7
  <1>10. \A q \in Q : /\ message(q) = message(p)
                      /\ file(q).key = file(p).key
                      /\ party[q].uuid = e.uuid
    <2>1. ASSUME NEW i \in Numbers
          PROVE  /\ message(signers[i]) = message(p)
                 /\ file(signers[i]).key = file(p).key
                 /\ party[signers[i]].uuid = e.uuid
      <3>1. message(signers[i]) = message(p) /\ file(signers[i]).key = file(p).key
        <4>1. /\ message(signers[i]) = message(signers[1])
              /\ file(signers[i]).key = file(signers[1]).key
          BY <1>6
        <4>2. /\ message(signers[e.from]) = message(signers[1])
              /\ file(signers[e.from]).key = file(signers[1]).key
          BY <1>2, <1>6
        <4>3. QED
          BY <1>5, <4>1, <4>2
      <3>2. party[signers[i]].uuid = e.uuid
        <4>1. party[signers[i]] = [number |-> i, uuid |-> e.uuid]
          BY <1>4
        <4>2. QED
          BY <4>1
      <3>3. QED
        BY <3>1, <3>2
    <2>2. QED
      BY <1>7, <2>1
  <1>11. p \in Q
    BY <1>2, <1>5, <1>7
  <1>12. QED
    BY <1>1, <1>6, <1>8, <1>9, <1>10, <1>11

-----------------------------------------------------------------------------
(* The theorems.                                                             *)

\* The inductive invariant holds at the start.
LEMMA InitSign ==
    Init => SignInv
  <1> SUFFICES ASSUME Init PROVE SignInv
    OBVIOUS
  <1> USE DEF Init, ClientInit, BoardInit
  <1>0. Limit \in Nat /\ Limit >= 1 /\ MaxSessions \in Nat /\ MaxSessions >= 1 /\ MaxFaults \in Nat
    BY BoardAssumption, ClientAssumption
  <1>1. TypeOK
    <2>1. signups \subseteq PartySignup /\ latest \in signups
      BY <1>0 DEF PartySignup, Sessions
    <2>2. party \in [Procs -> PartySignup \cup {NoParty}]
      OBVIOUS
    <2>3. got \in [Procs -> [Rounds -> UNION {[1..n -> Procs] : n \in 0..(Limit - 1)}]]
      <3>1. got \in [Procs -> [Rounds -> Seq(Procs)]]
        OBVIOUS
      <3>2. \A p \in Procs, r \in Rounds : Len(got[p][r]) <= Limit - 1
        BY <1>0
      <3>3. QED
        BY <1>0, <3>1, <3>2, GotType
    <2>4. history \in [stale : BOOLEAN, faults : 0..MaxFaults]
      BY <1>0
    <2>5. /\ board \subseteq Entry(Rounds) /\ poisoned \in BOOLEAN
          /\ status \in [Procs -> {"start", "run", "done", "panic"}]
          /\ round \in [Procs -> Rounds \cup {-1}] /\ setup \in Setups
      OBVIOUS
    <2>6. sent \in [Procs -> 0..(Limit - 1)]
      BY <1>0
    <2> HIDE DEF Init, ClientInit, BoardInit
    <2>7. QED
      BY <2>1, <2>2, <2>3, <2>4, <2>5, <2>6 DEF TypeOK, ClientTypeOK
  <1>2. Joining
    BY DEF Joining
  <1>6. BoardWritten
    BY DEF BoardWritten
  <1>7. GotWritten
    BY DEF GotWritten
  <1>8. InRounds
    BY DEF InRounds, Rounds
  <1>9. Checked
    BY DEF Checked
  <1>10. QED
    BY <1>1, <1>2, <1>6, <1>7, <1>8, <1>9 DEF SignInv

\* Every step preserves the inductive invariant.
LEMMA StepSign ==
    SignInv /\ [Next]_vars => SignInv'
  BY TypeStep, JoiningStep, BoardStep, GotStep, RoundsStep, CheckedStep
  DEF SignInv

\* The inductive invariant holds in every state of sign.
THEOREM SignInvariant == Spec => []SignInv
  BY InitSign, StepSign, PTL DEF Spec

\* The ranges of the variables of the server and of the processes.
THEOREM TypesKept == Spec => []TypeOK
  <1>1. SignInv => TypeOK
    BY DEF SignInv
  <1>2. QED
    BY <1>1, SignInvariant, PTL

\* A process reveals its part s_i (round 9) only if t + 1 processes that hold
\* different shares of its key were started with its message and took part in
\* its session, whatever command lines, numbers and faults there were.
THEOREM RevealsNeedQuorum == Spec => []RevealNeedsQuorum
  BY QuorumRevealed, SignInvariant, PTL

-----------------------------------------------------------------------------
(* sign implements the round barrier.                                        *)

\* The rounds that the holders of number i of session s have posted.
RoundsOf(s, i) == {e.round : e \in {b \in board : b.from = i /\ b.uuid = s}}

\* The number of rounds up to the greatest of a set of them.
Greatest(posted) ==
    IF posted = {} THEN 0 ELSE 1 + (CHOOSE r \in posted : \A q \in posted : q <= r) - 0

\* The level of a number is its greatest round, in both states of a step.
LEMMA PostedGreatest ==
    ASSUME NEW s, NEW i
    PROVE  /\ Posted(s, i, 0) = Greatest(RoundsOf(s, i))
           /\ Posted(s, i, 0)' = Greatest(RoundsOf(s, i)')
  BY DEF Posted, Greatest, RoundsOf

\* A nonempty set of rounds has a greatest.
LEMMA LastOf ==
    ASSUME NEW S \in SUBSET (0..9), S # {}
    PROVE  \E r \in S : \A q \in S : q <= r
  <1>1. CASE 9 \in S
    BY <1>1
  <1>2. CASE S \subseteq 0..8 /\ 8 \in S
    BY <1>2
  <1>3. CASE S \subseteq 0..7 /\ 7 \in S
    BY <1>3
  <1>4. CASE S \subseteq 0..6 /\ 6 \in S
    BY <1>4
  <1>5. CASE S \subseteq 0..5 /\ 5 \in S
    BY <1>5
  <1>6. CASE S \subseteq 0..4 /\ 4 \in S
    BY <1>6
  <1>7. CASE S \subseteq 0..3 /\ 3 \in S
    BY <1>7
  <1>8. CASE S \subseteq 0..2 /\ 2 \in S
    BY <1>8
  <1>9. CASE S \subseteq 0..1 /\ 1 \in S
    BY <1>9
  <1>10. CASE S \subseteq 0..0
    <2>1. \A q \in S : q = 0
      BY <1>10
    <2>2. PICK r \in S : TRUE
      OBVIOUS
    <2>3. QED
      BY <2>1, <2>2
  <1>11. QED
    BY <1>1, <1>2, <1>3, <1>4, <1>5, <1>6, <1>7, <1>8, <1>9, <1>10

\* The level of a number that posted the first m rounds is m.
LEMMA GreatestOfInterval ==
    ASSUME NEW m \in Nat \ {0}
    PROVE  Greatest(0..(m - 1)) = m
  <1>1. m - 1 \in 0..(m - 1) /\ \A q \in 0..(m - 1) : q <= m - 1
    OBVIOUS
  <1>2. \A r \in 0..(m - 1) : (\A q \in 0..(m - 1) : q <= r) => r = m - 1
    BY <1>1
  <1>3. (CHOOSE r \in 0..(m - 1) : \A q \in 0..(m - 1) : q <= r) = m - 1
    BY <1>1, <1>2
  <1>4. Greatest(0..(m - 1)) = 1 + (m - 1) - 0
    BY <1>1, <1>3 DEF Greatest
  <1>5. QED
    BY <1>4

\* A process has posted all rounds up to its own.
LEMMA PostedUpTo ==
    ASSUME SignInv, NEW p \in Procs
    PROVE  0..round[p] \subseteq RoundsOf(party[p].uuid, party[p].number)
  <1>1. SUFFICES ASSUME NEW r \in 0..round[p]
                 PROVE  r \in RoundsOf(party[p].uuid, party[p].number)
    OBVIOUS
  <1>2. PICK e \in board : /\ e.from = party[p].number /\ e.uuid = party[p].uuid
                           /\ e.round = r
    BY DEF SignInv, BoardWritten
  <1>3. QED
    BY <1>2 DEF RoundsOf

\* The rounds posted for a number are the first Posted ones.
LEMMA PostedIsLast ==
    ASSUME SignInv, NEW s, NEW i
    PROVE  /\ Posted(s, i, 0) \in 0..10
           /\ RoundsOf(s, i) = 0..(Posted(s, i, 0) - 1)
  <1> DEFINE posted == RoundsOf(s, i)
             m == CHOOSE r \in posted : \A q \in posted : q <= r
  <1>1. posted \in SUBSET (0..9)
    BY Types DEF SignInv, RoundsOf, Entry, Rounds
  <1>2. Posted(s, i, 0) = IF posted = {} THEN 0 ELSE 1 + m - 0
    BY DEF Posted, RoundsOf
  <1>3. \A r \in posted : 0..r \subseteq posted
    <2>1. SUFFICES ASSUME NEW r \in posted
                   PROVE  0..r \subseteq posted
      OBVIOUS
    <2>2. PICK e \in board : e.from = i /\ e.uuid = s /\ e.round = r
      BY DEF RoundsOf
    <2>3. /\ party[e.by] = [number |-> i, uuid |-> s]
          /\ r <= round[e.by]
      BY <2>2 DEF SignInv, BoardWritten
    <2>4. e.by \in Procs
      BY Types DEF SignInv, Entry
    <2>5. round[e.by] \in (-1)..9 /\ r \in 0..9
      BY <1>1, <2>4, Types DEF SignInv
    <2>6. 0..round[e.by] \subseteq posted
      BY <2>3, <2>4, PostedUpTo
    <2>7. QED
      BY <2>3, <2>5, <2>6
  <1> HIDE DEF posted
  <1>4. CASE posted = {}
    BY <1>2, <1>4 DEF posted
  <1>5. CASE posted # {}
    <2>1. m \in posted /\ \A q \in posted : q <= m
      BY <1>1, <1>5, LastOf
    <2> HIDE DEF m
    <2>2. m \in 0..9
      BY <1>1, <2>1
    <2>3. 0..m \subseteq posted
      BY <1>3, <2>1
    <2>4. posted \subseteq 0..m
      BY <1>1, <2>1, <2>2
    <2>5. posted = 0..m
      BY <2>3, <2>4
    <2>6. Posted(s, i, 0) = m + 1
      BY <1>2, <1>5, <2>2
    <2>7. QED
      BY <2>2, <2>5, <2>6 DEF posted
  <1>6. QED
    BY <1>4, <1>5

\* Every step of sign is a step of the barrier or changes no level.
LEMMA BarrierStep ==
    ASSUME SignInv, [Next]_vars
    PROVE  [Barrier!Next]_([s \in Sessions |-> [i \in Numbers |-> Posted(s, i, 0)]])
  <1> DEFINE level == [s \in Sessions |-> [i \in Numbers |-> Posted(s, i, 0)]]
  <1>1. CASE UNCHANGED board
    <2>1. level' = level
      BY <1>1 DEF Posted
    <2>2. QED
      BY <2>1
  <1>2. CASE \E p \in Procs, r \in Rounds, to \in 0..Limit : Posts(p, r, to)
    <2>1. PICK p \in Procs, r \in Rounds, to \in 0..Limit : Posts(p, r, to)
      BY <1>2
    <2>2. PICK n \in Numbers, u \in Sessions : party[p] = [number |-> n, uuid |-> u]
      BY <2>1 DEF Posts, SignInv, Joining
    <2>3. PICK m \in 0..10 : m = Posted(u, n, 0) /\ RoundsOf(u, n) = 0..(m - 1)
      BY PostedIsLast
    <2>4. /\ board' = board \cup {Message(p, r, to)}
          /\ \/ r = round[p] + 1 /\ (round[p] = -1 \/ Polled(p, round[p]))
             \/ r = round[p]
      BY <2>1 DEF Posts
    <2>5. /\ Message(p, r, to).from = n /\ Message(p, r, to).uuid = u
          /\ Message(p, r, to).round = r
      BY <2>2 DEF Message
    <2>6. \A s, i : ~(s = u /\ i = n) => RoundsOf(s, i)' = RoundsOf(s, i)
      BY <2>4, <2>5 DEF RoundsOf
    <2>7. RoundsOf(u, n)' = (0..(m - 1)) \cup {r}
      BY <2>3, <2>4, <2>5 DEF RoundsOf
    <2>8. round[p] \in (-1)..9 /\ r \in 0..9
      BY Types DEF SignInv, Rounds
    <2>9. round[p] < m
      <3>1. 0..round[p] \subseteq 0..(m - 1)
        BY <2>2, <2>3, PostedUpTo
      <3>2. round[p] \in 0..round[p] => round[p] \in 0..(m - 1)
        BY <3>1
      <3>3. QED
        BY <2>3, <2>8, <3>2
    <2>10. \A s, i : RoundsOf(s, i)' = RoundsOf(s, i) => Posted(s, i, 0)' = Posted(s, i, 0)
      BY PostedGreatest
    <2>11. CASE r < m
      <3>1. RoundsOf(u, n)' = RoundsOf(u, n)
        BY <2>3, <2>7, <2>8, <2>11
      <3>2. \A s \in Sessions, i \in Numbers : Posted(s, i, 0)' = Posted(s, i, 0)
        BY <2>6, <2>10, <3>1
      <3>3. level' = level
        BY <3>2
      <3>4. QED
        BY <3>3
    <2>12. CASE r >= m
      <3>1. r = m /\ round[p] = m - 1 /\ m < 10 /\ (m = 0 \/ Polled(p, m - 1))
        BY <2>4, <2>8, <2>9, <2>12
      <3>2. ASSUME NEW j \in Numbers
            PROVE  Posted(u, j, 0) >= m
        <4>0. Posted(u, j, 0) \in 0..10 /\ RoundsOf(u, j) = 0..(Posted(u, j, 0) - 1)
          BY PostedIsLast
        <4>1. CASE m = 0
          BY <4>0, <4>1
        <4>2. CASE j = n
          BY <2>3, <4>2
        <4>3. CASE m # 0 /\ j # n
          <5>1. /\ m - 1 \in Rounds /\ round[p] >= 0 /\ Polled(p, m - 1)
                /\ j \in Numbers \ {party[p].number}
            BY <2>2, <3>1, <4>3 DEF Rounds
          <5>2. PICK q : q = View(p, m - 1)[j]
            OBVIOUS
          <5>3. q \in Procs /\ party[q] = [number |-> j, uuid |-> u] /\ round[q] >= m - 1
            BY <2>2, <5>1, <5>2, ViewAnswers
          <5>4. 0..round[q] \subseteq 0..(Posted(u, j, 0) - 1)
            BY <4>0, <5>3, PostedUpTo
          <5>5. round[q] \in (-1)..9
            BY <5>3, Types DEF SignInv
          <5>6. QED
            BY <4>0, <5>3, <5>4, <5>5
        <4>4. QED
          BY <4>1, <4>2, <4>3
      <3>3. Posted(u, n, 0)' = m + 1
        <4>1. RoundsOf(u, n)' = 0..m
          BY <2>7, <3>1
        <4>2. Greatest(0..((m + 1) - 1)) = m + 1
          BY <3>1, GreatestOfInterval
        <4>3. QED
          BY <4>1, <4>2, PostedGreatest
      <3>4. \A s \in Sessions, i \in Numbers :
               Posted(s, i, 0)' = IF s = u /\ i = n THEN m + 1 ELSE Posted(s, i, 0)
        BY <2>6, <2>10, <3>3
      <3>5. level' = [level EXCEPT ![u][n] = @ + 1]
        BY <2>3, <3>4
      <3>6. level[u][n] < 10 /\ \A j \in Numbers : level[u][j] >= level[u][n]
        BY <2>3, <3>1, <3>2
      <3>7. Barrier!Post(u, n)
        BY <3>5, <3>6 DEF Barrier!Post
      <3>8. QED
        BY <3>7 DEF Barrier!Next
    <2>13. QED
      BY <2>3, <2>8, <2>11, <2>12
  <1>3. QED
    BY <1>1, <1>2, OnlyPosts DEF SignInv

\* sign implements the round barrier: no process posts the message of a
\* round before every number of its session has posted that of the round
\* before, however many processes hold a number.
THEOREM BarrierImplemented == Spec => ImplementsBarrier
  <1>1. Init => Barrier!Init
    BY DEF Init, ClientInit, BoardInit, Barrier!Init, Posted
  <1>2. SignInv /\ [Next]_vars
        => [Barrier!Next]_([s \in Sessions |-> [i \in Numbers |-> Posted(s, i, 0)]])
    BY BarrierStep
  <1>3. QED
    BY <1>1, <1>2, SignInvariant, PTL DEF Spec, ImplementsBarrier, Barrier!Spec

=============================================================================
