---------------------------- MODULE KeyGen_proofs ----------------------------
(***************************************************************************)
(* Proofs about generate_key, for any number of processes, parties and     *)
(* sessions and any number of faults.                                      *)
(***************************************************************************)
EXTENDS KeyGen, FiniteSetTheorems, SequenceTheorems, TLAPS

-----------------------------------------------------------------------------
(* The shapes a step can have.                                               *)

\* p posts its message of round r: of the next one, after it has polled all
\* answers, or one more of round 3.
Posts(p, r, to) ==
    /\ status[p] = "run"
    /\ r \in Rounds /\ to \in 0..Limit
    /\ \/ r = round[p] + 1 /\ (round[p] = 0 \/ Polled(p, round[p]))
       \/ r = 3 /\ round[p] = 3
    /\ r = 3 => CommitmentsOpen(p)
    /\ r = 4 => SharesDecrypt(p)
    /\ r = 5 => SharesVerify(p)
    /\ board' = board \cup {Message(p, r, to)}
    /\ round' = [round EXCEPT ![p] = r]
    /\ \/ sent' = sent
       \/ sent[p] < Limit - 1 /\ sent' = [sent EXCEPT ![p] = @ + 1]
    /\ UNCHANGED <<signups, latest, poisoned, status, party, got, history>>

\* p polls the next answer of its round, written by q.
Polls(p, r, q) ==
    /\ status[p] = "run" /\ round[p] = r /\ r \in Rounds
    /\ Len(got[p][r]) < Limit - 1
    /\ \E e \in board : /\ e.from = Other(party[p].number, Len(got[p][r]) + 1)
                        /\ e.round = r /\ e.uuid = party[p].uuid /\ e.by = q
    /\ got' = [got EXCEPT ![p][r] = Append(@, q)]
    /\ UNCHANGED <<boardVars, status, party, round, sent, history>>

\* p stops.
Halts(p) ==
    /\ status' = [status EXCEPT ![p] = "panic"]
    /\ poisoned' \in BOOLEAN
    /\ history' \in [stale : {history.stale}, faults : 0..MaxFaults]
    /\ UNCHANGED <<signups, latest, board, party, round, sent, got>>

Saves(p) == Completed(p, 5) /\ finish(p)

\* Every step of generate_key has one of these shapes.
LEMMA Shapes ==
    ASSUME TypeOK, NEW p \in Procs, Step(p) \/ Fail(p)
    PROVE  \/ signup(p) \/ signupLost(p)
           \/ \E r \in Rounds, to \in 0..Limit : Posts(p, r, to)
           \/ \E r \in Rounds, q \in Procs : Polls(p, r, q)
           \/ Halts(p) \/ Saves(p)
  <1>0. /\ Limit \in Nat /\ Limit > 0 /\ MaxFaults \in Nat
        /\ history \in [stale : BOOLEAN, faults : 0..MaxFaults]
        /\ poisoned \in BOOLEAN
        /\ party[p] \in PartySignup \cup {NoParty}
    BY BoardAssumption, ClientAssumption DEF TypeOK, ClientTypeOK
  <1>a. party[p].number \in 0..Limit
    BY <1>0 DEF PartySignup, NoParty
  <1>1. ASSUME NEW r \in Rounds, broadcast(p, r), status[p] = "run",
               r = round[p] + 1, round[p] = 0 \/ Polled(p, round[p]),
               r = 3 => CommitmentsOpen(p), r = 4 => SharesDecrypt(p),
               r = 5 => SharesVerify(p)
        PROVE  \E to \in 0..Limit : Posts(p, r, to)
    <2>1. Posts(p, r, 0)
      BY <1>0, <1>1 DEF broadcast, Set, Posts
    <2>2. QED
      BY <1>0, <2>1
  <1>2. ASSUME sendp2p(p, 3), status[p] = "run", CommitmentsOpen(p),
               round[p] = 3 \/ (round[p] = 2 /\ Polled(p, 2))
        PROVE  \E to \in 0..Limit : Posts(p, 3, to)
    <2> DEFINE to == Other(party[p].number, sent[p] + 1)
    <2>1. sent[p] \in 0..(Limit - 1) /\ sent[p] < Limit - 1
      BY <1>0, <1>2 DEF TypeOK, ClientTypeOK, sendp2p
    <2>2. to \in 0..Limit
      BY <1>0, <1>a, <2>1 DEF Other
    <2>3. Posts(p, 3, to)
      BY <1>2, <2>1, <2>2 DEF sendp2p, Set, Posts, Rounds
    <2>4. QED
      BY <2>2, <2>3
  <1>3. ASSUME NEW r \in Rounds, NEW to, poll(p, r, to)
        PROVE  \E q \in Procs : Polls(p, r, q)
    <2>1. PICK q \in Procs :
             /\ Get(Other(party[p].number, Len(got[p][r]) + 1), r, party[p].uuid, to, q)
             /\ got' = [got EXCEPT ![p][r] = Append(@, q)]
      BY <1>3 DEF poll
    <2>2. Polls(p, r, q)
      BY <1>3, <2>1 DEF poll, Get, Found, Polls
    <2>3. QED
      BY <2>2
  <1>4. ASSUME Panic(p), UNCHANGED <<boardVars, history>>
        PROVE  Halts(p)
    BY <1>0, <1>4 DEF Panic, Halts, boardVars
  <1>5. ASSUME NEW check, NEW step, Expect(p, check, step)
        PROVE  (check /\ step) \/ Halts(p)
    BY <1>4, <1>5 DEF Expect
  <1>6. CASE Fail(p)
    <2>1. CASE signupPanics(p)
      BY <1>0, <2>1 DEF signupPanics, SignupPanics, Panic, Fault, Halts
    <2>2. CASE crash(p)
      BY <1>0, <2>2 DEF crash, Panic, Fault, Halts, boardVars
    <2>3. QED
      BY <1>6, <2>1, <2>2 DEF Fail
  <1>7. CASE Step(p)
    <2>1. CASE commit(p)
      BY <1>1, <2>1 DEF commit, Rounds
    <2>2. CASE decommit(p)
      BY <1>1, <2>2 DEF decommit, Completed, Rounds
    <2>3. CASE distribute(p)
      BY <1>2, <1>5, <2>3 DEF distribute, Completed, Rounds
    <2>4. CASE publish_vss(p)
      BY <1>1, <1>5, <2>4 DEF publish_vss, Completed, Rounds
    <2>5. CASE prove(p)
      BY <1>1, <1>5, <2>5 DEF prove, Completed, Rounds
    <2>6. CASE \E r \in Rounds \ {3} : poll_for_broadcasts(p, r)
      BY <1>3, <2>6 DEF poll_for_broadcasts
    <2>7. CASE poll_for_p2p(p, 3)
      BY <1>3, <2>7 DEF poll_for_p2p, Rounds
    <2>8. CASE refused(p)
      BY <1>4, <2>8 DEF refused
    <2>9. QED
      BY <1>7, <2>1, <2>2, <2>3, <2>4, <2>5, <2>6, <2>7, <2>8 DEF Step, save, Saves
  <1>8. QED
    BY <1>6, <1>7

-----------------------------------------------------------------------------
(* The inductive invariant.                                                  *)

\* A process has a number once its sign-up was answered.
Joining ==
    \A p \in Procs :
        /\ status[p] = "start" => party[p] = NoParty
        /\ status[p] \in {"run", "done"} => party[p] \in [number : Numbers, uuid : Sessions]
        /\ party[p] = NoParty => round[p] = 0
        /\ status[p] = "done" => round[p] = 5 /\ Polled(p, 5)

\* a was given before b, or is b.
UpTo(a, b) == a.uuid < b.uuid \/ (a.uuid = b.uuid /\ a.number <= b.number)

\* The uuids in use are the first ones; as long as no sign-up was stale, the
\* party put last is the greatest of those given.
SignupsGrow ==
    /\ \E k \in Nat : {v.uuid : v \in signups} = 1..k
    /\ ~history.stale =>
          /\ \A v \in signups : UpTo(v, latest)
          /\ \A p \in Joined : party[p] \in signups

\* What is on the board was posted by a process with that number and session
\* that has come to that round, and it has posted all rounds up to its own.
BoardWritten ==
    /\ \A e \in board : /\ party[e.by] = [number |-> e.from, uuid |-> e.uuid]
                        /\ e.round <= round[e.by]
    /\ \A p \in Procs : \A r \in 1..round[p] :
          \E e \in board : /\ e.from = party[p].number /\ e.uuid = party[p].uuid
                           /\ e.round = r

\* The answers polled were written by processes with the number asked for.
GotWritten ==
    \A p \in Procs, r \in Rounds : \A k \in 1..Len(got[p][r]) :
        LET q == got[p][r][k]
        IN  /\ party[q] = [number |-> Other(party[p].number, k), uuid |-> party[p].uuid]
            /\ r <= round[q]

\* All answers of earlier rounds are polled, and none of later ones.
InRounds ==
    \A p \in Procs, r \in Rounds : /\ r < round[p] => Polled(p, r)
                                   /\ r > round[p] => got[p][r] = <<>>

\* The checks between the rounds have been passed.
Checked ==
    \A p \in Procs : /\ round[p] >= 3 => CommitmentsOpen(p)
                     /\ round[p] >= 4 => SharesDecrypt(p)
                     /\ round[p] >= 5 => SharesVerify(p)

KeyGenInv ==
    /\ TypeOK
    /\ Joining
    /\ SignupsGrow
    /\ NumbersUnique
    /\ BoardWritten
    /\ GotWritten
    /\ InRounds
    /\ Checked

-----------------------------------------------------------------------------
(* Types.                                                                    *)

\* The types of the parts of the state that the lemmas below use.
LEMMA Types ==
    ASSUME TypeOK
    PROVE  /\ Limit \in Nat /\ Limit >= 1 /\ MaxSessions \in Nat /\ MaxFaults \in Nat
           /\ signups \subseteq PartySignup /\ latest \in signups
           /\ board \subseteq Entry(Rounds)
           /\ poisoned \in BOOLEAN
           /\ status \in [Procs -> {"start", "run", "done", "panic"}]
           /\ party \in [Procs -> PartySignup \cup {NoParty}]
           /\ round \in [Procs -> 0..5]
           /\ sent \in [Procs -> 0..(Limit - 1)]
           /\ history \in [stale : BOOLEAN, faults : 0..MaxFaults]
  <1>1. Rounds \cup {0} = 0..5
    BY DEF Rounds
  <1>2. QED
    BY <1>1, BoardAssumption, ClientAssumption DEF TypeOK, ClientTypeOK

\* Sequences of at most n entries, as TypeOK writes them.
LEMMA ShortSeqs ==
    ASSUME NEW n \in Nat, NEW s
    PROVE  s \in UNION {[1..m -> Procs] : m \in 0..n} <=> s \in Seq(Procs) /\ Len(s) <= n
  <1>1. ASSUME NEW m \in 0..n, s \in [1..m -> Procs]
        PROVE  s \in Seq(Procs) /\ Len(s) <= n
    BY <1>1
  <1>2. ASSUME s \in Seq(Procs), Len(s) <= n
        PROVE  Len(s) \in 0..n /\ s \in [1..Len(s) -> Procs]
    BY <1>2, LenProperties
  <1>3. QED
    BY <1>1, <1>2

\* The answers of every round, as sequences.
LEMMA GotType ==
    ASSUME Limit \in Nat, Limit >= 1, NEW g
    PROVE  g \in [Procs -> [Rounds -> UNION {[1..n -> Procs] : n \in 0..(Limit - 1)}]]
           <=> /\ g \in [Procs -> [Rounds -> Seq(Procs)]]
               /\ \A p \in Procs, r \in Rounds : Len(g[p][r]) <= Limit - 1
  <1> DEFINE S == UNION {[1..n -> Procs] : n \in 0..(Limit - 1)}
  <1>1. \A s : s \in S <=> s \in Seq(Procs) /\ Len(s) <= Limit - 1
    BY ShortSeqs
  <1> HIDE DEF S
  <1>2. ASSUME g \in [Procs -> [Rounds -> S]]
        PROVE  /\ g \in [Procs -> [Rounds -> Seq(Procs)]]
               /\ \A p \in Procs, r \in Rounds : Len(g[p][r]) <= Limit - 1
    BY <1>1, <1>2
  <1>3. ASSUME g \in [Procs -> [Rounds -> Seq(Procs)]],
               \A p \in Procs, r \in Rounds : Len(g[p][r]) <= Limit - 1
        PROVE  g \in [Procs -> [Rounds -> S]]
    BY <1>1, <1>3
  <1>4. QED
    BY <1>2, <1>3 DEF S

\* The number a sign-up gives is one of the session's.
LEMMA NextSignupType ==
    ASSUME TypeOK, NEW found \in signups, NextSignup(found).uuid \in Sessions
    PROVE  NextSignup(found) \in [number : Numbers, uuid : Sessions]
  <1>1. found.number \in 0..Limit /\ found.uuid \in Sessions
    BY Types DEF PartySignup
  <1>2. QED
    BY <1>1, Types DEF NextSignup, Numbers

\* Every step preserves the types.
LEMMA TypeStep ==
    ASSUME KeyGenInv, [Next]_vars
    PROVE  TypeOK'
  <1> USE DEF KeyGenInv
  <1>0. /\ got \in [Procs -> [Rounds -> Seq(Procs)]]
        /\ \A p \in Procs, r \in Rounds : Len(got[p][r]) <= Limit - 1
    BY Types, GotType DEF TypeOK, ClientTypeOK
  <1>1. ASSUME NEW p \in Procs, signup(p)
        PROVE  TypeOK'
    <2>1. PICK found \in signups :
             /\ SignupHandled(found)
             /\ party' = [party EXCEPT ![p] = NextSignup(found)]
             /\ \/ UNCHANGED history
                \/ /\ history.faults < MaxFaults
                   /\ history' = [stale |-> TRUE, faults |-> history.faults + 1]
      BY <1>1 DEF signup
    <2>2. NextSignup(found) \in PartySignup
      BY <2>1, NextSignupType DEF SignupHandled, PartySignup, Numbers
    <2>3. history' \in [stale : BOOLEAN, faults : 0..MaxFaults]
      <3>1. history.faults \in 0..MaxFaults /\ MaxFaults \in Nat
        BY Types
      <3>2. history.faults < MaxFaults => history.faults + 1 \in 0..MaxFaults
        BY <3>1
      <3>3. CASE UNCHANGED history
        BY <3>3, Types
      <3>4. CASE /\ history.faults < MaxFaults
                 /\ history' = [stale |-> TRUE, faults |-> history.faults + 1]
        BY <3>2, <3>4
      <3>5. QED
        BY <2>1, <3>3, <3>4
    <2>4. QED
      BY <1>1, <2>1, <2>2, <2>3, Types DEF signup, SignupHandled, TypeOK, ClientTypeOK
  <1>2. ASSUME NEW p \in Procs, signupLost(p)
        PROVE  TypeOK'
    <2>1. NextSignup(latest) \in PartySignup
      BY <1>2, Types, NextSignupType DEF signupLost, SignupHandled, PartySignup, Numbers
    <2>2. history' \in [stale : BOOLEAN, faults : 0..MaxFaults]
      BY <1>2, Types DEF signupLost, Fault
    <2>3. QED
      BY <1>2, <2>1, <2>2, Types
      DEF signupLost, SignupHandled, procVars, TypeOK, ClientTypeOK
  <1>3. ASSUME NEW p \in Procs, NEW r \in Rounds, NEW to \in 0..Limit, Posts(p, r, to)
        PROVE  TypeOK'
    <2>1. party[p] \in [number : Numbers, uuid : Sessions]
      BY <1>3 DEF Posts, Joining
    <2>2. Message(p, r, to) \in Entry(Rounds)
      BY <2>1 DEF Message, Entry
    <2>3. sent' \in [Procs -> 0..(Limit - 1)]
      BY <1>3, Types DEF Posts
    <2>4. QED
      BY <1>3, <2>2, <2>3, Types DEF Posts, TypeOK, ClientTypeOK
  <1>4. ASSUME NEW p \in Procs, NEW r \in Rounds, NEW q \in Procs, Polls(p, r, q)
        PROVE  TypeOK'
    <2>1. /\ got' \in [Procs -> [Rounds -> Seq(Procs)]]
          /\ \A x \in Procs, y \in Rounds : Len(got'[x][y]) <= Limit - 1
      BY <1>0, <1>4, Types DEF Polls
    <2>2. QED
      BY <1>4, <2>1, Types, GotType DEF Polls, boardVars, TypeOK, ClientTypeOK
  <1>5. ASSUME NEW p \in Procs, Halts(p)
        PROVE  TypeOK'
    BY <1>5, Types DEF Halts, TypeOK, ClientTypeOK
  <1>6. ASSUME NEW p \in Procs, Saves(p)
        PROVE  TypeOK'
    BY <1>6, Types DEF Saves, finish, boardVars, TypeOK, ClientTypeOK
  <1>7. CASE UNCHANGED vars
    BY <1>7 DEF vars, clientVars, boardVars, procVars, TypeOK, ClientTypeOK
  <1>8. QED
    BY <1>1, <1>2, <1>3, <1>4, <1>5, <1>6, <1>7, Shapes DEF Next

-----------------------------------------------------------------------------
(* What no step takes back.                                                  *)

\* One more answer leaves the earlier ones where they are.
LEMMA AppendLonger ==
    ASSUME NEW s \in Seq(Procs), NEW q \in Procs
    PROVE  /\ Append(s, q) \in Seq(Procs)
           /\ Len(Append(s, q)) = Len(s) + 1
           /\ Append(s, q)[Len(s) + 1] = q
           /\ \A k \in 1..Len(s) : k \in 1..Len(Append(s, q)) /\ Append(s, q)[k] = s[k]
  OBVIOUS

\* A process keeps its number, its round does not decrease, the answers of
\* earlier rounds do not change and nothing is taken off the board.
Kept ==
    /\ \A p \in Procs : party[p] # NoParty => party'[p] = party[p]
    /\ \A p \in Procs : round[p] <= round'[p]
    /\ \A p \in Procs, r \in Rounds : r < round[p] => got'[p][r] = got[p][r]
    /\ \A p \in Procs, r \in Rounds : \A k \in 1..Len(got[p][r]) :
          k \in 1..Len(got'[p][r]) /\ got'[p][r][k] = got[p][r][k]
    /\ board \subseteq board'

\* A step that leaves numbers, rounds and answers alone takes nothing back.
LEMMA SameKeeps ==
    ASSUME TypeOK, UNCHANGED <<party, round, got>>, board \subseteq board'
    PROVE  Kept
  <1>1. \A p \in Procs : round[p] <= round'[p]
    BY Types
  <1>2. \A p \in Procs : party[p] # NoParty => party'[p] = party[p]
    OBVIOUS
  <1>3. \A p \in Procs, r \in Rounds : r < round[p] => got'[p][r] = got[p][r]
    OBVIOUS
  <1>4. \A p \in Procs, r \in Rounds : \A k \in 1..Len(got[p][r]) :
          k \in 1..Len(got'[p][r]) /\ got'[p][r][k] = got[p][r][k]
    OBVIOUS
  <1>5. QED
    BY <1>1, <1>2, <1>3, <1>4 DEF Kept

\* No step takes anything back.
LEMMA StepKeeps ==
    ASSUME KeyGenInv, [Next]_vars
    PROVE  Kept
  <1> USE DEF KeyGenInv
  <1>0. /\ got \in [Procs -> [Rounds -> Seq(Procs)]]
        /\ \A p \in Procs, r \in Rounds : Len(got[p][r]) <= Limit - 1
    BY Types, GotType DEF TypeOK, ClientTypeOK
  <1>a. round \in [Procs -> 0..5]
    BY Types
  <1>1. ASSUME NEW p \in Procs, signup(p)
        PROVE  Kept
    <2>1. party[p] = NoParty
      BY <1>1 DEF signup, Joining
    <2>2. /\ \A q \in Procs : q # p => party'[q] = party[q]
          /\ UNCHANGED <<round, got, board>>
      BY <1>1, Types DEF signup, SignupHandled
    <2>3. QED
      BY <1>a, <2>1, <2>2 DEF Kept
  <1>2. ASSUME NEW p \in Procs, signupLost(p)
        PROVE  Kept
    BY <1>2, SameKeeps DEF signupLost, SignupHandled, procVars
  <1>3. ASSUME NEW p \in Procs, NEW r \in Rounds, NEW to \in 0..Limit, Posts(p, r, to)
        PROVE  Kept
    BY <1>a, <1>3 DEF Posts, Kept
  <1>4. ASSUME NEW p \in Procs, NEW r \in Rounds, NEW q \in Procs, Polls(p, r, q)
        PROVE  Kept
    <2>1. \A x \in Procs, y \in Rounds :
             got'[x][y] = IF x = p /\ y = r THEN Append(got[x][y], q) ELSE got[x][y]
      BY <1>0, <1>4 DEF Polls
    <2>2. r = round[p] /\ UNCHANGED <<party, round, board>>
      BY <1>4 DEF Polls, boardVars
    <2>3. \A x \in Procs, y \in Rounds : \A k \in 1..Len(got[x][y]) :
             k \in 1..Len(got'[x][y]) /\ got'[x][y][k] = got[x][y][k]
      <3>1. SUFFICES ASSUME NEW x \in Procs, NEW y \in Rounds, NEW k \in 1..Len(got[x][y])
                     PROVE  k \in 1..Len(got'[x][y]) /\ got'[x][y][k] = got[x][y][k]
        OBVIOUS
      <3>2. CASE x = p /\ y = r
        <4>1. got[x][y] \in Seq(Procs) /\ got'[x][y] = Append(got[x][y], q)
          BY <1>0, <2>1, <3>2
        <4>2. QED
          BY <4>1, AppendLonger
      <3>3. CASE ~(x = p /\ y = r)
        BY <2>1, <3>3
      <3>4. QED
        BY <3>2, <3>3
    <2>4. \A x \in Procs, y \in Rounds : y < round[x] => got'[x][y] = got[x][y]
      BY <1>a, <2>1, <2>2 DEF Rounds
    <2>5. QED
      BY <1>a, <2>2, <2>3, <2>4 DEF Kept
  <1>5. ASSUME NEW p \in Procs, Halts(p)
        PROVE  Kept
    BY <1>5, SameKeeps DEF Halts
  <1>6. ASSUME NEW p \in Procs, Saves(p)
        PROVE  Kept
    BY <1>6, SameKeeps DEF Saves, finish, boardVars
  <1>7. CASE UNCHANGED vars
    BY <1>7, SameKeeps DEF vars, clientVars, boardVars, procVars
  <1>8. QED
    BY <1>1, <1>2, <1>3, <1>4, <1>5, <1>6, <1>7, Shapes DEF Next

\* Processes with a number, and their rounds.
LEMMA JoiningStep ==
    ASSUME KeyGenInv, [Next]_vars
    PROVE  Joining'
  <1> USE DEF KeyGenInv
  <1>1. ASSUME NEW p \in Procs, signup(p)
        PROVE  Joining'
    <2>1. PICK found \in signups :
             SignupHandled(found) /\ party' = [party EXCEPT ![p] = NextSignup(found)]
      BY <1>1 DEF signup
    <2>2. NextSignup(found) \in [number : Numbers, uuid : Sessions]
      BY <2>1, NextSignupType DEF SignupHandled
    <2>3. NextSignup(found) # NoParty
      BY <2>2, Types DEF NoParty, Numbers
    <2>4. QED
      BY <1>1, <2>1, <2>2, <2>3, Types DEF signup, Joining, Polled
  <1>2. ASSUME NEW p \in Procs, signupLost(p)
        PROVE  Joining'
    BY <1>2 DEF signupLost, procVars, Joining, Polled
  <1>3. ASSUME NEW p \in Procs, NEW r \in Rounds, NEW to \in 0..Limit, Posts(p, r, to)
        PROVE  Joining'
    <2>1. party[p] # NoParty
      BY <1>3, Types DEF Posts, Joining, NoParty, Numbers
    <2>2. QED
      BY <1>3, <2>1, Types DEF Posts, Joining, Polled
  <1>4. ASSUME NEW p \in Procs, NEW r \in Rounds, NEW q \in Procs, Polls(p, r, q)
        PROVE  Joining'
    <2>1. \A x \in Procs : status[x] = "done" => got'[x] = got[x]
      BY <1>4 DEF Polls, TypeOK, ClientTypeOK
    <2>2. QED
      BY <1>4, <2>1 DEF Polls, Joining, Polled
  <1>5. ASSUME NEW p \in Procs, Halts(p)
        PROVE  Joining'
    BY <1>5, Types DEF Halts, Joining, Polled
  <1>6. ASSUME NEW p \in Procs, Saves(p)
        PROVE  Joining'
    BY <1>6, Types DEF Saves, finish, Joining, Completed, Polled
  <1>7. CASE UNCHANGED vars
    BY <1>7 DEF vars, clientVars, procVars, Joining, Polled
  <1>8. QED
    BY <1>1, <1>2, <1>3, <1>4, <1>5, <1>6, <1>7, Shapes DEF Next

-----------------------------------------------------------------------------
(* Numbers of a session.                                                     *)

\* The uuid of a new session is the next one.
LEMMA NewUuidNext ==
    ASSUME TypeOK, SignupsGrow
    PROVE  /\ NewUuid \in Nat
           /\ {v.uuid : v \in signups} = 1..(NewUuid - 1)
           /\ \A v \in signups : v.uuid < NewUuid
  <1>1. PICK k \in Nat : {v.uuid : v \in signups} = 1..k
    BY DEF SignupsGrow
  <1>2. Cardinality(1..k) = k
    BY FS_Interval
  <1>3. NewUuid = k + 1
    BY <1>1, <1>2 DEF NewUuid
  <1>4. \A v \in signups : v.uuid \in 1..k
    BY <1>1
  <1>5. QED
    BY <1>1, <1>3, <1>4

\* A sign-up adds no uuid but the next one.
LEMMA UuidsGrow ==
    ASSUME TypeOK, SignupsGrow, NEW found \in signups, signups' = signups \cup {NextSignup(found)}
    PROVE  \E k \in Nat : {v.uuid : v \in signups'} = 1..k
  <1> DEFINE U == {v.uuid : v \in signups}
  <1>1. {v.uuid : v \in signups'} = U \cup {NextSignup(found).uuid}
    OBVIOUS
  <1>2. found.uuid \in U
    OBVIOUS
  <1>3. NewUuid \in Nat /\ U = 1..(NewUuid - 1)
    BY NewUuidNext
  <1>4. NextSignup(found).uuid \in {found.uuid, NewUuid}
    BY DEF NextSignup
  <1> HIDE DEF U
  <1>5. CASE NextSignup(found).uuid = found.uuid
    <2>1. NewUuid - 1 \in Nat
      BY <1>2, <1>3
    <2>2. U \cup {NextSignup(found).uuid} = U
      BY <1>2, <1>5
    <2>3. QED
      BY <1>1, <1>3, <2>1, <2>2
  <1>6. CASE NextSignup(found).uuid = NewUuid
    <2>0. NewUuid >= 1
      BY <1>2, <1>3
    <2>1. U \cup {NewUuid} = 1..NewUuid
      BY <1>3, <2>0
    <2>2. QED
      BY <1>1, <1>3, <1>6, <2>1
  <1>7. QED
    BY <1>4, <1>5, <1>6

\* A sign-up that saw the party put last gives a number above all given.
LEMMA NextAbove ==
    ASSUME TypeOK, SignupsGrow, ~history.stale
    PROVE  \A v \in signups : UpTo(v, NextSignup(latest)) /\ v # NextSignup(latest)
  <1>1. SUFFICES ASSUME NEW v \in signups
                 PROVE  UpTo(v, NextSignup(latest)) /\ v # NextSignup(latest)
    OBVIOUS
  <1>2. UpTo(v, latest)
    BY DEF SignupsGrow
  <1>3. /\ v.number \in 0..Limit /\ v.uuid \in Nat
        /\ latest.number \in 0..Limit /\ latest.uuid \in Nat
        /\ Limit \in Nat
    BY Types DEF PartySignup, Sessions
  <1>4. NewUuid \in Nat /\ v.uuid < NewUuid
    BY NewUuidNext
  <1>5. CASE latest.number < Limit
    BY <1>2, <1>3, <1>5 DEF NextSignup, UpTo
  <1>6. CASE ~(latest.number < Limit)
    BY <1>4, <1>6, <1>3 DEF NextSignup, UpTo
  <1>7. QED
    BY <1>5, <1>6

\* Sign-ups preserve both facts about numbers.
LEMMA NumbersStep ==
    ASSUME KeyGenInv, [Next]_vars
    PROVE  SignupsGrow' /\ NumbersUnique'
  <1> USE DEF KeyGenInv
  <1>1. ASSUME NEW p \in Procs, signup(p)
        PROVE  SignupsGrow' /\ NumbersUnique'
    <2> DEFINE n == NextSignup(latest)
    <2>1. PICK found \in signups :
             /\ SignupHandled(found)
             /\ party' = [party EXCEPT ![p] = NextSignup(found)]
             /\ \/ found = latest /\ UNCHANGED history
                \/ history' = [stale |-> TRUE, faults |-> history.faults + 1]
      BY <1>1 DEF signup
    <2>2. \E k \in Nat : {v.uuid : v \in signups'} = 1..k
      BY <2>1, UuidsGrow DEF SignupHandled
    <2>3. CASE history'.stale
      BY <2>2, <2>3 DEF SignupsGrow, NumbersUnique
    <2>4. CASE ~history'.stale
      <3>1. found = latest /\ ~history.stale
        BY <2>1, <2>4
      <3>2. latest' = n /\ signups' = signups \cup {n} /\ party' = [party EXCEPT ![p] = n]
        BY <2>1, <3>1 DEF SignupHandled
      <3>3. UpTo(n, n)
        BY <2>1, <3>1, NextSignupType, Types DEF SignupHandled, UpTo, Sessions, Numbers
      <3>4. \A v \in signups' : UpTo(v, latest')
        BY <3>1, <3>2, <3>3, NextAbove
      <3>5. \A x \in Procs : x # p => party'[x] = party[x]
        BY <3>2, Types
      <3>6. party'[p] = n
        BY <3>2, Types
      <3>7. \A x \in Joined' : x # p => party[x] \in signups /\ party'[x] \in signups
        BY <3>1, <3>5 DEF Joined, SignupsGrow
      <3>8. \A x \in Joined' : party'[x] \in signups'
        BY <3>2, <3>6, <3>7
      <3>9. \A v \in signups : v # n
        BY <3>1, NextAbove
      <3>10. \A x, y \in Joined' : party'[x] = party'[y] => x = y
        <4>1. SUFFICES ASSUME NEW x \in Joined', NEW y \in Joined', party'[x] = party'[y]
                       PROVE  x = y
          OBVIOUS
        <4>2. CASE x = p
          BY <3>6, <3>7, <3>9, <4>1, <4>2
        <4>3. CASE y = p
          BY <3>6, <3>7, <3>9, <4>1, <4>3
        <4>4. CASE x # p /\ y # p
          BY <3>1, <3>5, <4>1, <4>4 DEF Joined, NumbersUnique
        <4>5. QED
          BY <4>2, <4>3, <4>4
      <3>11. QED
        BY <2>2, <3>4, <3>8, <3>10 DEF SignupsGrow, NumbersUnique
    <2>5. QED
      BY <2>3, <2>4
  <1>2. ASSUME NEW p \in Procs, signupLost(p)
        PROVE  SignupsGrow' /\ NumbersUnique'
    <2>1. /\ SignupHandled(latest) /\ UNCHANGED party
          /\ history' = [history EXCEPT !.faults = @ + 1]
      BY <1>2 DEF signupLost, procVars, Fault
    <2>2. \E k \in Nat : {v.uuid : v \in signups'} = 1..k
      BY <2>1, Types, UuidsGrow DEF SignupHandled
    <2>3. history'.stale = history.stale
      BY <2>1, Types
    <2>4. UpTo(NextSignup(latest), NextSignup(latest))
      BY <2>1, NextSignupType, Types DEF SignupHandled, UpTo, Sessions, Numbers
    <2>5. ~history.stale => \A v \in signups' : UpTo(v, latest')
      BY <2>1, <2>4, NextAbove DEF SignupHandled
    <2>6. Joined' = Joined
      BY <2>1 DEF Joined
    <2>7. ~history.stale => \A x \in Joined' : party'[x] \in signups'
      BY <2>1, <2>6 DEF SignupsGrow, SignupHandled
    <2>8. QED
      BY <2>1, <2>2, <2>3, <2>5, <2>6, <2>7 DEF SignupsGrow, NumbersUnique
  <1>3. ASSUME UNCHANGED <<signups, latest, party>>, history'.stale = history.stale
        PROVE  SignupsGrow' /\ NumbersUnique'
    BY <1>3 DEF SignupsGrow, NumbersUnique, Joined, UpTo
  <1>4. ASSUME NEW p \in Procs, NEW r \in Rounds, NEW to \in 0..Limit, Posts(p, r, to)
        PROVE  SignupsGrow' /\ NumbersUnique'
    BY <1>3, <1>4 DEF Posts
  <1>5. ASSUME NEW p \in Procs, NEW r \in Rounds, NEW q \in Procs, Polls(p, r, q)
        PROVE  SignupsGrow' /\ NumbersUnique'
    BY <1>3, <1>5 DEF Polls, boardVars
  <1>6. ASSUME NEW p \in Procs, Halts(p)
        PROVE  SignupsGrow' /\ NumbersUnique'
    BY <1>3, <1>6 DEF Halts
  <1>7. ASSUME NEW p \in Procs, Saves(p)
        PROVE  SignupsGrow' /\ NumbersUnique'
    BY <1>3, <1>7 DEF Saves, finish, boardVars
  <1>8. CASE UNCHANGED vars
    BY <1>3, <1>8 DEF vars, clientVars, boardVars, procVars
  <1>9. QED
    BY <1>1, <1>2, <1>4, <1>5, <1>6, <1>7, <1>8, Shapes DEF Next

-----------------------------------------------------------------------------
(* Messages and answers.                                                     *)

\* Only a post changes the board or a round.
LEMMA OnlyPosts ==
    ASSUME TypeOK, [Next]_vars
    PROVE  \/ \E p \in Procs, r \in Rounds, to \in 0..Limit : Posts(p, r, to)
           \/ UNCHANGED <<board, round>>
  <1>1. ASSUME NEW p \in Procs, signup(p) \/ signupLost(p) \/ Halts(p) \/ Saves(p)
        PROVE  UNCHANGED <<board, round>>
    BY <1>1 DEF signup, signupLost, SignupHandled, Halts, Saves, finish, boardVars, procVars
  <1>2. ASSUME NEW p \in Procs, NEW r \in Rounds, NEW q \in Procs, Polls(p, r, q)
        PROVE  UNCHANGED <<board, round>>
    BY <1>2 DEF Polls, boardVars
  <1>3. CASE UNCHANGED vars
    BY <1>3 DEF vars, clientVars, boardVars, procVars
  <1>4. QED
    BY <1>1, <1>2, <1>3, Shapes DEF Next

\* Only a poll changes the answers.
LEMMA OnlyPolls ==
    ASSUME TypeOK, [Next]_vars
    PROVE  \/ \E p \in Procs, r \in Rounds, q \in Procs : Polls(p, r, q)
           \/ UNCHANGED got
  <1>1. ASSUME NEW p \in Procs, signup(p) \/ signupLost(p) \/ Halts(p) \/ Saves(p)
        PROVE  UNCHANGED got
    BY <1>1 DEF signup, signupLost, Halts, Saves, finish, procVars
  <1>2. ASSUME NEW p \in Procs, NEW r \in Rounds, NEW to \in 0..Limit, Posts(p, r, to)
        PROVE  UNCHANGED got
    BY <1>2 DEF Posts
  <1>3. CASE UNCHANGED vars
    BY <1>3 DEF vars, clientVars, procVars
  <1>4. QED
    BY <1>1, <1>2, <1>3, Shapes DEF Next

\* A process that has come to a round, or that was sent to, has a number.
LEMMA HasNumber ==
    ASSUME KeyGenInv
    PROVE  /\ \A p \in Procs : round[p] > 0 => party[p] # NoParty
           /\ \A p \in Procs, r \in Rounds : Len(got[p][r]) > 0 => party[p] # NoParty
           /\ \A p \in Procs : status[p] = "run" => party[p] # NoParty
           /\ \A i \in Numbers : \A s : [number |-> i, uuid |-> s] # NoParty
  <1> USE DEF KeyGenInv
  <1>1. \A p \in Procs : party[p] = NoParty => round[p] = 0
    BY DEF Joining
  <1>2. \A p \in Procs, r \in Rounds : party[p] = NoParty => got[p][r] = <<>>
    BY <1>1 DEF InRounds, Rounds
  <1>3. \A i \in Numbers : \A s : [number |-> i, uuid |-> s] # NoParty
    BY Types DEF Numbers, NoParty
  <1>4. \A p \in Procs : status[p] = "run" => party[p] # NoParty
    BY <1>3 DEF Joining
  <1>5. QED
    BY <1>1, <1>2, <1>3, <1>4

\* The rounds before and after a step.
LEMMA RoundTypes ==
    ASSUME KeyGenInv, [Next]_vars
    PROVE  \A p \in Procs : round[p] \in 0..5 /\ round'[p] \in 0..5
  <1>1. round \in [Procs -> 0..5]
    BY Types DEF KeyGenInv
  <1>2. round' \in [Procs -> Rounds \cup {0}]
    BY TypeStep DEF TypeOK, ClientTypeOK
  <1>3. Rounds \cup {0} = 0..5
    BY DEF Rounds
  <1>4. QED
    BY <1>1, <1>2, <1>3

\* A post is written by the holder of its number, in the round it comes to.
LEMMA BoardStep ==
    ASSUME KeyGenInv, [Next]_vars
    PROVE  BoardWritten'
  <1> USE DEF KeyGenInv
  <1>k. Kept
    BY StepKeeps
  <1>1. \A e \in board : e.by \in Procs /\ party[e.by] # NoParty
    <2>1. ASSUME NEW e \in board
          PROVE  e.by \in Procs /\ party[e.by] # NoParty
      <3>1. e.by \in Procs /\ e.from \in Numbers
        BY Types DEF Entry
      <3>2. party[e.by] = [number |-> e.from, uuid |-> e.uuid]
        BY DEF BoardWritten
      <3>3. QED
        BY <3>1, <3>2, HasNumber
    <2>2. QED
      BY <2>1
  <1>2. \A e \in board : /\ party'[e.by] = [number |-> e.from, uuid |-> e.uuid]
                         /\ e.round <= round'[e.by]
    <2>1. \A e \in board : e.round \in 1..5
      BY Types DEF Entry, Rounds
    <2>2. \A x \in Procs : round[x] \in 0..5 /\ round'[x] \in 0..5
      BY RoundTypes
    <2>3. ASSUME NEW e \in board
          PROVE  /\ party'[e.by] = [number |-> e.from, uuid |-> e.uuid]
                 /\ e.round <= round'[e.by]
      <3>1. /\ party[e.by] = [number |-> e.from, uuid |-> e.uuid]
            /\ e.round <= round[e.by]
        BY DEF BoardWritten
      <3>2. party'[e.by] = party[e.by] /\ round[e.by] <= round'[e.by]
        BY <1>1, <1>k DEF Kept
      <3>3. QED
        BY <1>1, <2>1, <2>2, <3>1, <3>2
    <2>4. QED
      BY <2>3
  <1>3. \A p \in Procs : \A r \in 1..round[p] :
          \E e \in board' : /\ e.from = party'[p].number /\ e.uuid = party'[p].uuid
                            /\ e.round = r
    <2>1. \A p \in Procs : round[p] \in 0..5
      BY Types
    <2>2. SUFFICES ASSUME NEW p \in Procs, NEW r \in 1..round[p]
                   PROVE  \E e \in board' : /\ e.from = party'[p].number
                                            /\ e.uuid = party'[p].uuid /\ e.round = r
      OBVIOUS
    <2>3. party'[p] = party[p]
      BY <1>k, <2>1, HasNumber DEF Kept
    <2>4. QED
      BY <1>k, <2>3 DEF BoardWritten, Kept
  <1>4. CASE UNCHANGED <<board, round>>
    BY <1>2, <1>3, <1>4 DEF BoardWritten
  <1>5. CASE \E p \in Procs, r \in Rounds, to \in 0..Limit : Posts(p, r, to)
    <2>1. PICK p \in Procs, r \in Rounds, to \in 0..Limit : Posts(p, r, to)
      BY <1>5
    <2>2. /\ board' = board \cup {Message(p, r, to)} /\ party' = party
          /\ \A x \in Procs : x # p => round'[x] = round[x]
          /\ round'[p] = r /\ (r = round[p] + 1 \/ r = round[p])
      BY <2>1, Types DEF Posts
    <2>3. \A e \in board' : /\ party'[e.by] = [number |-> e.from, uuid |-> e.uuid]
                            /\ e.round <= round'[e.by]
      <3>1. party[p] \in [number : Numbers, uuid : Sessions]
        BY <2>1 DEF Posts, Joining
      <3>2. party[p] = [number |-> party[p].number, uuid |-> party[p].uuid]
        BY <3>1
      <3>3. ASSUME NEW e, e = Message(p, r, to)
            PROVE  /\ party'[e.by] = [number |-> e.from, uuid |-> e.uuid]
                   /\ e.round <= round'[e.by]
        <4>1. e.by = p /\ e.from = party[p].number /\ e.uuid = party[p].uuid /\ e.round = r
          BY <3>3 DEF Message
        <4>2. QED
          BY <2>2, <3>2, <4>1 DEF Rounds
      <3>4. QED
        BY <1>2, <2>2, <3>3
    <2>4. ASSUME NEW x \in Procs, NEW y \in 1..round'[x]
          PROVE  \E e \in board' : /\ e.from = party'[x].number /\ e.uuid = party'[x].uuid
                                   /\ e.round = y
      <3>1. CASE y \in 1..round[x]
        BY <1>3, <3>1
      <3>2. CASE y \notin 1..round[x]
        <4>1. round[x] \in 0..5
          BY Types
        <4>2. x = p /\ y = r
          BY <2>2, <3>2, <4>1 DEF Rounds
        <4>3. Message(p, r, to) \in board'
          BY <2>2
        <4>4. QED
          BY <2>2, <4>2, <4>3 DEF Message
      <3>3. QED
        BY <3>1, <3>2
    <2>5. QED
      BY <2>3, <2>4 DEF BoardWritten
  <1>6. QED
    BY <1>4, <1>5, OnlyPosts

\* An answer polled is one on the board, whose writer keeps its number.
LEMMA GotStep ==
    ASSUME KeyGenInv, [Next]_vars
    PROVE  GotWritten'
  <1> USE DEF KeyGenInv
  <1>k. Kept
    BY StepKeeps
  <1>0. /\ got \in [Procs -> [Rounds -> Seq(Procs)]]
        /\ \A x \in Procs, y \in Rounds : Len(got[x][y]) <= Limit - 1
    BY Types, GotType DEF TypeOK, ClientTypeOK
  <1>r. \A x \in Procs : round[x] \in 0..5 /\ round'[x] \in 0..5
    BY RoundTypes
  <1>1. /\ \A x \in Procs : party[x].number \in 0..Limit
        /\ Limit \in Nat
    <2>1. \A v \in PartySignup \cup {NoParty} : v.number \in 0..Limit
      BY Types DEF PartySignup, NoParty
    <2>2. QED
      BY <2>1, Types
  <1>2. ASSUME NEW p \in Procs, NEW r \in Rounds, NEW q \in Procs, NEW k \in 1..(Limit - 1),
               party[p] # NoParty, r <= round[q],
               party[q] = [number |-> Other(party[p].number, k), uuid |-> party[p].uuid]
        PROVE  /\ party'[q] = [number |-> Other(party'[p].number, k), uuid |-> party'[p].uuid]
               /\ r <= round'[q]
    <2>1. Other(party[p].number, k) \in Numbers
      BY <1>1 DEF Other, Numbers
    <2>2. party'[q] = party[q] /\ party'[p] = party[p]
      BY <1>k, <1>2, <2>1, HasNumber DEF Kept
    <2>3. r <= round'[q]
      BY <1>k, <1>r, <1>2 DEF Kept, Rounds
    <2>4. QED
      BY <1>2, <2>2, <2>3
  <1>3. ASSUME NEW p \in Procs, NEW r \in Rounds, NEW k \in 1..Len(got[p][r])
        PROVE  /\ party'[got[p][r][k]] =
                      [number |-> Other(party'[p].number, k), uuid |-> party'[p].uuid]
               /\ r <= round'[got[p][r][k]]
    <2>1. got[p][r] \in Seq(Procs) /\ Len(got[p][r]) <= Limit - 1
      BY <1>0
    <2>2. got[p][r][k] \in Procs /\ k \in 1..(Limit - 1)
      BY <1>1, <2>1
    <2>3. Len(got[p][r]) > 0
      BY <2>1
    <2>4. party[p] # NoParty
      BY <2>3, HasNumber
    <2>5. /\ party[got[p][r][k]] =
                [number |-> Other(party[p].number, k), uuid |-> party[p].uuid]
          /\ r <= round[got[p][r][k]]
      BY DEF GotWritten
    <2>6. QED
      BY <1>2, <2>2, <2>4, <2>5
  <1>4. CASE UNCHANGED got
    BY <1>3, <1>4 DEF GotWritten
  <1>5. CASE \E p \in Procs, r \in Rounds, q \in Procs : Polls(p, r, q)
    <2>1. PICK p \in Procs, r \in Rounds, q \in Procs : Polls(p, r, q)
      BY <1>5
    <2>2. \A x \in Procs, y \in Rounds :
             got'[x][y] = IF x = p /\ y = r THEN Append(got[x][y], q) ELSE got[x][y]
      BY <1>0, <2>1 DEF Polls
    <2>3. SUFFICES ASSUME NEW x \in Procs, NEW y \in Rounds, NEW k \in 1..Len(got'[x][y])
                   PROVE  /\ party'[got'[x][y][k]] =
                                [number |-> Other(party'[x].number, k), uuid |-> party'[x].uuid]
                          /\ y <= round'[got'[x][y][k]]
      BY DEF GotWritten
    <2>4. CASE k \in 1..Len(got[x][y])
      <3>1. got'[x][y][k] = got[x][y][k]
        BY <1>k, <2>4 DEF Kept
      <3>2. QED
        BY <1>3, <2>4, <3>1
    <2>5. CASE k \notin 1..Len(got[x][y])
      <3>1. x = p /\ y = r
        BY <2>2, <2>3, <2>5
      <3>2. got[p][r] \in Seq(Procs) /\ got'[p][r] = Append(got[p][r], q)
        BY <1>0, <2>2
      <3>3. k = Len(got[p][r]) + 1 /\ got'[p][r][k] = q
        BY <2>3, <2>5, <3>1, <3>2, AppendLonger
      <3>4. PICK e \in board : /\ e.from = Other(party[p].number, k)
                               /\ e.round = r /\ e.uuid = party[p].uuid /\ e.by = q
        BY <2>1, <3>3 DEF Polls
      <3>5. party[q] = [number |-> Other(party[p].number, k), uuid |-> party[p].uuid]
            /\ r <= round[q]
        BY <3>4 DEF BoardWritten
      <3>6. k \in 1..(Limit - 1)
        BY <1>1, <2>1, <3>2, <3>3, LenProperties DEF Polls
      <3>7. party[p] # NoParty
        BY <2>1, HasNumber DEF Polls
      <3>8. QED
        BY <1>2, <3>1, <3>3, <3>5, <3>6, <3>7
    <2>6. QED
      BY <2>4, <2>5
  <1>6. QED
    BY <1>4, <1>5, OnlyPolls

\* A round is left only when all of its answers are polled.
LEMMA RoundsStep ==
    ASSUME KeyGenInv, [Next]_vars
    PROVE  InRounds'
  <1> USE DEF KeyGenInv
  <1>1. CASE \E p \in Procs, r \in Rounds, to \in 0..Limit : Posts(p, r, to)
    <2>1. PICK p \in Procs, r \in Rounds, to \in 0..Limit : Posts(p, r, to)
      BY <1>1
    <2>2. /\ \A x \in Procs : round[x] \in 0..5
          /\ \A x \in Procs : x # p => round'[x] = round[x]
          /\ round'[p] = r /\ got' = got
          /\ \/ r = round[p] + 1 /\ (round[p] = 0 \/ Polled(p, round[p]))
             \/ r = round[p]
      BY <2>1, Types DEF Posts
    <2>3. QED
      BY <2>2 DEF InRounds, Polled, Rounds
  <1>2. CASE \E p \in Procs, r \in Rounds, q \in Procs : Polls(p, r, q)
    <2>1. PICK p \in Procs, r \in Rounds, q \in Procs : Polls(p, r, q)
      BY <1>2
    <2>2. /\ \A x \in Procs : round[x] \in 0..5
          /\ round' = round /\ r = round[p]
          /\ \A x \in Procs, y \in Rounds : ~(x = p /\ y = r) => got'[x][y] = got[x][y]
      BY <2>1, Types DEF Polls, TypeOK, ClientTypeOK
    <2>3. QED
      BY <2>2 DEF InRounds, Polled, Rounds
  <1>3. CASE UNCHANGED <<round, got>>
    BY <1>3 DEF InRounds, Polled
  <1>4. QED
    BY <1>1, <1>2, <1>3, OnlyPosts, OnlyPolls

-----------------------------------------------------------------------------
(* What a process holds for each party.                                      *)

\* A process that has come to a round has a number of its session.
LEMMA Numbered ==
    ASSUME KeyGenInv, NEW p \in Procs, round[p] > 0
    PROVE  party[p] \in [number : Numbers, uuid : Sessions]
  <1>1. round[p] \in 0..5 /\ party[p] \in PartySignup \cup {NoParty}
    BY Types DEF KeyGenInv
  <1>2. 1 \in 1..round[p]
    BY <1>1
  <1>3. PICK e \in board : e.from = party[p].number
    BY <1>2 DEF KeyGenInv, BoardWritten
  <1>4. e.from \in Numbers
    BY Types DEF KeyGenInv, Entry
  <1>5. party[p] # NoParty
    BY HasNumber
  <1>6. party[p] \in PartySignup
    BY <1>1, <1>5
  <1>7. QED
    BY <1>3, <1>4, <1>6 DEF PartySignup

\* The values of a round that is polled are the own one, and for every other
\* number one of a process that holds the number in the session and has come
\* to the round.
LEMMA ViewAnswers ==
    ASSUME KeyGenInv, NEW p \in Procs, NEW r \in Rounds, round[p] > 0, Polled(p, r)
    PROVE  /\ View(p, r)[party[p].number] = p
           /\ \A i \in Numbers \ {party[p].number} :
                 /\ View(p, r)[i] \in Procs
                 /\ party[View(p, r)[i]] = [number |-> i, uuid |-> party[p].uuid]
                 /\ round[View(p, r)[i]] >= r
  <1> DEFINE n == party[p].number
  <1>1. n \in Numbers /\ Limit \in Nat /\ Numbers = 1..Limit
    BY Numbered, Types DEF KeyGenInv, Numbers
  <1>2. got[p][r] \in Seq(Procs) /\ Len(got[p][r]) = Limit - 1
    <2>1. got \in [Procs -> [Rounds -> Seq(Procs)]]
      BY Types, GotType DEF KeyGenInv, TypeOK, ClientTypeOK
    <2>2. QED
      BY <2>1 DEF Polled
  <1>3. View(p, r)[n] = p
    BY <1>1 DEF View, Assemble
  <1>4. ASSUME NEW i \in Numbers \ {n}
        PROVE  /\ View(p, r)[i] \in Procs
               /\ party[View(p, r)[i]] = [number |-> i, uuid |-> party[p].uuid]
               /\ round[View(p, r)[i]] >= r
    <2> DEFINE k == IF i < n THEN i ELSE i - 1
    <2>1. k \in 1..(Limit - 1) /\ Other(n, k) = i
      BY <1>1 DEF Other
    <2>2. View(p, r)[i] = got[p][r][k]
      BY <1>4 DEF View, Assemble
    <2> HIDE DEF k, n
    <2>3. got[p][r][k] \in Procs /\ k \in 1..Len(got[p][r])
      BY <1>2, <2>1
    <2>4. /\ party[got[p][r][k]] = [number |-> Other(party[p].number, k), uuid |-> party[p].uuid]
          /\ r <= round[got[p][r][k]]
      BY <2>3 DEF KeyGenInv, GotWritten
    <2>5. round[got[p][r][k]] \in 0..5 /\ r \in 1..5
      BY <2>3, Types DEF KeyGenInv, Rounds
    <2>6. QED
      BY <2>1, <2>2, <2>3, <2>4, <2>5 DEF n
  <1>5. QED
    BY <1>3, <1>4

\* The values of a round do not change once the process has left it.
LEMMA ViewKept ==
    ASSUME KeyGenInv, [Next]_vars, NEW p \in Procs, NEW r \in Rounds, r < round[p]
    PROVE  View(p, r)' = View(p, r) /\ party'[p] = party[p]
  <1>1. round[p] > 0
    BY Types DEF KeyGenInv, Rounds
  <1>2. party'[p] = party[p] /\ got'[p][r] = got[p][r]
    BY <1>1, HasNumber, StepKeeps DEF Kept
  <1>3. QED
    BY <1>2 DEF View, Assemble

\* A check that was passed stays so: the values it compared do not change.
LEMMA CheckedStep ==
    ASSUME KeyGenInv, [Next]_vars
    PROVE  Checked'
  <1>0. \A x \in Procs : round[x] \in 0..5 /\ round'[x] \in 0..5
    BY RoundTypes
  <1>1. CASE \E p \in Procs, r \in Rounds, to \in 0..Limit : Posts(p, r, to)
    <2>1. PICK p \in Procs, r \in Rounds, to \in 0..Limit : Posts(p, r, to)
      BY <1>1
    <2>2. got' = got /\ party' = party
      BY <2>1 DEF Posts
    <2>3. \A x : /\ CommitmentsOpen(x)' <=> CommitmentsOpen(x)
                 /\ SharesDecrypt(x)' <=> SharesDecrypt(x)
                 /\ SharesVerify(x)' <=> SharesVerify(x)
      BY <2>2 DEF CommitmentsOpen, SharesDecrypt, SharesVerify, EncKey, bc1_vec, decom_vec,
                  party_shares, vss_scheme_vec, View, Assemble
    <2>4. /\ \A x \in Procs : x # p => round'[x] = round[x]
          /\ round'[p] = r /\ (r = round[p] + 1 \/ r = round[p])
          /\ r = 3 => CommitmentsOpen(p)
          /\ r = 4 => SharesDecrypt(p)
          /\ r = 5 => SharesVerify(p)
      BY <2>1, Types DEF Posts, KeyGenInv
    <2>5. \A x \in Procs : /\ round'[x] >= 3 => CommitmentsOpen(x)
                           /\ round'[x] >= 4 => SharesDecrypt(x)
                           /\ round'[x] >= 5 => SharesVerify(x)
      BY <1>0, <2>4 DEF KeyGenInv, Checked, Rounds
    <2>6. QED
      BY <2>3, <2>5 DEF Checked
  <1>2. CASE UNCHANGED <<board, round>>
    <2>1. SUFFICES ASSUME NEW x \in Procs
                   PROVE  /\ round[x] >= 3 => CommitmentsOpen(x)'
                          /\ round[x] >= 4 => SharesDecrypt(x)'
                          /\ round[x] >= 5 => SharesVerify(x)'
      BY <1>2 DEF Checked
    <2>2. \A r \in Rounds : r < round[x] => View(x, r)' = View(x, r) /\ party'[x] = party[x]
      BY ViewKept
    <2>3. ASSUME round[x] >= 3
          PROVE  CommitmentsOpen(x)'
      <3>1. View(x, 1)' = View(x, 1) /\ View(x, 2)' = View(x, 2)
        BY <1>0, <2>2, <2>3 DEF Rounds
      <3>2. CommitmentsOpen(x)
        BY <2>3 DEF KeyGenInv, Checked
      <3>3. QED
        BY <3>1, <3>2 DEF CommitmentsOpen, bc1_vec, decom_vec
    <2>4. ASSUME round[x] >= 4
          PROVE  SharesDecrypt(x)'
      <3> DEFINE n == party[x].number
      <3>1. View(x, 2)' = View(x, 2) /\ View(x, 3)' = View(x, 3) /\ party'[x] = party[x]
        BY <1>0, <2>2, <2>4 DEF Rounds
      <3>2. ASSUME NEW i \in Numbers \ {n}
            PROVE  EncKey(party_shares(x)[i], n)' = EncKey(x, i)'
        <4>1. 3 < round[x] /\ round[x] > 0 /\ 3 \in Rounds /\ Polled(x, 3)
          BY <1>0, <2>4 DEF KeyGenInv, InRounds, Rounds
        <4>2. PICK q \in Procs : q = View(x, 3)[i] /\ round[q] >= 3
          <5>1. View(x, 3)[i] \in Procs /\ round[View(x, 3)[i]] >= 3
            BY <4>1, ViewAnswers
          <5>2. QED
            BY <5>1
        <4>3. EncKey(q, n) = EncKey(x, i)
          BY <2>4, <4>2 DEF KeyGenInv, Checked, SharesDecrypt, party_shares
        <4>4. View(q, 2)' = View(q, 2)
          <5>1. 2 < round[q] /\ 2 \in Rounds
            BY <1>0, <4>2 DEF Rounds
          <5>2. QED
            BY <5>1, ViewKept
        <4>5. {q, View(q, 2)'[n]} = {x, View(x, 2)'[i]}
          BY <3>1, <4>3, <4>4 DEF EncKey, decom_vec
        <4>6. View(x, 3)'[i] = q /\ n' = n
          BY <3>1, <4>2
        <4>7. QED
          BY <4>5, <4>6 DEF EncKey, party_shares, decom_vec
      <3>3. QED
        BY <3>1, <3>2 DEF SharesDecrypt
    <2>5. ASSUME round[x] >= 5
          PROVE  SharesVerify(x)'
      <3>1. View(x, 2)' = View(x, 2) /\ View(x, 3)' = View(x, 3) /\ View(x, 4)' = View(x, 4)
        BY <1>0, <2>2, <2>5 DEF Rounds
      <3>2. SharesVerify(x)
        BY <2>5 DEF KeyGenInv, Checked
      <3>3. QED
        BY <3>1, <3>2 DEF SharesVerify, vss_scheme_vec, party_shares, decom_vec
    <2>6. QED
      BY <2>3, <2>4, <2>5
  <1>3. QED
    BY <1>1, <1>2, OnlyPosts DEF KeyGenInv

-----------------------------------------------------------------------------
(* The theorems.                                                             *)

\* The inductive invariant holds at the start.
LEMMA InitKeyGen ==
    Init => KeyGenInv
  <1> SUFFICES ASSUME Init PROVE KeyGenInv
    OBVIOUS
  <1> USE DEF Init, ClientInit, BoardInit
  <1>0. Limit \in Nat /\ Limit >= 1 /\ MaxSessions \in Nat /\ MaxSessions >= 1 /\ MaxFaults \in Nat
    BY BoardAssumption, ClientAssumption
  <1>1. TypeOK
    <2>1. signups \subseteq PartySignup /\ latest \in signups
      BY <1>0 DEF PartySignup, Sessions
    <2>2. party \in [Procs -> PartySignup \cup {NoParty}]
      OBVIOUS
    <2>3. got \in [Procs -> [Rounds -> UNION {[1..n -> Procs] : n \in 0..(Limit - 1)}]]
      <3>1. got \in [Procs -> [Rounds -> Seq(Procs)]]
        OBVIOUS
      <3>2. \A p \in Procs, r \in Rounds : Len(got[p][r]) <= Limit - 1
        BY <1>0
      <3>3. QED
        BY <1>0, <3>1, <3>2, GotType
    <2>4. history \in [stale : BOOLEAN, faults : 0..MaxFaults]
      BY <1>0
    <2>5. /\ board \subseteq Entry(Rounds) /\ poisoned \in BOOLEAN
          /\ status \in [Procs -> {"start", "run", "done", "panic"}]
          /\ round \in [Procs -> Rounds \cup {0}]
      OBVIOUS
    <2>6. sent \in [Procs -> 0..(Limit - 1)]
      BY <1>0
    <2> HIDE DEF Init, ClientInit, BoardInit
    <2>7. QED
      BY <2>1, <2>2, <2>3, <2>4, <2>5, <2>6 DEF TypeOK, ClientTypeOK
  <1>2. Joining
    BY DEF Joining
  <1>3. Joined = {}
    BY DEF Joined
  <1>4. SignupsGrow
    <2>1. {v.uuid : v \in signups} = 1..1
      OBVIOUS
    <2>2. \A v \in signups : UpTo(v, latest)
      BY DEF UpTo
    <2>3. QED
      BY <1>3, <2>1, <2>2 DEF SignupsGrow
  <1>5. NumbersUnique
    BY <1>3 DEF NumbersUnique
  <1>6. BoardWritten
    BY DEF BoardWritten
  <1>7. GotWritten
    BY DEF GotWritten
  <1>8. InRounds
    BY DEF InRounds, Rounds
  <1>9. Checked
    BY DEF Checked
  <1>10. QED
    BY <1>1, <1>2, <1>4, <1>5, <1>6, <1>7, <1>8, <1>9 DEF KeyGenInv

\* Every step preserves the inductive invariant.
LEMMA StepKeyGen ==
    KeyGenInv /\ [Next]_vars => KeyGenInv'
  BY TypeStep, JoiningStep, NumbersStep, BoardStep, GotStep, RoundsStep, CheckedStep
  DEF KeyGenInv

\* The inductive invariant holds in every state of generate_key.
THEOREM KeyGenInvariant == Spec => []KeyGenInv
  BY InitKeyGen, StepKeyGen, PTL DEF Spec

\* The ranges of the variables of the server and of the processes.
THEOREM TypesKept == Spec => []TypeOK
  <1>1. KeyGenInv => TypeOK
    BY DEF KeyGenInv
  <1>2. QED
    BY <1>1, KeyGenInvariant, PTL

\* The server's mutex is enough: as long as every sign-up saw the party put
\* before it, no number of a session is given to two processes, whatever
\* answers are lost and whoever crashes.
THEOREM NumbersAreUnique == Spec => []NumbersUnique
  <1>1. KeyGenInv => NumbersUnique
    BY DEF KeyGenInv
  <1>2. QED
    BY <1>1, KeyGenInvariant, PTL

-----------------------------------------------------------------------------
(* Agreement on the key.                                                     *)

\* What a process holds for a number, its own included, was written by a
\* process of that number and session.
LEMMA Holders ==
    ASSUME KeyGenInv, NEW p \in Procs, NEW r \in Rounds, r < round[p]
    PROVE  \A k \in Numbers : /\ View(p, r)[k] \in Procs
                              /\ party[View(p, r)[k]] = [number |-> k, uuid |-> party[p].uuid]
                              /\ round[View(p, r)[k]] >= r
  <1>1. round[p] \in 0..5 /\ round[p] > 0 /\ r \in 1..5
    BY Types DEF KeyGenInv, Rounds
  <1>2. Polled(p, r)
    BY DEF KeyGenInv, InRounds
  <1>3. /\ View(p, r)[party[p].number] = p
        /\ \A i \in Numbers \ {party[p].number} :
              /\ View(p, r)[i] \in Procs
              /\ party[View(p, r)[i]] = [number |-> i, uuid |-> party[p].uuid]
              /\ round[View(p, r)[i]] >= r
    BY <1>1, <1>2, ViewAnswers
  <1>4. party[p] = [number |-> party[p].number, uuid |-> party[p].uuid]
    BY <1>1, Numbered
  <1>5. round[p] >= r
    BY <1>1
  <1>6. QED
    BY <1>3, <1>4, <1>5

\* All vectors of a process in the last round are the same.
LEMMA SameVectors ==
    ASSUME KeyGenInv, NEW p \in Procs, round[p] = 5, NEW k \in Numbers
    PROVE  /\ bc1_vec(p)[k] = decom_vec(p)[k]
           /\ party_shares(p)[k] = decom_vec(p)[k]
           /\ vss_scheme_vec(p)[k] = decom_vec(p)[k]
  <1>1. CommitmentsOpen(p) /\ SharesVerify(p)
    BY DEF KeyGenInv, Checked
  <1>2. QED
    BY <1>1 DEF CommitmentsOpen, SharesVerify

\* Shares that decrypt were encrypted for their receiver, so each counted the
\* other as the holder of its number.
LEMMA MutualShares ==
    KeyGenInv => SharesMutual
  <1> SUFFICES ASSUME KeyGenInv, NEW p \in Procs, status[p] = "done",
                        NEW i \in Numbers \ {party[p].number}
                 PROVE  LET q == decom_vec(p)[i]
                        IN  /\ bc1_vec(p)[i] = q /\ party_shares(p)[i] = q
                            /\ vss_scheme_vec(p)[i] = q
                            /\ party[q] = [number |-> i, uuid |-> party[p].uuid]
                            /\ decom_vec(q)[party[p].number] = p
    BY DEF SharesMutual
  <1> DEFINE q == decom_vec(p)[i]
  <1>2. round[p] = 5
    BY DEF KeyGenInv, Joining
  <1>3. bc1_vec(p)[i] = q /\ party_shares(p)[i] = q /\ vss_scheme_vec(p)[i] = q
    BY <1>2, SameVectors
  <1>4. q \in Procs /\ party[q] = [number |-> i, uuid |-> party[p].uuid]
    <2>1. 2 \in Rounds /\ 2 < round[p]
      BY <1>2 DEF Rounds
    <2>2. QED
      BY <2>1, Holders DEF decom_vec
  <1>5. q # p
    BY <1>4
  <1>6. {q, decom_vec(q)[party[p].number]} = {p, q}
    BY <1>2, <1>3 DEF KeyGenInv, Checked, SharesDecrypt, EncKey
  <1>7. decom_vec(q)[party[p].number] = p
    BY <1>5, <1>6
  <1>8. QED
    BY <1>3, <1>4, <1>7

\* The public parts in a key file are those that the only holder of a number
\* of the session holds.
LEMMA ThroughSole ==
    ASSUME KeyGenInv, NEW p \in Procs, round[p] = 5,
           NEW i \in Numbers, Sole(party[p].uuid, i),
           NEW x \in Procs, party[x] = [number |-> i, uuid |-> party[p].uuid],
           NEW k \in Numbers
    PROVE  decom_vec(p)[k] = decom_vec(x)[k]
  <1>0. \A y \in Procs : party[y] = [number |-> i, uuid |-> party[p].uuid] => y = x
    BY DEF Sole
  <1>1. PICK z : z = decom_vec(p)[k]
    OBVIOUS
  <1>2. z \in Procs /\ party[z] = [number |-> k, uuid |-> party[p].uuid]
    <2>1. 2 \in Rounds /\ 2 < round[p]
      BY DEF Rounds
    <2>2. QED
      BY <1>1, <2>1, Holders DEF decom_vec
  <1>3. CASE k = i
    <2>1. z = x
      BY <1>0, <1>2, <1>3
    <2>2. decom_vec(x)[k] = x
      BY <1>3 DEF decom_vec, View, Assemble
    <2>3. QED
      BY <1>1, <2>1, <2>2
  <1>4. CASE k # i
    <2>1. z = vss_scheme_vec(p)[k]
      BY <1>1, SameVectors
    <2>2. round[z] >= 4
      <3>1. 4 \in Rounds /\ 4 < round[p]
        BY DEF Rounds
      <3>2. QED
        BY <2>1, <3>1, Holders DEF vss_scheme_vec
    <2>3. round[z] \in 0..5
      BY <1>2, Types DEF KeyGenInv
    <2>4. 2 \in Rounds /\ 2 < round[z] /\ 3 \in Rounds /\ 3 < round[z]
      BY <2>2, <2>3 DEF Rounds
    <2>5. /\ View(z, 2)[i] \in Procs
          /\ party[View(z, 2)[i]] = [number |-> i, uuid |-> party[z].uuid]
      BY <1>2, <2>4, Holders
    <2>6. /\ View(z, 3)[i] \in Procs
          /\ party[View(z, 3)[i]] = [number |-> i, uuid |-> party[z].uuid]
      BY <1>2, <2>4, Holders
    <2>7. decom_vec(z)[i] = x /\ party_shares(z)[i] = x
      BY <1>0, <1>2, <2>5, <2>6 DEF decom_vec, party_shares
    <2>8. SharesDecrypt(z)
      BY <1>2, <2>2 DEF KeyGenInv, Checked
    <2>9. {x, decom_vec(x)[k]} = {z, x}
      BY <1>2, <1>4, <2>7, <2>8 DEF SharesDecrypt, EncKey
    <2>10. z # x
      BY <1>2, <1>4
    <2>11. QED
      BY <1>1, <2>9, <2>10
  <1>5. QED
    BY <1>3, <1>4

\* Key files agree through the holder of the number that was given once.
LEMMA AgreeingKeys ==
    KeyGenInv => KeysAgree
  <1> SUFFICES ASSUME KeyGenInv, NEW p \in Procs, NEW q \in Procs,
                        status[p] = "done", status[q] = "done",
                        party[p].uuid = party[q].uuid,
                        NEW i \in Numbers, Sole(party[p].uuid, i)
                 PROVE  /\ decom_vec(p) = decom_vec(q)
                        /\ bc1_vec(p) = bc1_vec(q)
                        /\ vss_scheme_vec(p) = vss_scheme_vec(q)
    BY DEF KeysAgree
  <1>2. round[p] = 5 /\ round[q] = 5
    BY DEF KeyGenInv, Joining
  <1>3. PICK x \in Procs : party[x] = [number |-> i, uuid |-> party[p].uuid]
    <2>1. 2 \in Rounds /\ 2 < round[p]
      BY <1>2 DEF Rounds
    <2>2. QED
      BY <2>1, Holders
  <1>4. ASSUME NEW k \in Numbers
        PROVE  decom_vec(p)[k] = decom_vec(q)[k]
    <2>1. decom_vec(p)[k] = decom_vec(x)[k]
      BY <1>2, <1>3, ThroughSole
    <2>2. decom_vec(q)[k] = decom_vec(x)[k]
      BY <1>2, <1>3, ThroughSole
    <2>3. QED
      BY <2>1, <2>2
  <1>5. \A k \in Numbers : /\ bc1_vec(p)[k] = bc1_vec(q)[k]
                           /\ vss_scheme_vec(p)[k] = vss_scheme_vec(q)[k]
    BY <1>2, <1>4, SameVectors
  <1>6. QED
    BY <1>4, <1>5 DEF decom_vec, bc1_vec, vss_scheme_vec, View, Assemble

\* A key file contains shares of exactly the processes whose public parts make
\* up its public key, each of which counted its owner as the holder of its
\* number, however many sign-ups were stale.
THEOREM SharesAreMutual == Spec => []SharesMutual
  BY MutualShares, KeyGenInvariant, PTL

\* Key files of a session agree if one of its numbers was not given twice,
\* however many parties there are and whatever the others hold.
THEOREM KeysDoAgree == Spec => []KeysAgree
  BY AgreeingKeys, KeyGenInvariant, PTL

-----------------------------------------------------------------------------
(* generate_key implements the round barrier.                                *)

\* The rounds that the holders of number i of session s have posted.
RoundsOf(s, i) == {e.round : e \in {b \in board : b.from = i /\ b.uuid = s}}

\* The greatest of a set of rounds.
Greatest(R) == IF R = {} THEN 0 ELSE 1 + (CHOOSE r \in R : \A q \in R : q <= r) - 1

\* The level of a number is its greatest round, in both states of a step.
LEMMA PostedGreatest ==
    ASSUME NEW s, NEW i
    PROVE  /\ Posted(s, i, 1) = Greatest(RoundsOf(s, i))
           /\ Posted(s, i, 1)' = Greatest(RoundsOf(s, i)')
  BY DEF Posted, Greatest, RoundsOf

\* A nonempty set of rounds has a greatest.
LEMMA LastOf ==
    ASSUME NEW S \in SUBSET (1..5), S # {}
    PROVE  \E r \in S : \A q \in S : q <= r
  <1>1. CASE 5 \in S
    BY <1>1
  <1>2. CASE 5 \notin S /\ 4 \in S
    BY <1>2
  <1>3. CASE 5 \notin S /\ 4 \notin S /\ 3 \in S
    BY <1>3
  <1>4. CASE 5 \notin S /\ 4 \notin S /\ 3 \notin S /\ 2 \in S
    BY <1>4
  <1>5. CASE 5 \notin S /\ 4 \notin S /\ 3 \notin S /\ 2 \notin S
    <2>1. \A q \in S : q = 1
      BY <1>5
    <2>2. PICK r \in S : TRUE
      OBVIOUS
    <2>3. QED
      BY <2>1, <2>2
  <1>6. QED
    BY <1>1, <1>2, <1>3, <1>4, <1>5

\* The level of a number that posted the first m rounds is m.
LEMMA GreatestOfInterval ==
    ASSUME NEW m \in Nat \ {0}
    PROVE  Greatest(1..m) = m
  <1>1. m \in 1..m /\ \A q \in 1..m : q <= m
    OBVIOUS
  <1>2. \A r \in 1..m : (\A q \in 1..m : q <= r) => r = m
    BY <1>1
  <1>3. (CHOOSE r \in 1..m : \A q \in 1..m : q <= r) = m
    BY <1>1, <1>2
  <1>4. QED
    BY <1>1, <1>3 DEF Greatest

\* A process has posted all rounds up to its own.
LEMMA PostedUpTo ==
    ASSUME KeyGenInv, NEW p \in Procs
    PROVE  1..round[p] \subseteq RoundsOf(party[p].uuid, party[p].number)
  <1>1. SUFFICES ASSUME NEW r \in 1..round[p]
                 PROVE  r \in RoundsOf(party[p].uuid, party[p].number)
    OBVIOUS
  <1>2. PICK e \in board : /\ e.from = party[p].number /\ e.uuid = party[p].uuid
                           /\ e.round = r
    BY DEF KeyGenInv, BoardWritten
  <1>3. QED
    BY <1>2 DEF RoundsOf

\* The rounds posted for a number are the first Posted ones.
LEMMA PostedIsLast ==
    ASSUME KeyGenInv, NEW s, NEW i
    PROVE  /\ Posted(s, i, 1) \in 0..5
           /\ RoundsOf(s, i) = 1..Posted(s, i, 1)
  <1> DEFINE R == RoundsOf(s, i)
             m == CHOOSE r \in R : \A q \in R : q <= r
  <1>1. R \in SUBSET (1..5)
    BY Types DEF KeyGenInv, RoundsOf, Entry, Rounds
  <1>2. Posted(s, i, 1) = IF R = {} THEN 0 ELSE 1 + m - 1
    BY DEF Posted, RoundsOf
  <1>3. \A r \in R : 1..r \subseteq R
    <2>1. SUFFICES ASSUME NEW r \in R
                   PROVE  1..r \subseteq R
      OBVIOUS
    <2>2. PICK e \in board : e.from = i /\ e.uuid = s /\ e.round = r
      BY DEF RoundsOf
    <2>3. /\ party[e.by] = [number |-> i, uuid |-> s]
          /\ r <= round[e.by]
      BY <2>2 DEF KeyGenInv, BoardWritten
    <2>4. e.by \in Procs
      BY Types DEF KeyGenInv, Entry
    <2>5. round[e.by] \in 0..5 /\ r \in 1..5
      BY <1>1, <2>4, Types DEF KeyGenInv
    <2>6. 1..round[e.by] \subseteq R
      BY <2>3, <2>4, PostedUpTo
    <2>7. QED
      BY <2>3, <2>5, <2>6
  <1> HIDE DEF R
  <1>4. CASE R = {}
    BY <1>2, <1>4 DEF R
  <1>5. CASE R # {}
    <2>1. m \in R /\ \A q \in R : q <= m
      BY <1>1, <1>5, LastOf
    <2> HIDE DEF m
    <2>2. m \in 1..5
      BY <1>1, <2>1
    <2>3. 1..m \subseteq R
      BY <1>3, <2>1
    <2>4. R \subseteq 1..m
      BY <1>1, <2>1, <2>2
    <2>5. R = 1..m
      BY <2>3, <2>4
    <2>6. Posted(s, i, 1) = m
      BY <1>2, <1>5, <2>2
    <2>7. QED
      BY <2>2, <2>5, <2>6 DEF R
  <1>6. QED
    BY <1>4, <1>5

\* Every step of generate_key is a step of the barrier or changes no level.
LEMMA BarrierStep ==
    ASSUME KeyGenInv, [Next]_vars
    PROVE  [Barrier!Next]_([s \in Sessions |-> [i \in Numbers |-> Posted(s, i, 1)]])
  <1> DEFINE level == [s \in Sessions |-> [i \in Numbers |-> Posted(s, i, 1)]]
  <1>1. CASE UNCHANGED board
    <2>1. level' = level
      BY <1>1 DEF Posted
    <2>2. QED
      BY <2>1
  <1>2. CASE \E p \in Procs, r \in Rounds, to \in 0..Limit : Posts(p, r, to)
    <2>1. PICK p \in Procs, r \in Rounds, to \in 0..Limit : Posts(p, r, to)
      BY <1>2
    <2>2. PICK n \in Numbers, u \in Sessions : party[p] = [number |-> n, uuid |-> u]
      BY <2>1 DEF Posts, KeyGenInv, Joining
    <2>3. PICK m \in 0..5 : m = Posted(u, n, 1) /\ RoundsOf(u, n) = 1..m
      BY PostedIsLast
    <2>4. /\ board' = board \cup {Message(p, r, to)}
          /\ \/ r = round[p] + 1 /\ (round[p] = 0 \/ Polled(p, round[p]))
             \/ r = round[p]
      BY <2>1 DEF Posts
    <2>5. /\ Message(p, r, to).from = n /\ Message(p, r, to).uuid = u
          /\ Message(p, r, to).round = r
      BY <2>2 DEF Message
    <2>6. \A s, i : ~(s = u /\ i = n) => RoundsOf(s, i)' = RoundsOf(s, i)
      BY <2>4, <2>5 DEF RoundsOf
    <2>7. RoundsOf(u, n)' = (1..m) \cup {r}
      BY <2>3, <2>4, <2>5 DEF RoundsOf
    <2>8. round[p] \in 0..5 /\ r \in 1..5
      BY Types DEF KeyGenInv, Rounds
    <2>9. round[p] <= m
      <3>1. 1..round[p] \subseteq 1..m
        BY <2>2, <2>3, PostedUpTo
      <3>2. QED
        BY <2>3, <2>8, <3>1
    <2>10. \A s, i : RoundsOf(s, i)' = RoundsOf(s, i) => Posted(s, i, 1)' = Posted(s, i, 1)
      BY PostedGreatest
    <2>11. CASE r <= m
      <3>1. RoundsOf(u, n)' = RoundsOf(u, n)
        BY <2>3, <2>7, <2>8, <2>11
      <3>2. \A s \in Sessions, i \in Numbers : Posted(s, i, 1)' = Posted(s, i, 1)
        BY <2>6, <2>10, <3>1
      <3>3. level' = level
        BY <3>2
      <3>4. QED
        BY <3>3
    <2>12. CASE r > m
      <3>1. r = m + 1 /\ round[p] = m /\ m < 5 /\ (m = 0 \/ Polled(p, m))
        BY <2>4, <2>8, <2>9, <2>12
      <3>2. ASSUME NEW j \in Numbers
            PROVE  Posted(u, j, 1) >= m
        <4>0. Posted(u, j, 1) \in 0..5 /\ RoundsOf(u, j) = 1..Posted(u, j, 1)
          BY PostedIsLast
        <4>1. CASE m = 0
          BY <4>0, <4>1
        <4>2. CASE j = n
          BY <2>3, <4>2
        <4>3. CASE m # 0 /\ j # n
          <5>1. m \in Rounds /\ round[p] > 0 /\ Polled(p, m) /\ j \in Numbers \ {party[p].number}
            BY <2>2, <3>1, <4>3 DEF Rounds
          <5>2. PICK q : q = View(p, m)[j]
            OBVIOUS
          <5>3. q \in Procs /\ party[q] = [number |-> j, uuid |-> u] /\ round[q] >= m
            BY <2>2, <5>1, <5>2, ViewAnswers
          <5>4. 1..round[q] \subseteq 1..Posted(u, j, 1)
            BY <4>0, <5>3, PostedUpTo
          <5>5. round[q] \in 0..5
            BY <5>3, Types DEF KeyGenInv
          <5>6. QED
            BY <4>0, <5>3, <5>4, <5>5
        <4>4. QED
          BY <4>1, <4>2, <4>3
      <3>3. Posted(u, n, 1)' = m + 1
        <4>1. RoundsOf(u, n)' = 1..(m + 1)
          BY <2>7, <3>1
        <4>2. Greatest(1..(m + 1)) = m + 1
          BY <3>1, GreatestOfInterval
        <4>3. QED
          BY <4>1, <4>2, PostedGreatest
      <3>4. \A s \in Sessions, i \in Numbers :
               Posted(s, i, 1)' = IF s = u /\ i = n THEN m + 1 ELSE Posted(s, i, 1)
        BY <2>6, <2>10, <3>3
      <3>5. level' = [level EXCEPT ![u][n] = @ + 1]
        BY <2>3, <3>4
      <3>6. level[u][n] < 5 /\ \A j \in Numbers : level[u][j] >= level[u][n]
        BY <2>3, <3>1, <3>2
      <3>7. Barrier!Post(u, n)
        BY <3>5, <3>6 DEF Barrier!Post
      <3>8. QED
        BY <3>7 DEF Barrier!Next
    <2>13. QED
      BY <2>3, <2>8, <2>11, <2>12
  <1>3. QED
    BY <1>1, <1>2, OnlyPosts DEF KeyGenInv

\* generate_key implements the round barrier: no process posts the message of
\* a round before every number of its session has posted that of the round
\* before, however many processes hold a number.
THEOREM BarrierImplemented == Spec => ImplementsBarrier
  <1>1. Init => Barrier!Init
    BY DEF Init, ClientInit, BoardInit, Barrier!Init, Posted
  <1>2. KeyGenInv /\ [Next]_vars
        => [Barrier!Next]_([s \in Sessions |-> [i \in Numbers |-> Posted(s, i, 1)]])
    BY BarrierStep
  <1>3. QED
    BY <1>1, <1>2, KeyGenInvariant, PTL DEF Spec, ImplementsBarrier, Barrier!Spec

=============================================================================
