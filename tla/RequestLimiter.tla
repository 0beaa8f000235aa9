---------------------------- MODULE RequestLimiter ----------------------------
(***************************************************************************)
(* Authentication::RequestLimiter: a request for a sign-in link is counted *)
(* for its email and for its address.  One transaction takes the advisory  *)
(* locks of both, counts the attempts of the window that ends when the     *)
(* request was received, and records another.  The clock goes on while a   *)
(* request waits for its locks.                                            *)
(***************************************************************************)
EXTENDS Naturals, Sequences, FiniteSets

CONSTANTS
    Emails, Ips,    \* who asks, and from where
    MaxPerEmail, MaxPerIp, Window,
    Threads,        \* server threads
    MaxTime         \* bound on the clock

LimiterAssumption ==
    /\ "none" \notin Emails \cup Ips
    /\ MaxPerEmail \in Nat /\ MaxPerIp \in Nat /\ Window \in Nat /\ MaxTime \in Nat

VARIABLES
    clock,
    attempts,   \* authentication_request_attempts
    asked       \* what each thread is doing

limiterVars == <<clock, attempts, asked>>

Row == [email : Emails, ip : Ips \cup {"none"}, at : 0..MaxTime]

NoRequest == [pc |-> "idle", email |-> "none", ip |-> "none", now |-> 0]

LimiterTypeOK ==
    /\ clock \in 0..MaxTime
    /\ attempts \in Seq(Row)
    /\ \A i \in DOMAIN attempts : attempts[i].at <= clock
    /\ asked \in [Threads -> [pc : {"idle", "email", "ip", "count", "create"},
                              email : Emails \cup {"none"}, ip : Ips \cup {"none"},
                              now : 0..MaxTime]]

LimiterInit == clock = 0 /\ attempts = <<>> /\ asked = [r \in Threads |-> NoRequest]

\* Mutant: the second lock is not waited for.
HoldsEmailOnly(r, key) == asked[r].pc \in {"ip", "count", "create"} /\ key = asked[r].email

\* The keys sort as auth-email before auth-ip; both are held to the end.
Holds(r, key) == \/ asked[r].pc \in {"ip", "count", "create"} /\ key = asked[r].email
                 \/ asked[r].pc \in {"count", "create"} /\ key = asked[r].ip

\* Mutant: the locks of a session outlive the transaction of a refused request.
IsFreeOfSession(key) ==
    /\ \A r \in Threads : ~Holds(r, key)
    /\ Cardinality({i \in DOMAIN attempts : attempts[i].email = key}) < MaxPerEmail

IsFree(key) == \A r \in Threads : ~Holds(r, key)

\* created_at: cutoff.., without an end.
InWindow(a, now) == a.at + Window >= now

Recent(now) == {i \in DOMAIN attempts : InWindow(attempts[i], now)}

OfEmail(now, email) == Cardinality({i \in Recent(now) : attempts[i].email = email})
OfIp(now, ip) == Cardinality({i \in Recent(now) : attempts[i].ip = ip})

Allowed(q) ==
    /\ OfEmail(q.now, q.email) < MaxPerEmail
    /\ q.ip # "none" => OfIp(q.now, q.ip) < MaxPerIp
-----------------------------------------------------------------------------
Now == clock

Receive(r, email, ip) ==
    /\ asked[r].pc = "idle"
    /\ asked' = [asked EXCEPT ![r] = [pc |-> "email", email |-> email, ip |-> ip, now |-> Now]]
    /\ UNCHANGED <<clock, attempts>>

LockEmail(r) ==
    /\ asked[r].pc = "email" /\ IsFree(asked[r].email)
    /\ asked' = [asked EXCEPT ![r].pc = IF asked[r].ip = "none" THEN "count" ELSE "ip"]
    /\ UNCHANGED <<clock, attempts>>

LockIp(r) ==
    /\ asked[r].pc = "ip" /\ IsFree(asked[r].ip)
    /\ asked' = [asked EXCEPT ![r].pc = "count"]
    /\ UNCHANGED <<clock, attempts>>

\* The attempts are counted; a request over a budget is answered like any other.
Count(r) ==
    /\ asked[r].pc = "count"
    /\ asked' = [asked EXCEPT ![r] = IF Allowed(@) THEN [@ EXCEPT !.pc = "create"] ELSE NoRequest]
    /\ UNCHANGED <<clock, attempts>>

\* Another one is recorded, with the time at which the request was received.
RecordAttempt(r) ==
    /\ asked[r].pc = "create"
    /\ attempts' = Append(attempts, [email |-> asked[r].email, ip |-> asked[r].ip,
                                     at |-> asked[r].now])
    /\ asked' = [asked EXCEPT ![r] = NoRequest]
    /\ UNCHANGED clock

Tick == clock < MaxTime /\ clock' = clock + 1 /\ UNCHANGED <<attempts, asked>>

LimiterStep(r) == LockEmail(r) \/ LockIp(r) \/ Count(r) \/ RecordAttempt(r)

LimiterNext ==
    \/ \E r \in Threads :
         \/ \E email \in Emails, ip \in Ips \cup {"none"} : Receive(r, email, ip)
         \/ LimiterStep(r)
    \/ Tick

LimiterSpec == LimiterInit /\ [][LimiterNext]_limiterVars

-----------------------------------------------------------------------------
\* No window of fifteen minutes, wherever it begins, holds more attempts than
\* the budget of an email or of an address, however late a request is counted.
From(s) == {i \in DOMAIN attempts : attempts[i].at \in s..(s + Window)}

WithinBudgets ==
    \A s \in 0..clock :
        /\ \A email \in Emails :
             Cardinality({i \in From(s) : attempts[i].email = email}) <= MaxPerEmail
        /\ \A ip \in Ips : Cardinality({i \in From(s) : attempts[i].ip = ip}) <= MaxPerIp

BudgetsHold == LimiterTypeOK /\ WithinBudgets

\* What it rests on: nobody holds a lock that another one holds, and what a
\* request has counted is still so when it records its attempt.
LocksApart ==
    \A q, r \in Threads : \A key \in Emails \cup Ips : Holds(q, key) /\ Holds(r, key) => q = r

\* A request is one of somebody, from before now.
RequestsSound ==
    \A r \in Threads : asked[r].pc # "idle" =>
        /\ asked[r].email \in Emails /\ asked[r].now <= clock
        /\ asked[r].pc = "ip" => asked[r].ip # "none"

CountStands == \A r \in Threads : asked[r].pc = "create" => Allowed(asked[r])

LimiterInv == LimiterTypeOK /\ RequestsSound /\ LocksApart /\ CountStands /\ WithinBudgets
=============================================================================
