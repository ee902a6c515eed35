----------------------------- MODULE IPHistory ------------------------------
(***************************************************************************)
(* What the server remembers of the addresses that connect to it           *)
(* (HistoryIP, IPHistoryManager) and the three places that count on it:    *)
(* acceptNewConnection() admits or rejects a connection, CClient counts    *)
(* itself in when it is made, when it becomes a full connection and when   *)
(* it is deleted, and the administrator bans and unbans.                   *)
(*                                                                         *)
(* One round of Sphere_OnTick is WorldTick, Accept, Input, NetTick.  A     *)
(* client is cleared by NetTick but deleted by the next WorldTick that is  *)
(* not skipped, and it is counted out at the address its slot has by then. *)
(* Time is counted in seconds of the world clock; a ban carries the        *)
(* seconds it has left.                                                    *)
(***************************************************************************)
EXTENDS Integers, FiniteSets

CONSTANTS
    IPs,                \* the addresses that connect
    NoAddress,          \* m_peerAddress of a slot that was never used
    NSlots,             \* connection slots
    ConnectingMaxIP, ClientMaxIP, MaxPings, MaxConnectRequestsPerIP,
    NetTTL,             \* seconds an address is remembered
    FirstWait, PingWait,\* seconds between ping decays: of a new entry, and later
    BanTimes,           \* seconds of the bans that end: BAN_TIMEOUT, and what
                        \* scripts and commands ask for
    Asserts,            \* assertions are compiled in (debug and nightly builds)
    MaySkip,            \* WorldTick may be skipped: loading, resync, same millisecond
    FullTypes,          \* connections that never become game connections occur
    MaxTries            \* bound on the attempts of addresses that are not banned;
                        \* a banned one tries as often as it likes

ASSUME ConstantsAssumption ==
    /\ IsFiniteSet(IPs) /\ NoAddress \notin IPs
    /\ {NSlots, ConnectingMaxIP, ClientMaxIP, MaxPings, MaxConnectRequestsPerIP} \subseteq Nat
    /\ {NetTTL, FirstWait, PingWait, MaxTries} \subseteq Nat
    /\ BanTimes \subseteq Nat /\ IsFiniteSet(BanTimes)
    /\ {Asserts, MaySkip, FullTypes} \subseteq BOOLEAN

Slots == 1..NSlots

\* The connection types this model tells apart.  "CRYPT" stands for LOGIN too;
\* "FULL" for HTTP, TELNET, UOG and AXIS; "ANSWERED" is CONNECT_UNK again,
\* after a status request was answered as TELNET or UOG.
Types == {"UNK", "CRYPT", "FULL", "ANSWERED", "GAME"}

\* Seconds a ban has left: Forever is m_iBlockExpireMs = 0, and a ban of n
\* seconds is over when the clock has moved past its end.
Forever == -1
Timed(n) == n + 1

VARIABLES
    hist, known,    \* m_ips: the entries, and the addresses that have one
    due,            \* a second passed since the last decay
    slot,           \* per slot: its connection (0: free), the type, m_peerAddress
    doomed,         \* m_ObjSpecialDelete
    tries, nconn,   \* connections attempted unbanned, and accepted
    stage           \* what the main loop does next

vars == <<hist, known, due, slot, doomed, tries, nconn, stage>>

-----------------------------------------------------------------------------
(* HistoryIP *)

Fresh ==
    [ttl |-> NetTTL, pings |-> 0, wait |-> FirstWait, requests |-> 0,
     pending |-> 0, alive |-> 0, blocked |-> FALSE, left |-> Forever]

\* setBlocked(): f_onserver_blockip may have changed the timeout before
Blocked(h, left) == [h EXCEPT !.blocked = TRUE, !.left = left]
Unblocked(h)     == [h EXCEPT !.blocked = FALSE, !.left = Forever]

\* checkPing(): a blocked address is not pinged
Pinged(h) ==
    [h EXCEPT !.ttl = NetTTL, !.pings = IF h.blocked THEN @ ELSE @ + 1]

TooManyPings(h) == h.blocked \/ h.pings >= MaxPings

\* Mutants of Ticked(): the ping count has no floor; an entry is forgotten while
\* connections are alive; a ban never expires; the time to live stops at 0
TickedNoFloor(h) ==
    IF h.blocked
      THEN IF h.left = 0 THEN Unblocked(h) ELSE h
      ELSE IF ~due THEN h
      ELSE LET idle  == h.alive = 0 /\ h.pending = 0 /\ h.ttl >= 0
           IN  [h EXCEPT
                    !.ttl   = IF idle THEN @ - 1 ELSE @,
                    !.pings = IF h.wait = 0 THEN @ - 1 ELSE @,
                    !.wait  = IF h.wait = 0 THEN PingWait ELSE @ - 1]

TickedNotAlive(h) ==
    IF h.blocked
      THEN IF h.left = 0 THEN Unblocked(h) ELSE h
      ELSE IF due /\ h.pending = 0 /\ h.ttl >= 0 THEN [h EXCEPT !.ttl = @ - 1] ELSE h

TickedBanStays(h) ==
    IF ~h.blocked /\ due /\ h.alive = 0 /\ h.pending = 0 /\ h.ttl >= 0
      THEN [h EXCEPT !.ttl = @ - 1]
      ELSE h


\* the entry's share of IPHistoryManager::tick()
Ticked(h) ==
    IF h.blocked
      THEN IF h.left = 0 THEN Unblocked(h) ELSE h
      ELSE IF ~due THEN h
      ELSE LET idle  == h.alive = 0 /\ h.pending = 0 /\ h.ttl >= 0
               drops == h.pings > 0 /\ h.wait = 0
           IN  [h EXCEPT
                    !.ttl   = IF idle THEN @ - 1 ELSE @,
                    !.pings = IF drops THEN @ - 1 ELSE @,
                    !.wait  = IF drops THEN PingWait ELSE IF h.pings > 0 THEN @ - 1 ELSE @]

\* the world clock moved on by a second
Older(h) == IF h.blocked /\ h.left > 0 THEN [h EXCEPT !.left = @ - 1] ELSE h

\* getHistoryForIP() makes an entry for an address that has none; hist keeps
\* Fresh for those.
Remember(ip) == known' = known \cup {ip}

-----------------------------------------------------------------------------
Init ==
    /\ hist = [ip \in IPs |-> Fresh] /\ known = {}
    /\ due = FALSE
    /\ slot = [s \in Slots |-> [conn |-> 0, type |-> "UNK", peer |-> NoAddress]]
    /\ doomed = {}
    /\ tries = 0 /\ nconn = 0
    /\ stage = "world"

Live == {s \in Slots : slot[s].conn # 0}

\* Mutant of CountedOut(): every client is taken for one that was pending
CountedOutAllPending(dead, ip) ==
    LET here == {d \in dead : slot[d.slot].peer = ip}
    IN  [hist[ip] EXCEPT
            !.alive   = @ - Cardinality(here),
            !.pending = @ - Cardinality(here)]

\* ~CClient of the clients in dead, one after the other: each takes itself out
\* of the history of its slot's address, as it is now
CountedOut(dead, ip) ==
    LET here  == {d \in dead : slot[d.slot].peer = ip}
        early == Cardinality({d \in here : d.type # "GAME"})
        h     == hist[ip]
    IN  [h EXCEPT
            !.alive   = @ - Cardinality(here),
            !.pending = IF ~Asserts        THEN @ - early
                        ELSE IF @ <= 0     THEN @       \* the assertion throws
                        ELSE IF @ < early  THEN 0
                        ELSE @ - early]

\* CWorld::_OnTick(): the clock moves, the scheduled clients are deleted
WorldTick ==
    /\ stage = "world"
    /\ \E second \in BOOLEAN :
         /\ due' = (due \/ second)
         /\ hist' = [ip \in IPs |-> IF second THEN Older(CountedOut(doomed, ip))
                                              ELSE CountedOut(doomed, ip)]
    /\ known' = known \cup {slot[d.slot].peer : d \in doomed}
    /\ doomed' = {}
    /\ stage' = "accept"
    /\ UNCHANGED <<slot, tries, nconn>>

\* it returned early
WorldSkip ==
    /\ MaySkip /\ stage = "world"
    /\ stage' = "accept"
    /\ UNCHANGED <<hist, known, due, slot, doomed, tries, nconn>>

-----------------------------------------------------------------------------
(* CNetworkManager::acceptNewConnection() *)

AcceptNone ==
    /\ stage = "accept" /\ stage' = "input"
    /\ UNCHANGED <<hist, known, due, slot, doomed, tries, nconn>>

\* m_iConnectionRequests is only compared with MaxConnectRequestsPerIP, and is
\* counted no further than that.
Requested(ip) ==
    [hist[ip] EXCEPT !.requests = IF @ < MaxConnectRequestsPerIP THEN @ + 1 ELSE @]

\* Mutant of Refused(): the limit on open connections is not checked
RefusedNoClientMax(h) ==
    \/ TooManyPings(h)
    \/ ConnectingMaxIP > 0 /\ h.pending > ConnectingMaxIP
    \/ MaxConnectRequestsPerIP > 0 /\ h.requests >= MaxConnectRequestsPerIP

Refused(h) ==
    \/ TooManyPings(h)
    \/ ConnectingMaxIP > 0 /\ h.pending > ConnectingMaxIP
    \/ ClientMaxIP > 0 /\ h.alive > ClientMaxIP
    \/ MaxConnectRequestsPerIP > 0 /\ h.requests >= MaxConnectRequestsPerIP

Attempt(ip) ==
    /\ stage = "accept"
    /\ IF hist[ip].blocked THEN tries' = tries
                           ELSE tries < MaxTries /\ tries' = tries + 1
    /\ Remember(ip)
    /\ stage' = "input"
    /\ UNCHANGED <<due, doomed>>

\* f_onserver_connectreq_ex lets it pass, rejects it, or (by default) has the
\* address banned
Reject(ip) ==
    /\ Attempt(ip)
    /\ Refused(Requested(ip))
    /\ \/ hist' = [hist EXCEPT ![ip] = Pinged(Requested(ip))]
       \/ \E left \in {Forever} \cup {Timed(n) : n \in BanTimes} :
            hist' = [hist EXCEPT ![ip] = Blocked(Pinged(Requested(ip)), left)]
    /\ UNCHANGED <<slot, nconn>>

\* CLIENTMAX reached
NoSlot(ip) ==
    /\ Attempt(ip)
    /\ ~Refused(Requested(ip))
    /\ Live = Slots
    /\ hist' = [hist EXCEPT ![ip] = Pinged(Requested(ip))]
    /\ UNCHANGED <<slot, nconn>>

\* CNetState::init() in a free slot; the constructor of CClient counts it in
Accept(ip) ==
    /\ Attempt(ip)
    /\ ~Refused(Requested(ip))
    /\ nconn' = nconn + 1
    /\ \E s \in Slots \ Live :
         slot' = [slot EXCEPT ![s] = [conn |-> nconn', type |-> "UNK", peer |-> ip]]
    /\ LET h == Pinged(Requested(ip))
       IN  hist' = [hist EXCEPT ![ip] = [h EXCEPT !.pending = @ + 1, !.alive = @ + 1]]

-----------------------------------------------------------------------------
(* processAllInput(): the connection types, and the administrator's commands *)

\* CClient::SetConnectType()
SetConnectType(s, type, counts) ==
    /\ stage = "input" /\ s \in Live
    /\ slot' = [slot EXCEPT ![s].type = type]
    /\ hist' = [hist EXCEPT ![slot[s].peer].pending = IF counts THEN @ - 1 ELSE @]
    /\ known' = known \cup (IF counts THEN {slot[s].peer} ELSE {})
    /\ UNCHANGED <<due, doomed, tries, nconn, stage>>

\* an encrypted client, and back when it turns out to send pings
Login(s)    == slot[s].type = "UNK"   /\ SetConnectType(s, "CRYPT", FALSE)
NotLogin(s) == slot[s].type = "CRYPT" /\ SetConnectType(s, "UNK", FALSE)

\* it plays: CONNECT_GAME
Play(s) == slot[s].type = "CRYPT" /\ SetConnectType(s, "GAME", TRUE)

\* a web page request, a telnet or Axis console
Console(s) == FullTypes /\ slot[s].type = "UNK" /\ SetConnectType(s, "FULL", TRUE)

\* a status request: TELNET (UOG) to answer it, CONNECT_UNK again
Status(s) == FullTypes /\ slot[s].type = "UNK" /\ SetConnectType(s, "ANSWERED", TRUE)

\* BLOCKIP and the [BLOCKIP] section, UNBLOCKIP
Command(ip, h) ==
    /\ stage = "input"
    /\ hist' = [hist EXCEPT ![ip] = h]
    /\ Remember(ip)
    /\ UNCHANGED <<due, slot, doomed, tries, nconn, stage>>

BlockIP(ip) ==
    \E left \in {Forever} \cup {Timed(n) : n \in BanTimes} :
        Command(ip, Blocked(hist[ip], left))

UnblockIP(ip) == Command(ip, Unblocked(hist[ip]))

InputDone ==
    /\ stage = "input" /\ stage' = "tick"
    /\ UNCHANGED <<hist, known, due, slot, doomed, tries, nconn>>

-----------------------------------------------------------------------------
\* CNetworkManager::tick(): closing connections are cleared, whatever made
\* them close; then IPHistoryManager::tick()
NetTick ==
    /\ stage = "tick" /\ stage' = "world"
    /\ \E closing \in SUBSET Live :
         /\ slot' = [s \in Slots |-> IF s \in closing THEN [slot[s] EXCEPT !.conn = 0, !.type = "UNK"]
                                                   ELSE slot[s]]
         /\ doomed' = doomed \cup
                {[conn |-> slot[s].conn, slot |-> s, ip |-> slot[s].peer, type |-> slot[s].type] :
                    s \in closing}
    /\ known' = {ip \in known : Ticked(hist[ip]).ttl >= 0}
    /\ hist' = [ip \in IPs |-> IF ip \in known' THEN Ticked(hist[ip]) ELSE Fresh]
    /\ due' = FALSE
    /\ UNCHANGED <<tries, nconn>>

Next ==
    \/ WorldTick \/ WorldSkip \/ AcceptNone \/ InputDone \/ NetTick
    \/ \E ip \in IPs :
         Reject(ip) \/ NoSlot(ip) \/ Accept(ip) \/ BlockIP(ip) \/ UnblockIP(ip)
    \/ \E s \in Slots : Login(s) \/ NotLogin(s) \/ Play(s) \/ Console(s) \/ Status(s)

Spec == Init /\ [][Next]_vars

-----------------------------------------------------------------------------
(* Fairness: the main loop goes round, the clock moves on, and the            *)
(* administrator's commands come to an end.                                   *)

ClockMoves == WorldTick /\ due'

CommandsEnd == <>[][\A ip \in IPs : ~BlockIP(ip) /\ ~UnblockIP(ip)]_vars

Fairness ==
    /\ WF_vars(WorldTick \/ WorldSkip)
    /\ WF_vars(AcceptNone) /\ WF_vars(InputDone) /\ WF_vars(NetTick)
    /\ SF_vars(ClockMoves)
    /\ CommandsEnd

FairSpec == Spec /\ Fairness

-----------------------------------------------------------------------------
Entry ==
    [ttl : -1..NetTTL, pings : Nat, wait : Nat, requests : Nat,
     pending : Int, alive : Int, blocked : BOOLEAN, left : Int]

DeadClient == [conn : 1..MaxTries, slot : Slots, ip : IPs, type : Types]

\* Types.
TypeOK ==
    /\ hist \in [IPs -> Entry] /\ known \in SUBSET IPs
    /\ due \in BOOLEAN
    /\ slot \in [Slots -> [conn : 0..MaxTries, type : Types, peer : IPs \cup {NoAddress}]]
    /\ doomed \in SUBSET DeadClient
    /\ tries \in 0..MaxTries /\ nconn \in 0..tries
    /\ stage \in {"world", "accept", "input", "tick"}

\* the connections of an address that are open, and those not counted out yet
Open(ip)  == {s \in Live : slot[s].peer = ip}
Dying(ip) == {d \in doomed : d.ip = ip}

\* The history of an address counts its connections: all of them, and those
\* that are not in the game.
CountsExact ==
    \A ip \in IPs :
        /\ hist[ip].alive = Cardinality(Open(ip)) + Cardinality(Dying(ip))
        /\ hist[ip].pending =
               Cardinality({s \in Open(ip) : slot[s].type # "GAME"})
               + Cardinality({d \in Dying(ip) : d.type # "GAME"})

\* n[ip] marks for every address ip; none where n[ip] is negative
Marks(n) == UNION {{ip} \X (1..n[ip]) : ip \in IPs}

\* However clients are misplaced, the histories of all addresses together
\* count every connection once: none is forgotten before it is counted out.
\* (An address may owe what another has too much: its count is negative then.)
AllCounted ==
    Cardinality(Marks([ip \in IPs |-> hist[ip].alive]))
        = Cardinality(Live) + Cardinality(doomed)
              + Cardinality(Marks([ip \in IPs |-> -hist[ip].alive]))

\* An address is not forgotten while it is banned or has connections.
Remembered ==
    \A ip \in IPs :
        hist[ip].blocked \/ Open(ip) # {} \/ Dying(ip) # {} => ip \in known

\* What the two limits per address really allow: one more than they say.
OneOverLimit ==
    \A ip \in IPs :
        /\ ClientMaxIP > 0 => Cardinality(Open(ip)) <= ClientMaxIP + 1
        /\ ConnectingMaxIP > 0 =>
             Cardinality({s \in Open(ip) : slot[s].type # "GAME"}) <= ConnectingMaxIP + 1

\* The address gives up: it is not rejected over and over.
GivesUp(ip) == <>[][~Reject(ip)]_vars

\* A ban for a time ends, or an attempt turned it into a ban for ever, once the
\* address has given up.  Each attempt before that is rejected and may start
\* the ban again: nothing ends the ban of an address that keeps trying.
BanEnds ==
    \A ip \in IPs :
        GivesUp(ip) =>
            (hist[ip].blocked /\ hist[ip].left # Forever
                ~> ~hist[ip].blocked \/ hist[ip].left = Forever)

=============================================================================
