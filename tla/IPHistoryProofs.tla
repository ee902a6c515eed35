-------------------------- MODULE IPHistoryProofs --------------------------
(***************************************************************************)
(* IPHistory for every number of addresses, slots and attempts: types, and *)
(* where clients are always counted out at the address they were counted   *)
(* in at, that the counters are exact.  Wherever they are counted out, the *)
(* sum over the addresses is.                                              *)
(***************************************************************************)
EXTENDS IPHistory, FiniteSetTheorems, TLAPS

(***************************************************************************)
(* Types.  An open slot has an address, and an entry's time to live never  *)
(* stays below zero.                                                       *)
(***************************************************************************)
Addressed ==
    /\ \A s \in Live : slot[s].peer \in IPs
    /\ \A d \in doomed : slot[d.slot].peer \in IPs

TInv ==
    /\ TypeOK /\ Addressed
    /\ IsFiniteSet(doomed)
    /\ \A ip \in IPs : hist[ip].ttl >= 0

Conn == [conn : 0..MaxTries, type : Types, peer : IPs \cup {NoAddress}]

LEMMA Numbers ==
    /\ NSlots \in Nat /\ ConnectingMaxIP \in Nat /\ ClientMaxIP \in Nat
    /\ NetTTL \in Nat /\ FirstWait \in Nat /\ PingWait \in Nat /\ MaxTries \in Nat
    /\ BanTimes \subseteq Nat /\ IsFiniteSet(Slots)
  BY ConstantsAssumption, FS_Interval DEF Slots

\* An entry stays one when a field gets a value of its type.
LEMMA Fields ==
  ASSUME NEW h \in Entry
  PROVE  /\ \A x \in -1..NetTTL : [h EXCEPT !.ttl = x] \in Entry
         /\ \A x \in Nat : /\ [h EXCEPT !.pings = x] \in Entry
                          /\ [h EXCEPT !.wait = x] \in Entry
                          /\ [h EXCEPT !.requests = x] \in Entry
         /\ \A x \in Int : /\ [h EXCEPT !.pending = x] \in Entry
                          /\ [h EXCEPT !.alive = x] \in Entry
                          /\ [h EXCEPT !.left = x] \in Entry
         /\ \A x \in BOOLEAN : [h EXCEPT !.blocked = x] \in Entry
  <1>1. \A x \in -1..NetTTL : [h EXCEPT !.ttl = x] \in Entry  BY DEF Entry
  <1>2. \A x \in Nat : [h EXCEPT !.pings = x] \in Entry  BY DEF Entry
  <1>3. \A x \in Nat : [h EXCEPT !.wait = x] \in Entry  BY DEF Entry
  <1>4. \A x \in Nat : [h EXCEPT !.requests = x] \in Entry  BY DEF Entry
  <1>5. \A x \in Int : [h EXCEPT !.pending = x] \in Entry  BY DEF Entry
  <1>6. \A x \in Int : [h EXCEPT !.alive = x] \in Entry  BY DEF Entry
  <1>7. \A x \in Int : [h EXCEPT !.left = x] \in Entry  BY DEF Entry
  <1>8. \A x \in BOOLEAN : [h EXCEPT !.blocked = x] \in Entry  BY DEF Entry
  <1>9. QED  BY <1>1, <1>2, <1>3, <1>4, <1>5, <1>6, <1>7, <1>8

\* Setting or ending a ban, and counting a connection in.
LEMMA BanFields ==
  ASSUME NEW h \in Entry, NEW b \in BOOLEAN, NEW x \in Int
  PROVE  [h EXCEPT !.blocked = b, !.left = x] \in Entry
  <1> DEFINE g == [h EXCEPT !.blocked = b]
  <1>1. g \in Entry  BY Fields
  <1> HIDE DEF g
  <1>2. [g EXCEPT !.left = x] \in Entry  BY <1>1, Fields
  <1> QED  BY <1>2, Zenon DEF g

LEMMA CountFields ==
  ASSUME NEW h \in Entry, NEW x \in Int, NEW y \in Int
  PROVE  /\ [h EXCEPT !.pending = x, !.alive = y] \in Entry
         /\ [h EXCEPT !.alive = y, !.pending = x] \in Entry
  <1>1. [h EXCEPT !.pending = x, !.alive = y] \in Entry
    <2> DEFINE g == [h EXCEPT !.pending = x]
    <2>1. g \in Entry  BY Fields
    <2> HIDE DEF g
    <2>2. [g EXCEPT !.alive = y] \in Entry  BY <2>1, Fields
    <2> QED  BY <2>2, Zenon DEF g
  <1>2. [h EXCEPT !.alive = y, !.pending = x] \in Entry
    <2> DEFINE g == [h EXCEPT !.alive = y]
    <2>1. g \in Entry  BY Fields
    <2> HIDE DEF g
    <2>2. [g EXCEPT !.pending = x] \in Entry  BY <2>1, Fields
    <2> QED  BY <2>2, Zenon DEF g
  <1> QED  BY <1>1, <1>2

LEMMA PingFields ==
  ASSUME NEW h \in Entry, NEW t \in -1..NetTTL, NEW x \in Nat, NEW y \in Nat
  PROVE  /\ [h EXCEPT !.ttl = t, !.pings = x] \in Entry
         /\ [h EXCEPT !.ttl = t, !.pings = x, !.wait = y] \in Entry
  <1> DEFINE g == [h EXCEPT !.ttl = t]
             f == [g EXCEPT !.pings = x]
  <1>1. g \in Entry  BY Fields
  <1> HIDE DEF g
  <1>2. f \in Entry  BY <1>1, Fields
  <1> HIDE DEF f
  <1>3. [f EXCEPT !.wait = y] \in Entry  BY <1>2, Fields
  <1> QED  BY <1>2, <1>3, Zenon DEF f, g

\* Every field of an entry keeps its type under what the handlers do to it.
LEMMA EntryTypes ==
  ASSUME NEW h \in Entry
  PROVE  /\ Ticked(h) \in Entry /\ Older(h) \in Entry
         /\ Pinged(h) \in Entry /\ Unblocked(h) \in Entry
         /\ \A left \in Int : Blocked(h, left) \in Entry
         /\ h.ttl >= 0 => Older(h).ttl >= 0 /\ Pinged(h).ttl >= 0 /\ Unblocked(h).ttl >= 0
         /\ \A left \in Int : Blocked(h, left).ttl = h.ttl
  <1>0. /\ h.ttl \in -1..NetTTL /\ h.pings \in Nat /\ h.wait \in Nat /\ h.left \in Int
        /\ h.blocked \in BOOLEAN
    BY DEF Entry
  <1>1. Unblocked(h) \in Entry
    <2>1. FALSE \in BOOLEAN /\ Forever \in Int  BY DEF Forever
    <2>2. QED  BY <2>1, BanFields DEF Unblocked
  <1>2. Ticked(h) \in Entry
    <2> DEFINE idle == h.alive = 0 /\ h.pending = 0 /\ h.ttl >= 0
               drops == h.pings > 0 /\ h.wait = 0
               t == IF idle THEN h.ttl - 1 ELSE h.ttl
               x == IF drops THEN h.pings - 1 ELSE h.pings
               y == IF drops THEN PingWait ELSE IF h.pings > 0 THEN h.wait - 1 ELSE h.wait
    <2>1. t \in -1..NetTTL /\ x \in Nat /\ y \in Nat
      BY <1>0, Numbers
    <2>2. [h EXCEPT !.ttl = t, !.pings = x, !.wait = y] \in Entry
      BY <2>1, PingFields
    <2>3. QED  BY <1>1, <2>2 DEF Ticked
  <1>3. Older(h) \in Entry
    <2>1. h.left - 1 \in Int  BY <1>0
    <2>2. [h EXCEPT !.left = h.left - 1] \in Entry  BY <2>1, Fields
    <2>3. QED  BY <2>2 DEF Older
  <1>4. Pinged(h) \in Entry
    <2> DEFINE x == IF h.blocked THEN h.pings ELSE h.pings + 1
    <2>1. x \in Nat /\ NetTTL \in -1..NetTTL  BY <1>0, Numbers
    <2>2. [h EXCEPT !.ttl = NetTTL, !.pings = x] \in Entry
      BY <2>1, PingFields
    <2>3. QED  BY <2>2 DEF Pinged
  <1>5. \A left \in Int : Blocked(h, left) \in Entry
    BY BanFields DEF Blocked
  <1>6. /\ h.ttl >= 0 => Older(h).ttl >= 0 /\ Pinged(h).ttl >= 0 /\ Unblocked(h).ttl >= 0
        /\ \A left \in Int : Blocked(h, left).ttl = h.ttl
    BY Numbers DEF Entry, Older, Pinged, Unblocked, Blocked
  <1>7. QED  BY <1>1, <1>2, <1>3, <1>4, <1>5, <1>6

LEMMA CountedOutType ==
  ASSUME TInv, NEW ip \in IPs
  PROVE  /\ CountedOut(doomed, ip) \in Entry
         /\ CountedOut(doomed, ip).ttl = hist[ip].ttl
  <1> DEFINE here == {d \in doomed : slot[d.slot].peer = ip}
             early == {d \in here : d.type # "GAME"}
  <1>1. IsFiniteSet(here) /\ IsFiniteSet(early)
    BY FS_Subset DEF TInv
  <1>2. Cardinality(here) \in Nat /\ Cardinality(early) \in Nat
    BY <1>1, FS_CardinalityType
  <1>3. hist[ip] \in Entry
    BY DEF TInv, TypeOK
  <1> DEFINE x == IF ~Asserts THEN hist[ip].pending - Cardinality(early)
                  ELSE IF hist[ip].pending <= 0 THEN hist[ip].pending
                  ELSE IF hist[ip].pending < Cardinality(early) THEN 0
                  ELSE hist[ip].pending - Cardinality(early)
             y == hist[ip].alive - Cardinality(here)
  <1>4. x \in Int /\ y \in Int
    BY <1>2, <1>3 DEF Entry
  <1>5. CountedOut(doomed, ip) = [hist[ip] EXCEPT !.alive = y, !.pending = x]
    BY DEF CountedOut
  <1> HIDE DEF x, y
  <1>6. [hist[ip] EXCEPT !.alive = y, !.pending = x].ttl = hist[ip].ttl
    BY <1>3 DEF Entry
  <1>7. QED
    BY <1>3, <1>4, <1>5, <1>6, CountFields

LEMMA FreshType == Fresh \in Entry /\ Fresh.ttl >= 0
  BY Numbers DEF Fresh, Entry, Forever

LEMMA BanTypes == {Forever} \cup {Timed(n) : n \in BanTimes} \subseteq Int
  BY Numbers DEF Forever, Timed

LEMMA TInvInit == Init => TInv
  <1> SUFFICES ASSUME Init  PROVE TInv
    OBVIOUS
  <1>1. hist \in [IPs -> Entry] /\ \A ip \in IPs : hist[ip].ttl >= 0
    BY FreshType DEF Init
  <1>2. slot \in [Slots -> Conn]
    BY Numbers DEF Init, Conn, Types
  <1>3. Live = {}
    BY DEF Init, Live
  <1>4. QED
    <2>1. TypeOK
      <3>1. /\ known \in SUBSET IPs /\ due \in BOOLEAN /\ doomed \in SUBSET DeadClient
            /\ stage \in {"world", "accept", "input", "tick"}
        BY DEF Init
      <3>2. tries \in 0..MaxTries /\ nconn \in 0..tries
        BY Numbers DEF Init
      <3>3. QED  BY <1>1, <1>2, <3>1, <3>2 DEF TypeOK, Conn
    <2>2. QED  BY <1>1, <1>3, <2>1, FS_EmptySet DEF Init, TInv, Addressed

\* What a step does to the histories and nothing else keeps the types.
LEMMA HistKeeps ==
  ASSUME TInv, UNCHANGED <<slot, doomed>>,
         hist' \in [IPs -> Entry], \A ip \in IPs : hist'[ip].ttl >= 0,
         known' \in SUBSET IPs, due' \in BOOLEAN,
         tries' \in 0..MaxTries, nconn' \in 0..tries',
         stage' \in {"world", "accept", "input", "tick"}
  PROVE  TInv'
  BY DEF TInv, TypeOK, Addressed, Live, DeadClient

LEMMA AttemptCounts ==
  ASSUME TInv, NEW ip \in IPs, Attempt(ip)
  PROVE  /\ known' \in SUBSET IPs /\ due' \in BOOLEAN
         /\ tries' \in 0..MaxTries /\ tries <= tries'
         /\ ~hist[ip].blocked => tries' = tries + 1
         /\ stage' \in {"world", "accept", "input", "tick"}
         /\ Requested(ip) \in Entry /\ Pinged(Requested(ip)) \in Entry
         /\ Requested(ip).ttl >= 0 /\ Pinged(Requested(ip)).ttl >= 0
  <1>1. hist[ip] \in Entry /\ hist[ip].ttl >= 0
    BY DEF TInv, TypeOK
  <1>2. Requested(ip) \in Entry /\ Requested(ip).ttl >= 0
    BY <1>1, Numbers DEF Requested, Entry
  <1>3. /\ tries' \in 0..MaxTries /\ tries <= tries'
        /\ ~hist[ip].blocked => tries' = tries + 1
    BY Numbers DEF Attempt, TInv, TypeOK
  <1>4. QED
    BY <1>2, <1>3, EntryTypes, Numbers DEF Attempt, Remember, TInv, TypeOK

\* A connection is never accepted from an address that is banned.
LEMMA AcceptUnbanned ==
  ASSUME TInv, NEW ip \in IPs, Accept(ip)
  PROVE  ~hist[ip].blocked
  BY DEF Accept, Refused, TooManyPings, Requested, TInv, TypeOK, Entry

LEMMA WorldTickTypes == ASSUME TInv, WorldTick  PROVE TInv'
  <1>1. PICK second \in BOOLEAN :
           /\ due' = (due \/ second)
           /\ hist' = [ip \in IPs |-> IF second THEN Older(CountedOut(doomed, ip))
                                                ELSE CountedOut(doomed, ip)]
    BY DEF WorldTick
  <1>2. ASSUME NEW ip \in IPs
        PROVE  hist'[ip] \in Entry /\ hist'[ip].ttl >= 0
    <2>1. /\ CountedOut(doomed, ip) \in Entry
          /\ CountedOut(doomed, ip).ttl >= 0
      BY CountedOutType DEF TInv
    <2>2. QED  BY <1>1, <2>1, EntryTypes
  <1>3. hist' \in [IPs -> Entry]
    BY <1>1, <1>2
  <1>4. known' \in SUBSET IPs
    BY DEF WorldTick, TInv, TypeOK, Addressed
  <1>5. QED
    BY <1>1, <1>2, <1>3, <1>4, FS_EmptySet
    DEF WorldTick, TInv, TypeOK, Addressed, Live

LEMMA RejectTypes == ASSUME TInv, NEW ip \in IPs, Reject(ip)  PROVE TInv'
  <1>1. Attempt(ip)  BY DEF Reject
  <1>2. Pinged(Requested(ip)) \in Entry /\ Pinged(Requested(ip)).ttl >= 0
    BY <1>1, AttemptCounts
  <1>3. PICK h \in Entry : h.ttl >= 0 /\ hist' = [hist EXCEPT ![ip] = h]
    BY <1>2, EntryTypes, BanTypes DEF Reject
  <1>4. hist' \in [IPs -> Entry] /\ \A i \in IPs : hist'[i].ttl >= 0
    BY <1>3 DEF TInv, TypeOK
  <1>5. nconn' \in 0..tries' /\ UNCHANGED <<slot, doomed>>
    BY <1>1, AttemptCounts DEF Reject, Attempt, TInv, TypeOK
  <1>6. QED  BY <1>1, <1>4, <1>5, AttemptCounts, HistKeeps

LEMMA NoSlotTypes == ASSUME TInv, NEW ip \in IPs, NoSlot(ip)  PROVE TInv'
  <1>1. Attempt(ip)  BY DEF NoSlot
  <1>2. hist' \in [IPs -> Entry] /\ \A i \in IPs : hist'[i].ttl >= 0
    BY <1>1, AttemptCounts DEF NoSlot, TInv, TypeOK
  <1>3. nconn' \in 0..tries' /\ UNCHANGED <<slot, doomed>>
    BY <1>1, AttemptCounts DEF NoSlot, Attempt, TInv, TypeOK
  <1>4. QED  BY <1>1, <1>2, <1>3, AttemptCounts, HistKeeps

LEMMA AcceptTypes == ASSUME TInv, NEW ip \in IPs, Accept(ip)  PROVE TInv'
  <1>1. Attempt(ip)  BY DEF Accept
  <1>2. PICK s \in Slots \ Live :
           slot' = [slot EXCEPT ![s] = [conn |-> nconn', type |-> "UNK", peer |-> ip]]
    BY DEF Accept
  <1>3. hist' \in [IPs -> Entry] /\ \A i \in IPs : hist'[i].ttl >= 0
    <2> DEFINE h == Pinged(Requested(ip))
    <2>1. h \in Entry /\ h.ttl >= 0
      BY <1>1, AttemptCounts
    <2>2. [h EXCEPT !.pending = @ + 1, !.alive = @ + 1] \in Entry
      <3>1. h.pending + 1 \in Int /\ h.alive + 1 \in Int
        BY <2>1 DEF Entry
      <3>2. QED  BY <2>1, <3>1, CountFields
    <2>3. [h EXCEPT !.pending = @ + 1, !.alive = @ + 1].ttl >= 0
      BY <2>1 DEF Entry
    <2>4. hist' = [hist EXCEPT ![ip] = [h EXCEPT !.pending = @ + 1, !.alive = @ + 1]]
      BY DEF Accept
    <2>5. QED  BY <2>2, <2>3, <2>4 DEF TInv, TypeOK
  <1>4. nconn' = nconn + 1 /\ nconn' \in 0..tries' /\ doomed' = doomed
    <2>1. tries' = tries + 1
      BY <1>1, AttemptCounts, AcceptUnbanned
    <2>2. nconn' = nconn + 1 /\ doomed' = doomed
      BY DEF Accept, Attempt
    <2>3. QED  BY <2>1, <2>2, Numbers DEF TInv, TypeOK
  <1>5. slot' \in [Slots -> Conn]
    BY <1>1, <1>2, <1>4, AttemptCounts, Numbers DEF TInv, TypeOK, Types, Conn
  <1>6. Addressed'
    BY <1>2, <1>4, <1>5 DEF TInv, TypeOK, Addressed, Live, DeadClient
  <1>7. QED
    BY <1>1, <1>3, <1>4, <1>5, <1>6, AttemptCounts DEF TInv, TypeOK, Conn

LEMMA SetConnectTypeTypes ==
  ASSUME TInv, NEW s \in Slots, NEW type \in Types, NEW counts \in BOOLEAN,
         SetConnectType(s, type, counts)
  PROVE  TInv'
  <1>1. s \in Live /\ slot[s].peer \in IPs
    BY DEF SetConnectType, TInv, Addressed
  <1> DEFINE p == slot[s].peer
             x == IF counts THEN hist[p].pending - 1 ELSE hist[p].pending
             h == [hist[p] EXCEPT !.pending = x]
  <1>2. hist' = [hist EXCEPT ![p] = h]
    BY DEF SetConnectType
  <1>3. hist[p] \in Entry /\ hist[p].ttl >= 0
    BY <1>1 DEF TInv, TypeOK
  <1>4. hist' \in [IPs -> Entry] /\ \A i \in IPs : hist'[i].ttl >= 0
    <2>1. x \in Int  BY <1>3 DEF Entry
    <2> HIDE DEF x
    <2>2. h \in Entry  BY <1>3, <2>1, Fields
    <2>3. h.ttl >= 0  BY <1>3 DEF Entry
    <2> HIDE DEF h
    <2>4. QED  BY <1>1, <1>2, <2>2, <2>3 DEF TInv, TypeOK
  <1>5. slot' = [slot EXCEPT ![s] = [@ EXCEPT !.type = type]]
    BY DEF SetConnectType
  <1>6. slot' \in [Slots -> Conn] /\ Addressed'
    BY <1>1, <1>5 DEF TInv, TypeOK, Addressed, Live, Conn, SetConnectType, DeadClient
  <1>7. QED
    BY <1>1, <1>4, <1>6 DEF TInv, TypeOK, Conn, SetConnectType

LEMMA CommandTypes ==
  ASSUME TInv, NEW ip \in IPs, BlockIP(ip) \/ UnblockIP(ip)
  PROVE  TInv'
  <1>1. hist[ip] \in Entry /\ hist[ip].ttl >= 0
    BY DEF TInv, TypeOK
  <1>2. PICK h \in Entry : h.ttl >= 0 /\ Command(ip, h)
    BY <1>1, EntryTypes, BanTypes DEF BlockIP, UnblockIP
  <1>3. hist' \in [IPs -> Entry] /\ \A i \in IPs : hist'[i].ttl >= 0
    BY <1>2 DEF Command, TInv, TypeOK
  <1>4. QED
    BY <1>2, <1>3, HistKeeps DEF Command, Remember, TInv, TypeOK

\* the clients that NetTick makes of the connections in closing
Clients(closing) ==
    {[conn |-> slot[s].conn, slot |-> s, ip |-> slot[s].peer, type |-> slot[s].type] :
        s \in closing}

LEMMA ClientsType ==
  ASSUME TInv, NEW closing \in SUBSET Live
  PROVE  Clients(closing) \in SUBSET DeadClient /\ IsFiniteSet(Clients(closing))
  <1> DEFINE client(s) == [conn |-> slot[s].conn, slot |-> s, ip |-> slot[s].peer,
                           type |-> slot[s].type]
  <1>1. \A s \in Live : client(s) \in DeadClient
    BY DEF TInv, TypeOK, Addressed, Live, DeadClient
  <1>2. IsFiniteSet(closing)
    BY Numbers, FS_Subset DEF Live
  <1> DEFINE image == {client(s) : s \in closing}
             f == [s \in closing |-> client(s)]
  <1>3. f \in Surjection(closing, image)
    BY DEF Surjection
  <1>4. IsFiniteSet(image)
    BY <1>2, <1>3, FS_Surjection
  <1>5. QED  BY <1>1, <1>4 DEF Clients

LEMMA NetTickTypes == ASSUME TInv, NetTick  PROVE TInv'
  <1>1. PICK closing \in SUBSET Live :
           /\ slot' = [s \in Slots |-> IF s \in closing
                         THEN [slot[s] EXCEPT !.conn = 0, !.type = "UNK"] ELSE slot[s]]
           /\ doomed' = doomed \cup Clients(closing)
    BY DEF NetTick, Clients
  <1>2. doomed' \in SUBSET DeadClient /\ IsFiniteSet(doomed')
    BY <1>1, ClientsType, FS_Union DEF TInv, TypeOK
  <1>3. slot' \in [Slots -> Conn]
    <2>1. ASSUME NEW s \in Slots
          PROVE  /\ slot[s] \in Conn
                 /\ [slot[s] EXCEPT !.conn = 0, !.type = "UNK"] \in Conn
      <3>1. slot[s] \in Conn /\ 0 \in 0..MaxTries /\ "UNK" \in Types
        BY Numbers DEF TInv, TypeOK, Conn, Types
      <3> DEFINE g == [slot[s] EXCEPT !.conn = 0]
      <3>2. g \in Conn  BY <3>1 DEF Conn
      <3> HIDE DEF g
      <3>3. [g EXCEPT !.type = "UNK"] \in Conn  BY <3>1, <3>2 DEF Conn
      <3>4. QED  BY <3>1, <3>3, Zenon DEF g
    <2>2. QED  BY <1>1, <2>1
  <1>4. \A s \in Slots : slot'[s].peer = slot[s].peer
    BY <1>1 DEF TInv, TypeOK
  <1>5. \A s \in Slots : slot'[s].conn # 0 => slot[s].conn # 0
    BY <1>1 DEF TInv, TypeOK
  <1>6. \A d \in Clients(closing) : slot[d.slot].peer \in IPs /\ d.slot \in Slots
    BY DEF Clients, TInv, Addressed, Live
  <1>7. Addressed'
    BY <1>1, <1>2, <1>4, <1>5, <1>6 DEF TInv, TypeOK, Addressed, Live, DeadClient
  <1>8. ASSUME NEW ip \in IPs
        PROVE  hist'[ip] \in Entry /\ hist'[ip].ttl >= 0
    <2>1. Ticked(hist[ip]) \in Entry
      BY EntryTypes DEF TInv, TypeOK
    <2>2. ip \in known' => Ticked(hist[ip]).ttl >= 0
      BY DEF NetTick
    <2>3. QED  BY <2>1, <2>2, FreshType DEF NetTick
  <1>9. hist' \in [IPs -> Entry]
    BY <1>8 DEF NetTick
  <1>10. QED
    BY <1>2, <1>3, <1>7, <1>8, <1>9 DEF NetTick, TInv, TypeOK, Conn

LEMMA TInvNext == TInv /\ [Next]_vars => TInv'
  <1> SUFFICES ASSUME TInv, [Next]_vars  PROVE TInv'
    OBVIOUS
  <1>1. CASE WorldTick  BY <1>1, WorldTickTypes
  <1>2. CASE WorldSkip  BY <1>2, HistKeeps DEF WorldSkip, TInv, TypeOK
  <1>3. CASE AcceptNone  BY <1>3, HistKeeps DEF AcceptNone, TInv, TypeOK
  <1>4. CASE InputDone  BY <1>4, HistKeeps DEF InputDone, TInv, TypeOK
  <1>5. CASE NetTick  BY <1>5, NetTickTypes
  <1>6. ASSUME NEW ip \in IPs,
               Reject(ip) \/ NoSlot(ip) \/ Accept(ip) \/ BlockIP(ip) \/ UnblockIP(ip)
        PROVE  TInv'
    BY <1>6, RejectTypes, NoSlotTypes, AcceptTypes, CommandTypes
  <1>7. ASSUME NEW s \in Slots,
               Login(s) \/ NotLogin(s) \/ Play(s) \/ Console(s) \/ Status(s)
        PROVE  TInv'
    BY <1>7, SetConnectTypeTypes
    DEF Login, NotLogin, Play, Console, Status, Types
  <1>8. CASE UNCHANGED vars  BY <1>8, HistKeeps DEF vars, TInv, TypeOK
  <1>9. QED
    BY <1>1, <1>2, <1>3, <1>4, <1>5, <1>6, <1>7, <1>8 DEF Next

LEMMA TInvAlways == Spec => []TInv
  BY TInvInit, TInvNext, PTL DEF Spec

\* Types, for every number of addresses, slots and attempts: the times to live
\* stay between -1 and what the configuration says, pings, requests and the
\* seconds to the next decay are never negative.  (The counters of connections
\* may be, see AllCounted.)
THEOREM TypesKept == Spec => []TypeOK
  <1>1. TInv => TypeOK  BY DEF TInv
  <1>2. QED  BY <1>1, TInvAlways, PTL
-----------------------------------------------------------------------------
(***************************************************************************)
(* Exact counts.  A client is counted out at the address that its slot has *)
(* when it is deleted, and in full if its type says that it was pending.   *)
(* So the counts are exact where every connection is a game client and no  *)
(* slot gets another address before its client is deleted: because the     *)
(* world always ticks in between, or because there is only one address.    *)
(***************************************************************************)
Plain == ~FullTypes /\ (~MaySkip \/ \A i, j \in IPs : i = j)

\* the clients of an address that never played
Early(ip)      == {s \in Open(ip) : slot[s].type # "GAME"}
DyingEarly(ip) == {d \in Dying(ip) : d.type # "GAME"}

\* a client to be deleted is found at its own address
Placed ==
    /\ \A d \in doomed : slot[d.slot].peer = d.ip
    /\ ~MaySkip /\ stage # "world" => doomed = {}

\* no two connections, and no connection and a client to be deleted, are the same
ConnsApart ==
    /\ \A s \in Live : slot[s].conn <= nconn
    /\ \A s, r \in Live : slot[s].conn = slot[r].conn => s = r
    /\ \A d \in doomed : d.conn <= nconn
    /\ \A s \in Live, d \in doomed : d.conn # slot[s].conn

CInv == Placed /\ ConnsApart /\ CountsExact /\ Remembered /\ OneOverLimit

LEMMA FiniteCounts ==
  ASSUME TInv, NEW ip \in IPs
  PROVE  /\ IsFiniteSet(Open(ip)) /\ Cardinality(Open(ip)) \in Nat
         /\ IsFiniteSet(Early(ip)) /\ Cardinality(Early(ip)) \in Nat
         /\ IsFiniteSet(Dying(ip)) /\ Cardinality(Dying(ip)) \in Nat
         /\ IsFiniteSet(DyingEarly(ip)) /\ Cardinality(DyingEarly(ip)) \in Nat
  <1>1. IsFiniteSet(Open(ip)) /\ IsFiniteSet(Early(ip))
    BY Numbers, FS_Subset DEF Open, Early, Live
  <1>2. IsFiniteSet(Dying(ip)) /\ IsFiniteSet(DyingEarly(ip))
    BY FS_Subset DEF TInv, Dying, DyingEarly
  <1>3. QED  BY <1>1, <1>2, FS_CardinalityType

\* What the handlers leave alone in an entry.
LEMMA EntryCounts ==
  ASSUME NEW h \in Entry
  PROVE  /\ Ticked(h).alive = h.alive /\ Ticked(h).pending = h.pending
         /\ Older(h).alive = h.alive /\ Older(h).pending = h.pending
         /\ Pinged(h).alive = h.alive /\ Pinged(h).pending = h.pending
         /\ Unblocked(h).alive = h.alive /\ Unblocked(h).pending = h.pending
         /\ \A left \in Int : /\ Blocked(h, left).alive = h.alive
                              /\ Blocked(h, left).pending = h.pending
         /\ Older(h).blocked = h.blocked /\ Pinged(h).blocked = h.blocked
         /\ ~Unblocked(h).blocked
         /\ Ticked(h).blocked => h.blocked
         /\ Ticked(h).ttl < h.ttl => ~h.blocked /\ h.alive = 0 /\ h.pending = 0
         /\ Ticked(h).ttl = h.ttl \/ Ticked(h).ttl = h.ttl - 1
  BY DEF Entry, Ticked, Older, Pinged, Unblocked, Blocked

LEMMA CInvInit == Init => CInv
  <1> SUFFICES ASSUME Init  PROVE CInv
    OBVIOUS
  <1>1. Live = {} /\ doomed = {}
    BY DEF Init, Live
  <1>2. \A ip \in IPs : Open(ip) = {} /\ Early(ip) = {} /\ Dying(ip) = {} /\ DyingEarly(ip) = {}
    BY <1>1 DEF Open, Early, Dying, DyingEarly
  <1>3. \A ip \in IPs : hist[ip].alive = 0 /\ hist[ip].pending = 0 /\ ~hist[ip].blocked
    BY DEF Init, Fresh
  <1>4. Placed /\ ConnsApart
    BY <1>1 DEF Placed, ConnsApart
  <1>5. CountsExact
    BY <1>2, <1>3, FS_EmptySet DEF CountsExact, Early, DyingEarly
  <1>6. Remembered
    BY <1>2, <1>3 DEF Remembered
  <1>7. OneOverLimit
    <2>1. \A ip \in IPs : Cardinality(Open(ip)) = 0 /\ Cardinality(Early(ip)) = 0
      BY <1>2, FS_EmptySet
    <2>2. ClientMaxIP + 1 >= 0 /\ ConnectingMaxIP + 1 >= 0
      BY Numbers
    <2>3. QED  BY <2>1, <2>2 DEF OneOverLimit, Early
  <1>8. QED  BY <1>4, <1>5, <1>6, <1>7 DEF CInv

\* A step that changes no connection and no count.
LEMMA CountsKept ==
  ASSUME TInv, CInv, UNCHANGED <<slot, doomed, nconn>>,
         \A ip \in IPs : hist'[ip].alive = hist[ip].alive /\ hist'[ip].pending = hist[ip].pending,
         \A ip \in IPs : ip \in known' \/ (ip \notin known /\ (hist'[ip].blocked => hist[ip].blocked)),
         ~MaySkip /\ stage' # "world" => stage # "world"
  PROVE  CInv'
  <1>1. \A ip \in IPs : Open(ip)' = Open(ip) /\ Dying(ip)' = Dying(ip)
    BY DEF Open, Dying, Live
  <1>2. Placed' /\ ConnsApart'
    BY DEF CInv, Placed, ConnsApart, Live
  <1>3. CountsExact'
    BY <1>1 DEF CInv, CountsExact
  <1>4. Remembered'
    BY <1>1 DEF CInv, Remembered
  <1>5. OneOverLimit'
    BY <1>1 DEF CInv, OneOverLimit
  <1>6. QED  BY <1>2, <1>3, <1>4, <1>5 DEF CInv

LEMMA WorldTickExact == ASSUME Plain, TInv, CInv, WorldTick  PROVE CInv'
  <1>1. PICK second \in BOOLEAN :
           hist' = [ip \in IPs |-> IF second THEN Older(CountedOut(doomed, ip))
                                             ELSE CountedOut(doomed, ip)]
    BY DEF WorldTick
  <1>2. doomed' = {} /\ slot' = slot /\ nconn' = nconn
    BY DEF WorldTick
  <1>3. ASSUME NEW ip \in IPs
        PROVE  /\ Open(ip)' = Open(ip) /\ Early(ip)' = Early(ip)
               /\ Dying(ip)' = {} /\ DyingEarly(ip)' = {}
    BY <1>2 DEF Open, Early, Dying, DyingEarly, Live
  <1>4. ASSUME NEW ip \in IPs
        PROVE  /\ hist'[ip].alive = Cardinality(Open(ip))
               /\ hist'[ip].pending = Cardinality(Early(ip))
               /\ hist'[ip].blocked = hist[ip].blocked
    <2> DEFINE here == {d \in doomed : slot[d.slot].peer = ip}
    <2>1. here = Dying(ip) /\ {d \in here : d.type # "GAME"} = DyingEarly(ip)
      BY DEF CInv, Placed, Dying, DyingEarly
    <2>2. /\ hist[ip] \in Entry
          /\ hist[ip].alive = Cardinality(Open(ip)) + Cardinality(Dying(ip))
          /\ hist[ip].pending = Cardinality(Early(ip)) + Cardinality(DyingEarly(ip))
      BY DEF TInv, TypeOK, CInv, CountsExact, Early, DyingEarly
    <2>3. /\ CountedOut(doomed, ip).alive = Cardinality(Open(ip))
          /\ CountedOut(doomed, ip).pending = Cardinality(Early(ip))
          /\ CountedOut(doomed, ip).blocked = hist[ip].blocked
      <3> DEFINE early == Cardinality(DyingEarly(ip))
                 x == IF ~Asserts THEN hist[ip].pending - early
                      ELSE IF hist[ip].pending <= 0 THEN hist[ip].pending
                      ELSE IF hist[ip].pending < early THEN 0
                      ELSE hist[ip].pending - early
                 y == hist[ip].alive - Cardinality(Dying(ip))
      <3>1. x = Cardinality(Early(ip)) /\ y = Cardinality(Open(ip))
        BY <2>2, FiniteCounts
      <3>2. CountedOut(doomed, ip) = [hist[ip] EXCEPT !.alive = y, !.pending = x]
        BY <2>1 DEF CountedOut
      <3> HIDE DEF x, y
      <3>3. QED  BY <2>2, <3>1, <3>2 DEF Entry
    <2>4. CountedOut(doomed, ip) \in Entry
      BY CountedOutType
    <2>5. QED  BY <1>1, <2>3, <2>4, EntryCounts
  <1>5. Placed' /\ ConnsApart'
    BY <1>2 DEF CInv, Placed, ConnsApart, Live
  <1>6. CountsExact'
    <2>1. ASSUME NEW ip \in IPs
          PROVE  /\ hist'[ip].alive = Cardinality(Open(ip)') + Cardinality(Dying(ip)')
                 /\ hist'[ip].pending = Cardinality(Early(ip)') + Cardinality(DyingEarly(ip)')
      <3>1. Cardinality(Open(ip)) \in Nat /\ Cardinality(Early(ip)) \in Nat
        BY FiniteCounts
      <3>2. Cardinality(Dying(ip)') = 0 /\ Cardinality(DyingEarly(ip)') = 0
        BY <1>3, FS_EmptySet
      <3>3. QED  BY <1>3, <1>4, <3>1, <3>2
    <2>2. QED  BY <2>1 DEF CountsExact, Early, DyingEarly
  <1>7. Remembered'
    BY <1>3, <1>4 DEF WorldTick, CInv, Remembered
  <1>8. OneOverLimit'
    BY <1>3 DEF CInv, OneOverLimit, Early
  <1>9. QED  BY <1>5, <1>6, <1>7, <1>8 DEF CInv

LEMMA RejectExact == ASSUME TInv, CInv, NEW ip \in IPs, Reject(ip) \/ NoSlot(ip)  PROVE CInv'
  <1>1. Attempt(ip)  BY DEF Reject, NoSlot
  <1>2. hist[ip] \in Entry
    BY DEF TInv, TypeOK
  <1>3. /\ Requested(ip) \in Entry /\ Pinged(Requested(ip)) \in Entry
        /\ Requested(ip).alive = hist[ip].alive /\ Requested(ip).pending = hist[ip].pending
    BY <1>1, <1>2, AttemptCounts DEF Requested, Entry
  <1>4. PICK h \in Entry : /\ hist' = [hist EXCEPT ![ip] = h]
                           /\ h.alive = hist[ip].alive /\ h.pending = hist[ip].pending
    <2> DEFINE g == Pinged(Requested(ip))
    <2>1. g \in Entry /\ g.alive = hist[ip].alive /\ g.pending = hist[ip].pending
      BY <1>3, EntryCounts
    <2> HIDE DEF g
    <2>2. ASSUME NEW left \in Int
          PROVE  /\ Blocked(g, left) \in Entry
                 /\ Blocked(g, left).alive = hist[ip].alive
                 /\ Blocked(g, left).pending = hist[ip].pending
      <3>1. Blocked(g, left) \in Entry
        BY <2>1, EntryTypes
      <3>2. Blocked(g, left).alive = g.alive /\ Blocked(g, left).pending = g.pending
        BY <2>1, EntryCounts
      <3>3. QED  BY <2>1, <3>1, <3>2
    <2>3. \/ hist' = [hist EXCEPT ![ip] = g]
          \/ \E left \in Int : hist' = [hist EXCEPT ![ip] = Blocked(g, left)]
      BY BanTypes DEF Reject, NoSlot, g
    <2>4. QED  BY <2>1, <2>2, <2>3
  <1>5. UNCHANGED <<slot, doomed, nconn>> /\ known' = known \cup {ip} /\ stage = "accept"
    BY DEF Reject, NoSlot, Attempt, Remember
  <1>6. QED  BY <1>4, <1>5, CountsKept DEF TInv, TypeOK

LEMMA CommandExact ==
  ASSUME TInv, CInv, NEW ip \in IPs, BlockIP(ip) \/ UnblockIP(ip)
  PROVE  CInv'
  <1>1. hist[ip] \in Entry
    BY DEF TInv, TypeOK
  <1>2. PICK h \in Entry : /\ Command(ip, h)
                           /\ h.alive = hist[ip].alive /\ h.pending = hist[ip].pending
    <2>1. ASSUME NEW left \in Int
          PROVE  /\ Blocked(hist[ip], left) \in Entry
                 /\ Blocked(hist[ip], left).alive = hist[ip].alive
                 /\ Blocked(hist[ip], left).pending = hist[ip].pending
      <3>1. Blocked(hist[ip], left) \in Entry
        BY <1>1, EntryTypes
      <3>2. /\ Blocked(hist[ip], left).alive = hist[ip].alive
            /\ Blocked(hist[ip], left).pending = hist[ip].pending
        BY <1>1, EntryCounts
      <3>3. QED  BY <3>1, <3>2
    <2>2. /\ Unblocked(hist[ip]) \in Entry
          /\ Unblocked(hist[ip]).alive = hist[ip].alive
          /\ Unblocked(hist[ip]).pending = hist[ip].pending
      BY <1>1, EntryTypes, EntryCounts
    <2>3. \/ Command(ip, Unblocked(hist[ip]))
          \/ \E left \in Int : Command(ip, Blocked(hist[ip], left))
      BY BanTypes DEF BlockIP, UnblockIP
    <2>4. QED  BY <2>1, <2>2, <2>3
  <1>3. QED  BY <1>2, CountsKept DEF Command, Remember, TInv, TypeOK

LEMMA AcceptExact == ASSUME Plain, TInv, CInv, NEW ip \in IPs, Accept(ip)  PROVE CInv'
  <1>1. Attempt(ip)  BY DEF Accept
  <1>2. PICK s \in Slots \ Live :
           slot' = [slot EXCEPT ![s] = [conn |-> nconn', type |-> "UNK", peer |-> ip]]
    BY DEF Accept
  <1>3. nconn' = nconn + 1 /\ nconn \in Nat /\ doomed' = doomed /\ known' = known \cup {ip}
    BY <1>1 DEF Accept, Attempt, Remember, TInv, TypeOK
  <1>4. Live' = Live \cup {s} /\ \A r \in Live : slot'[r] = slot[r]
    BY <1>2, <1>3 DEF Live, TInv, TypeOK
  <1>5. slot'[s] = [conn |-> nconn', type |-> "UNK", peer |-> ip]
    BY <1>2 DEF TInv, TypeOK
  <1>6. /\ Open(ip)' = Open(ip) \cup {s} /\ s \notin Open(ip)
        /\ Early(ip)' = Early(ip) \cup {s} /\ s \notin Early(ip)
    BY <1>2, <1>4, <1>5 DEF Open, Early
  <1>7. \A i \in IPs : /\ Dying(i)' = Dying(i) /\ DyingEarly(i)' = DyingEarly(i)
                       /\ i # ip => Open(i)' = Open(i) /\ Early(i)' = Early(i)
    BY <1>2, <1>3, <1>4, <1>5 DEF Open, Early, Dying, DyingEarly
  <1> DEFINE h == Pinged(Requested(ip))
             new == [h EXCEPT !.pending = @ + 1, !.alive = @ + 1]
  <1>8. /\ h \in Entry /\ h.alive = hist[ip].alive /\ h.pending = hist[ip].pending
        /\ Requested(ip).alive = hist[ip].alive /\ Requested(ip).pending = hist[ip].pending
    <2>1. hist[ip] \in Entry  BY DEF TInv, TypeOK
    <2>2. /\ Requested(ip) \in Entry /\ h \in Entry
          /\ Requested(ip).alive = hist[ip].alive /\ Requested(ip).pending = hist[ip].pending
      BY <1>1, <2>1, AttemptCounts DEF Requested, Entry
    <2>3. QED  BY <2>2, EntryCounts
  <1>9. /\ new.alive = hist[ip].alive + 1 /\ new.pending = hist[ip].pending + 1
        /\ hist' = [hist EXCEPT ![ip] = new]
    <2>1. new.alive = hist[ip].alive + 1 /\ new.pending = hist[ip].pending + 1
      BY <1>8 DEF Entry
    <2>2. hist' = [hist EXCEPT ![ip] = new]
      BY DEF Accept
    <2>3. QED  BY <2>1, <2>2
  <1>10. /\ hist'[ip].alive = hist[ip].alive + 1 /\ hist'[ip].pending = hist[ip].pending + 1
         /\ \A i \in IPs \ {ip} : hist'[i] = hist[i]
    BY <1>9 DEF TInv, TypeOK
  <1>11. /\ Cardinality(Open(ip)') = Cardinality(Open(ip)) + 1
         /\ Cardinality(Early(ip)') = Cardinality(Early(ip)) + 1
    BY <1>6, FiniteCounts, FS_AddElement
  <1>12. Placed'
    <2>1. ASSUME NEW d \in doomed  PROVE slot'[d.slot].peer = d.ip
      <3>1. d \in DeadClient /\ slot[d.slot].peer = d.ip
        BY DEF TInv, TypeOK, CInv, Placed
      <3>2. CASE d.slot # s
        BY <1>2, <3>1, <3>2 DEF DeadClient, TInv, TypeOK
      <3>3. CASE d.slot = s
        <4>1. MaySkip
          BY <1>1 DEF CInv, Placed, Attempt
        <4>2. d.ip = ip
          BY <3>1, <4>1 DEF Plain, DeadClient
        <4>3. QED  BY <1>5, <3>3, <4>2
      <3>4. QED  BY <3>2, <3>3
    <2>2. QED
      BY <1>1, <1>3, <2>1 DEF CInv, Placed, Attempt
  <1>13. ConnsApart'
    BY <1>3, <1>4, <1>5 DEF CInv, ConnsApart, TInv, TypeOK, Live, DeadClient
  <1>14. CountsExact'
    <2>1. ASSUME NEW i \in IPs
          PROVE  /\ hist'[i].alive = Cardinality(Open(i)') + Cardinality(Dying(i)')
                 /\ hist'[i].pending = Cardinality(Early(i)') + Cardinality(DyingEarly(i)')
      <3>1. /\ hist[i].alive = Cardinality(Open(i)) + Cardinality(Dying(i))
            /\ hist[i].pending = Cardinality(Early(i)) + Cardinality(DyingEarly(i))
        BY DEF CInv, CountsExact, Early, DyingEarly
      <3>2. CASE i = ip  BY <1>7, <1>10, <1>11, <3>1, <3>2, FiniteCounts
      <3>3. CASE i # ip  BY <1>7, <1>10, <3>1, <3>3
      <3>4. QED  BY <3>2, <3>3
    <2>2. QED  BY <2>1 DEF CountsExact, Early, DyingEarly
  <1>15. Remembered'
    BY <1>3, <1>7, <1>10 DEF CInv, Remembered
  <1>16. OneOverLimit'
    <2>1. ~Refused(Requested(ip))
      BY DEF Accept
    <2>2. /\ hist[ip].alive = Cardinality(Open(ip)) + Cardinality(Dying(ip))
          /\ hist[ip].pending = Cardinality(Early(ip)) + Cardinality(DyingEarly(ip))
      BY DEF CInv, CountsExact, Early, DyingEarly
    <2>3. /\ ClientMaxIP > 0 => Cardinality(Open(ip)) <= ClientMaxIP
          /\ ConnectingMaxIP > 0 => Cardinality(Early(ip)) <= ConnectingMaxIP
      BY <1>8, <2>1, <2>2, FiniteCounts, Numbers DEF Refused
    <2>4. ASSUME NEW i \in IPs
          PROVE  /\ ClientMaxIP > 0 => Cardinality(Open(i)') <= ClientMaxIP + 1
                 /\ ConnectingMaxIP > 0 => Cardinality(Early(i)') <= ConnectingMaxIP + 1
      <3>1. CASE i = ip  BY <1>11, <2>3, <3>1, FiniteCounts, Numbers
      <3>2. CASE i # ip  BY <1>7, <3>2 DEF CInv, OneOverLimit, Early
      <3>3. QED  BY <3>1, <3>2
    <2>5. QED  BY <2>4 DEF OneOverLimit, Early
  <1>17. QED  BY <1>12, <1>13, <1>14, <1>15, <1>16 DEF CInv

\* A connection changes its type: it is counted out of the pending ones exactly
\* when it starts to play.
LEMMA SetConnectTypeExact ==
  ASSUME TInv, CInv, NEW s \in Slots, NEW type \in Types, NEW counts \in BOOLEAN,
         slot[s].type # "GAME", counts <=> type = "GAME",
         SetConnectType(s, type, counts)
  PROVE  CInv'
  <1> DEFINE p == slot[s].peer
             x == IF counts THEN hist[p].pending - 1 ELSE hist[p].pending
             h == [hist[p] EXCEPT !.pending = x]
  <1>1. s \in Live /\ p \in IPs /\ hist[p] \in Entry
    BY DEF SetConnectType, TInv, TypeOK, Addressed
  <1>2. hist' = [hist EXCEPT ![p] = h]
    BY DEF SetConnectType
  <1>3. /\ hist'[p].alive = hist[p].alive /\ hist'[p].pending = x
        /\ hist'[p].blocked = hist[p].blocked
        /\ \A i \in IPs \ {p} : hist'[i] = hist[i]
    <2>1. h.alive = hist[p].alive /\ h.pending = x /\ h.blocked = hist[p].blocked
      BY <1>1 DEF Entry
    <2> HIDE DEF h
    <2>2. QED  BY <1>1, <1>2, <2>1 DEF TInv, TypeOK
  <1>4. /\ slot' = [slot EXCEPT ![s] = [@ EXCEPT !.type = type]]
        /\ UNCHANGED <<doomed, nconn, stage>> /\ known \subseteq known'
    BY DEF SetConnectType
  <1>5. \A r \in Slots : /\ slot'[r].conn = slot[r].conn /\ slot'[r].peer = slot[r].peer
                         /\ r # s => slot'[r] = slot[r]
    BY <1>4 DEF TInv, TypeOK
  <1>6. slot'[s].type = type
    BY <1>4 DEF TInv, TypeOK
  <1>7. \A i \in IPs : /\ Open(i)' = Open(i) /\ Dying(i)' = Dying(i)
                       /\ DyingEarly(i)' = DyingEarly(i)
    BY <1>4, <1>5 DEF Open, Dying, DyingEarly, Live
  <1>8. \A i \in IPs : Early(i)' = IF counts /\ i = p THEN Early(i) \ {s} ELSE Early(i)
    BY <1>5, <1>6, <1>7 DEF Early, Open, Live
  <1>9. s \in Early(p)
    BY <1>1 DEF Early, Open
  <1>10. Cardinality(Early(p) \ {s}) = Cardinality(Early(p)) - 1
    BY <1>1, <1>9, FiniteCounts, FS_RemoveElement
  <1>11. Placed' /\ ConnsApart'
    BY <1>4, <1>5 DEF CInv, Placed, ConnsApart, Live, TInv, TypeOK, DeadClient
  <1>12. CountsExact'
    <2>1. ASSUME NEW i \in IPs
          PROVE  /\ hist'[i].alive = Cardinality(Open(i)') + Cardinality(Dying(i)')
                 /\ hist'[i].pending = Cardinality(Early(i)') + Cardinality(DyingEarly(i)')
      <3>1. /\ hist[i].alive = Cardinality(Open(i)) + Cardinality(Dying(i))
            /\ hist[i].pending = Cardinality(Early(i)) + Cardinality(DyingEarly(i))
        BY DEF CInv, CountsExact, Early, DyingEarly
      <3>2. /\ Cardinality(Open(i)) \in Nat /\ Cardinality(Dying(i)) \in Nat
            /\ Cardinality(Early(i)) \in Nat /\ Cardinality(DyingEarly(i)) \in Nat
        BY FiniteCounts
      <3>3. CASE i = p
        <4>1. hist'[i].alive = hist[i].alive /\ hist'[i].pending = x
          BY <1>3, <3>3
        <4>2. Cardinality(Early(i)') = IF counts THEN Cardinality(Early(i)) - 1
                                                 ELSE Cardinality(Early(i))
          BY <1>8, <1>10, <3>3
        <4>3. QED  BY <1>7, <3>1, <3>2, <3>3, <4>1, <4>2
      <3>4. CASE i # p
        BY <1>3, <1>7, <1>8, <3>1, <3>4
      <3>5. QED  BY <3>3, <3>4
    <2>2. QED  BY <2>1 DEF CountsExact, Early, DyingEarly
  <1>13. Remembered'
    BY <1>3, <1>4, <1>7 DEF CInv, Remembered
  <1>14. OneOverLimit'
    <2>1. ASSUME NEW i \in IPs
          PROVE  /\ ClientMaxIP > 0 => Cardinality(Open(i)') <= ClientMaxIP + 1
                 /\ ConnectingMaxIP > 0 => Cardinality(Early(i)') <= ConnectingMaxIP + 1
      <3>1. /\ ClientMaxIP > 0 => Cardinality(Open(i)) <= ClientMaxIP + 1
            /\ ConnectingMaxIP > 0 => Cardinality(Early(i)) <= ConnectingMaxIP + 1
        BY DEF CInv, OneOverLimit, Early
      <3>2. QED  BY <1>7, <1>8, <1>10, <3>1, FiniteCounts, Numbers
    <2>2. QED  BY <2>1 DEF OneOverLimit, Early
  <1>15. QED  BY <1>11, <1>12, <1>13, <1>14 DEF CInv

\* The connections in closing become clients to be deleted, one each.
LEMMA ClientsCount ==
  ASSUME TInv, ConnsApart, NEW A \in SUBSET Live, IsFiniteSet(A)
  PROVE  /\ IsFiniteSet(Clients(A)) /\ Cardinality(Clients(A)) = Cardinality(A)
         /\ Clients(A) \cap doomed = {}
  <1> DEFINE client(s) == [conn |-> slot[s].conn, slot |-> s, ip |-> slot[s].peer,
                           type |-> slot[s].type]
             image == {client(s) : s \in A}
             f == [s \in A |-> client(s)]
  <1>1. \A s \in A : client(s).slot = s /\ client(s).conn = slot[s].conn
    OBVIOUS
  <1>2. f \in Bijection(A, image)
    BY <1>1 DEF Bijection, Injection, Surjection, IsInjective
  <1>3. IsFiniteSet(image) /\ Cardinality(image) = Cardinality(A)
    BY <1>2, FS_Bijection DEF ExistsBijection
  <1>4. image \cap doomed = {}
    BY <1>1 DEF ConnsApart
  <1>5. QED  BY <1>3, <1>4 DEF Clients

LEMMA NetTickExact == ASSUME TInv, CInv, NetTick  PROVE CInv'
  <1>1. PICK closing \in SUBSET Live :
           /\ slot' = [s \in Slots |-> IF s \in closing
                         THEN [slot[s] EXCEPT !.conn = 0, !.type = "UNK"] ELSE slot[s]]
           /\ doomed' = doomed \cup Clients(closing)
    BY DEF NetTick, Clients
  <1>2. /\ \A s \in Slots : slot'[s].peer = slot[s].peer
        /\ \A s \in closing : slot'[s].conn = 0
        /\ \A s \in Slots \ closing : slot'[s] = slot[s]
    BY <1>1 DEF TInv, TypeOK, Live
  <1>3. Live' = Live \ closing
    BY <1>2 DEF Live
  <1>4. nconn' = nconn /\ stage' = "world"
    BY DEF NetTick
  <1> DEFINE gone(ip) == {s \in closing : slot[s].peer = ip}
             goneEarly(ip) == {s \in gone(ip) : slot[s].type # "GAME"}
  <1>5. ASSUME NEW ip \in IPs
        PROVE  /\ Open(ip)' = Open(ip) \ gone(ip)
               /\ Early(ip)' = Early(ip) \ goneEarly(ip)
               /\ Dying(ip)' = Dying(ip) \cup Clients(gone(ip))
               /\ DyingEarly(ip)' = DyingEarly(ip) \cup Clients(goneEarly(ip))
    <2>1. Open(ip)' = Open(ip) \ gone(ip)
      BY <1>2, <1>3 DEF Open, Live
    <2>2. Early(ip)' = Early(ip) \ goneEarly(ip)
      BY <1>2, <2>1 DEF Early, Open, Live
    <2>3. Dying(ip)' = Dying(ip) \cup Clients(gone(ip))
      <3>1. \A d : d \in Clients(gone(ip)) <=> d \in Clients(closing) /\ d.ip = ip
        BY DEF Clients
      <3>2. QED  BY <1>1, <3>1 DEF Dying
    <2>4. DyingEarly(ip)' = DyingEarly(ip) \cup Clients(goneEarly(ip))
      BY <2>3 DEF DyingEarly, Clients
    <2>5. QED  BY <2>1, <2>2, <2>3, <2>4
  <1>5a. ASSUME NEW ip \in IPs
         PROVE  /\ gone(ip) \in SUBSET Live /\ goneEarly(ip) \in SUBSET Live
                /\ gone(ip) \subseteq Open(ip) /\ goneEarly(ip) \subseteq Early(ip)
    BY DEF Open, Early
  <1> HIDE DEF gone, goneEarly
  <1>6. ASSUME NEW ip \in IPs
        PROVE  /\ Cardinality(Open(ip)') = Cardinality(Open(ip)) - Cardinality(gone(ip))
               /\ Cardinality(Early(ip)') = Cardinality(Early(ip)) - Cardinality(goneEarly(ip))
               /\ Cardinality(Dying(ip)') = Cardinality(Dying(ip)) + Cardinality(gone(ip))
               /\ Cardinality(DyingEarly(ip)')
                    = Cardinality(DyingEarly(ip)) + Cardinality(goneEarly(ip))
               /\ Cardinality(gone(ip)) \in Nat /\ Cardinality(goneEarly(ip)) \in Nat
    <2>1. gone(ip) \subseteq Open(ip) /\ goneEarly(ip) \subseteq Early(ip)
      BY <1>5a
    <2>2. /\ Open(ip) \cap gone(ip) = gone(ip)
          /\ Early(ip) \cap goneEarly(ip) = goneEarly(ip)
      BY <2>1
    <2>3. IsFiniteSet(gone(ip)) /\ IsFiniteSet(goneEarly(ip))
      BY <2>1, FiniteCounts, FS_Subset
    <2>4. /\ Cardinality(gone(ip)) \in Nat /\ Cardinality(goneEarly(ip)) \in Nat
      BY <2>3, FS_CardinalityType
    <2>5. /\ Cardinality(Open(ip)') = Cardinality(Open(ip)) - Cardinality(gone(ip))
          /\ Cardinality(Early(ip)') = Cardinality(Early(ip)) - Cardinality(goneEarly(ip))
      <3>1. /\ Cardinality(Open(ip) \ gone(ip))
                 = Cardinality(Open(ip)) - Cardinality(Open(ip) \cap gone(ip))
            /\ Cardinality(Early(ip) \ goneEarly(ip))
                 = Cardinality(Early(ip)) - Cardinality(Early(ip) \cap goneEarly(ip))
        BY FiniteCounts, FS_Difference
      <3>2. QED  BY <1>5, <2>2, <3>1
    <2>6. /\ IsFiniteSet(Clients(gone(ip)))
          /\ Cardinality(Clients(gone(ip))) = Cardinality(gone(ip))
          /\ Dying(ip) \cap Clients(gone(ip)) = {}
      BY <1>5a, <2>3, ClientsCount DEF CInv, Dying
    <2>7. /\ IsFiniteSet(Clients(goneEarly(ip)))
          /\ Cardinality(Clients(goneEarly(ip))) = Cardinality(goneEarly(ip))
          /\ DyingEarly(ip) \cap Clients(goneEarly(ip)) = {}
      BY <1>5a, <2>3, ClientsCount DEF CInv, Dying, DyingEarly
    <2>8. Cardinality(Dying(ip)') = Cardinality(Dying(ip)) + Cardinality(gone(ip))
      <3>1. Cardinality(Dying(ip) \cup Clients(gone(ip)))
              = Cardinality(Dying(ip)) + Cardinality(gone(ip)) - Cardinality({})
        BY <2>6, FiniteCounts, FS_Union
      <3>2. Cardinality({}) = 0 /\ Cardinality(Dying(ip)) \in Nat
        BY FiniteCounts, FS_EmptySet
      <3>3. Cardinality(Dying(ip)') = Cardinality(Dying(ip) \cup Clients(gone(ip)))
        BY <1>5
      <3>4. QED  BY <2>4, <3>1, <3>2, <3>3
    <2>9. Cardinality(DyingEarly(ip)')
            = Cardinality(DyingEarly(ip)) + Cardinality(goneEarly(ip))
      <3>1. Cardinality(DyingEarly(ip) \cup Clients(goneEarly(ip)))
              = Cardinality(DyingEarly(ip)) + Cardinality(goneEarly(ip)) - Cardinality({})
        BY <2>7, FiniteCounts, FS_Union
      <3>2. Cardinality({}) = 0 /\ Cardinality(DyingEarly(ip)) \in Nat
        BY FiniteCounts, FS_EmptySet
      <3>3. Cardinality(DyingEarly(ip)') = Cardinality(DyingEarly(ip) \cup Clients(goneEarly(ip)))
        BY <1>5
      <3>4. QED  BY <2>4, <3>1, <3>2, <3>3
    <2>10. QED  BY <2>4, <2>5, <2>8, <2>9
  <1>7. ASSUME NEW ip \in IPs, ip \notin known'
        PROVE  /\ hist[ip].alive = 0 /\ hist[ip].pending = 0
               /\ hist'[ip].alive = 0 /\ hist'[ip].pending = 0 /\ ~hist'[ip].blocked
    <2>1. hist'[ip].alive = 0 /\ hist'[ip].pending = 0 /\ ~hist'[ip].blocked
      BY <1>7 DEF NetTick, Fresh
    <2>2. hist[ip] \in Entry /\ hist[ip].ttl >= 0
      BY DEF TInv, TypeOK
    <2>3. CASE ip \in known
      <3>1. ~(Ticked(hist[ip]).ttl >= 0) /\ Ticked(hist[ip]) \in Entry
        BY <1>7, <2>2, <2>3, EntryTypes DEF NetTick
      <3>2. Ticked(hist[ip]).ttl < hist[ip].ttl
        BY <2>2, <3>1 DEF Entry
      <3>3. QED  BY <2>1, <2>2, <3>2, EntryCounts
    <2>4. CASE ip \notin known
      <3>1. Open(ip) = {} /\ Dying(ip) = {} /\ Early(ip) = {} /\ DyingEarly(ip) = {}
        BY <2>4 DEF CInv, Remembered, Early, DyingEarly
      <3>2. /\ hist[ip].alive = Cardinality(Open(ip)) + Cardinality(Dying(ip))
            /\ hist[ip].pending = Cardinality(Early(ip)) + Cardinality(DyingEarly(ip))
        BY DEF CInv, CountsExact, Early, DyingEarly
      <3>3. QED  BY <2>1, <3>1, <3>2, FS_EmptySet
    <2>5. QED  BY <2>3, <2>4
  <1>8. ASSUME NEW ip \in IPs
        PROVE  hist'[ip].alive = hist[ip].alive /\ hist'[ip].pending = hist[ip].pending
    <2>1. CASE ip \in known'
      BY ZenonT(30), <2>1, EntryCounts DEF NetTick, TInv, TypeOK
    <2>2. QED  BY <1>7, <2>1
  <1>9. Placed' /\ ConnsApart'
    <2>1. \A d \in Clients(closing) :
             /\ d.slot \in closing /\ d.ip = slot[d.slot].peer /\ d.conn = slot[d.slot].conn
      BY DEF Clients
    <2>2. Placed'
      BY <1>1, <1>2, <1>4, <2>1 DEF CInv, Placed, TInv, TypeOK, DeadClient, Live
    <2>3. ConnsApart'
      <3>1. \A s \in Live : slot[s].conn <= nconn
        BY DEF CInv, ConnsApart
      <3>2. \A s, r \in Live : slot[s].conn = slot[r].conn => s = r
        BY DEF CInv, ConnsApart
      <3>3. /\ \A d \in doomed : d.conn <= nconn
            /\ \A s \in Live, d \in doomed : d.conn # slot[s].conn
        BY DEF CInv, ConnsApart
      <3>4. /\ \A s \in Live' : s \in Live /\ s \notin closing /\ slot'[s] = slot[s]
            /\ \A d \in doomed' : d \in doomed \/ d \in Clients(closing)
        BY <1>1, <1>2, <1>3 DEF Live
      <3>5. \A d \in doomed' : d.conn <= nconn
        BY <2>1, <3>1, <3>3, <3>4
      <3>6. \A s \in Live', d \in doomed' : d.conn # slot'[s].conn
        BY <2>1, <3>2, <3>3, <3>4
      <3>7. QED
        BY <1>4, <3>1, <3>2, <3>4, <3>5, <3>6 DEF ConnsApart
    <2>4. QED  BY <2>2, <2>3
  <1>10. CountsExact'
    <2>1. ASSUME NEW ip \in IPs
          PROVE  /\ hist'[ip].alive = Cardinality(Open(ip)') + Cardinality(Dying(ip)')
                 /\ hist'[ip].pending = Cardinality(Early(ip)') + Cardinality(DyingEarly(ip)')
      <3>1. /\ hist[ip].alive = Cardinality(Open(ip)) + Cardinality(Dying(ip))
            /\ hist[ip].pending = Cardinality(Early(ip)) + Cardinality(DyingEarly(ip))
        BY DEF CInv, CountsExact, Early, DyingEarly
      <3>2. /\ Cardinality(Open(ip)) \in Nat /\ Cardinality(Dying(ip)) \in Nat
            /\ Cardinality(Early(ip)) \in Nat /\ Cardinality(DyingEarly(ip)) \in Nat
        BY FiniteCounts
      <3>3. QED  BY <1>6, <1>8, <3>1, <3>2
    <2>2. QED  BY <2>1 DEF CountsExact, Early, DyingEarly
  <1>11. Remembered'
    <2>1. ASSUME NEW ip \in IPs, ip \notin known'
          PROVE  Open(ip)' = {} /\ Dying(ip)' = {}
      <3>1. /\ hist[ip].alive = Cardinality(Open(ip)) + Cardinality(Dying(ip))
            /\ hist[ip].alive = 0
        BY <1>7, <2>1 DEF CInv, CountsExact
      <3>2. Open(ip) = {} /\ Dying(ip) = {}
        BY <3>1, FiniteCounts, FS_EmptySet
      <3>3. gone(ip) = {}
        BY <1>5a, <3>2
      <3>4. QED  BY <1>5, <3>2, <3>3 DEF Clients
    <2>2. QED  BY <1>7, <2>1 DEF Remembered
  <1>12. OneOverLimit'
    <2>1. ASSUME NEW ip \in IPs
          PROVE  /\ ClientMaxIP > 0 => Cardinality(Open(ip)') <= ClientMaxIP + 1
                 /\ ConnectingMaxIP > 0 => Cardinality(Early(ip)') <= ConnectingMaxIP + 1
      <3>1. /\ ClientMaxIP > 0 => Cardinality(Open(ip)) <= ClientMaxIP + 1
            /\ ConnectingMaxIP > 0 => Cardinality(Early(ip)) <= ConnectingMaxIP + 1
        BY DEF CInv, OneOverLimit, Early
      <3>2. Cardinality(Open(ip)) \in Nat /\ Cardinality(Early(ip)) \in Nat
        BY FiniteCounts
      <3>3. QED  BY <1>6, <3>1, <3>2, Numbers
    <2>2. QED  BY <2>1 DEF OneOverLimit, Early
  <1>13. QED  BY <1>9, <1>10, <1>11, <1>12 DEF CInv

LEMMA CInvNext == ASSUME Plain  PROVE TInv /\ CInv /\ [Next]_vars => CInv'
  <1> SUFFICES ASSUME TInv, CInv, [Next]_vars  PROVE CInv'
    OBVIOUS
  <1>1. CASE WorldTick  BY <1>1, WorldTickExact
  <1>2. CASE WorldSkip  BY <1>2, CountsKept DEF WorldSkip
  <1>3. CASE AcceptNone  BY <1>3, CountsKept DEF AcceptNone
  <1>4. CASE InputDone  BY <1>4, CountsKept DEF InputDone
  <1>5. CASE NetTick  BY <1>5, NetTickExact
  <1>6. ASSUME NEW ip \in IPs,
               Reject(ip) \/ NoSlot(ip) \/ Accept(ip) \/ BlockIP(ip) \/ UnblockIP(ip)
        PROVE  CInv'
    BY <1>6, RejectExact, AcceptExact, CommandExact
  <1>7. ASSUME NEW s \in Slots,
               Login(s) \/ NotLogin(s) \/ Play(s) \/ Console(s) \/ Status(s)
        PROVE  CInv'
    BY <1>7, SetConnectTypeExact
    DEF Plain, Login, NotLogin, Play, Console, Status, Types
  <1>8. CASE UNCHANGED vars  BY <1>8, CountsKept DEF vars
  <1>9. QED
    BY <1>1, <1>2, <1>3, <1>4, <1>5, <1>6, <1>7, <1>8 DEF Next

LEMMA CInvAlways == ASSUME Plain  PROVE Spec => []CInv
  BY CInvInit, CInvNext, TInvAlways, PTL DEF Spec

\* Where only game clients connect, and no slot gets another address before its
\* client is deleted, the counters of CIPHistoryManager are the numbers of
\* connections and of pending connections of every address.
THEOREM CountsStayExact == ASSUME Plain  PROVE Spec => []CountsExact
  <1>1. CInv => CountsExact  BY DEF CInv
  <1>2. QED  BY <1>1, CInvAlways, PTL

\* There, an address that is banned or has connections is never forgotten.
THEOREM NobodyIsForgotten == ASSUME Plain  PROVE Spec => []Remembered
  <1>1. CInv => Remembered  BY DEF CInv
  <1>2. QED  BY <1>1, CInvAlways, PTL

\* There, an address has at most one connection more than each limit of
\* acceptNewConnection() says.
THEOREM LimitsHold == ASSUME Plain  PROVE Spec => []OneOverLimit
  <1>1. CInv => OneOverLimit  BY DEF CInv
  <1>2. QED  BY <1>1, CInvAlways, PTL
-----------------------------------------------------------------------------
(***************************************************************************)
(* Every connection is counted once, whatever its kind and however slots   *)
(* are used again.  What an address has too much, another owes: marks are  *)
(* sums over the addresses, and they add up.                               *)
(***************************************************************************)
LEMMA MarksAre ==
  ASSUME NEW n, NEW t
  PROVE  t \in Marks(n) <=> \E ip \in IPs : \E k \in 1..n[ip] : t = <<ip, k>>
  BY DEF Marks

LEMMA MarksFinite ==
  ASSUME NEW n \in [IPs -> Int]
  PROVE  IsFiniteSet(Marks(n)) /\ Cardinality(Marks(n)) \in Nat
  <1> DEFINE column == [ip \in IPs |-> {ip} \X (1..n[ip])]
             columns == {{ip} \X (1..n[ip]) : ip \in IPs}
  <1>1. column \in Surjection(IPs, columns)
    BY DEF Surjection
  <1>2. IsFiniteSet(columns)
    BY <1>1, ConstantsAssumption, FS_Surjection
  <1>3. ASSUME NEW ip \in IPs  PROVE IsFiniteSet({ip} \X (1..n[ip]))
    <2>1. IsFiniteSet(1..n[ip])
      BY FS_Interval
    <2>2. IsFiniteSet({ip})
      BY FS_Singleton
    <2>3. QED  BY <2>1, <2>2, FS_Product
  <1>4. \A T \in columns : IsFiniteSet(T)
    BY <1>3
  <1>5. IsFiniteSet(UNION columns)
    BY <1>2, <1>4, FS_UNION
  <1>6. QED
    BY <1>5, FS_CardinalityType DEF Marks

\* the marks of a sum: as many as those of both
LEMMA MarksAdd ==
  ASSUME NEW n \in [IPs -> Nat], NEW m \in [IPs -> Nat]
  PROVE  Cardinality(Marks([ip \in IPs |-> n[ip] + m[ip]]))
           = Cardinality(Marks(n)) + Cardinality(Marks(m))
  <1> DEFINE sum == [ip \in IPs |-> n[ip] + m[ip]]
             upper == Marks(sum) \ Marks(n)
             shift == [t \in Marks(m) |-> <<t[1], n[t[1]] + t[2]>>]
  <1>1. /\ n \in [IPs -> Int] /\ m \in [IPs -> Int] /\ sum \in [IPs -> Int]
        /\ \A ip \in IPs : sum[ip] = n[ip] + m[ip]
    OBVIOUS
  <1> HIDE DEF sum
  <1>2. Marks(n) \subseteq Marks(sum)
    <2> SUFFICES ASSUME NEW ip \in IPs, NEW k \in 1..n[ip]
                 PROVE  <<ip, k>> \in Marks(sum)
      BY MarksAre
    <2>1. k \in 1..sum[ip]
      BY <1>1
    <2>2. QED  BY <2>1, MarksAre
  <1>3. \A ip \in IPs, k \in Int :
           <<ip, k>> \in upper <=> k > n[ip] /\ k <= n[ip] + m[ip]
    <2> SUFFICES ASSUME NEW ip \in IPs, NEW k \in Int
                 PROVE  <<ip, k>> \in upper <=> k > n[ip] /\ k <= n[ip] + m[ip]
      OBVIOUS
    <2>1. <<ip, k>> \in Marks(sum) <=> k \in 1..sum[ip]
      BY MarksAre
    <2>2. <<ip, k>> \in Marks(n) <=> k \in 1..n[ip]
      BY MarksAre
    <2>3. QED  BY <1>1, <2>1, <2>2
  <1>4. \A t \in upper : \E ip \in IPs, k \in Int : t = <<ip, k>>
    BY MarksAre
  <1>5. shift \in Bijection(Marks(m), upper)
    <2>1. ASSUME NEW t \in Marks(m)
          PROVE  /\ t[1] \in IPs /\ t[2] \in 1..m[t[1]] /\ t = <<t[1], t[2]>>
                 /\ shift[t] = <<t[1], n[t[1]] + t[2]>>
                 /\ shift[t] \in upper
      <3>1. PICK ip \in IPs : \E k \in 1..m[ip] : t = <<ip, k>>
        BY MarksAre
      <3>2. PICK k \in 1..m[ip] : t = <<ip, k>>
        BY <3>1
      <3>3. t[1] = ip /\ t[2] = k
        BY <3>2
      <3>4. <<ip, n[ip] + k>> \in upper
        BY <1>1, <1>3
      <3>5. QED  BY <3>2, <3>3, <3>4
    <2>2. shift \in [Marks(m) -> upper]
      BY <2>1
    <2>3. ASSUME NEW t \in Marks(m), NEW u \in Marks(m), shift[t] = shift[u]
          PROVE  t = u
      <3>1. t[1] = u[1] /\ n[t[1]] + t[2] = n[u[1]] + u[2]
        BY <2>1, <2>3
      <3>2. t[2] = u[2]
        <4>1. t[1] \in IPs /\ u[1] \in IPs /\ t[2] \in 1..m[t[1]] /\ u[2] \in 1..m[u[1]]
          BY <2>1
        <4>2. n[t[1]] \in Nat /\ m[t[1]] \in Nat /\ m[u[1]] \in Nat
          BY <4>1
        <4>3. t[2] \in Int /\ u[2] \in Int
          BY <4>1, <4>2
        <4>4. QED  BY <3>1, <4>2, <4>3
      <3>3. QED  BY <2>1, <3>1, <3>2
    <2>4. ASSUME NEW u \in upper  PROVE \E t \in Marks(m) : shift[t] = u
      <3>1. PICK ip \in IPs, k \in Int : u = <<ip, k>>
        BY <1>4
      <3>2. k - n[ip] \in 1..m[ip]
        BY <1>1, <1>3, <3>1
      <3>3. <<ip, k - n[ip]>> \in Marks(m)
        BY <3>2, MarksAre
      <3>4. shift[<<ip, k - n[ip]>>] = <<ip, n[ip] + (k - n[ip])>>
        BY <3>3
      <3>5. n[ip] + (k - n[ip]) = k
        BY <1>1
      <3>6. QED  BY <3>1, <3>3, <3>4, <3>5
    <2> HIDE DEF shift, upper
    <2>5. shift \in Surjection(Marks(m), upper)
      BY <2>2, <2>4 DEF Surjection
    <2>6. shift \in Injection(Marks(m), upper)
      BY <2>2, <2>3 DEF Injection, IsInjective
    <2>7. QED  BY <2>5, <2>6 DEF Bijection
  <1> HIDE DEF shift
  <1>6. IsFiniteSet(upper) /\ Cardinality(upper) = Cardinality(Marks(m))
    BY <1>1, <1>5, MarksFinite, FS_Bijection DEF ExistsBijection
  <1>7. Marks(sum) = Marks(n) \cup upper /\ Marks(n) \cap upper = {}
    BY <1>2
  <1> HIDE DEF upper
  <1>8. Cardinality(Marks(sum))
          = Cardinality(Marks(n)) + Cardinality(upper) - Cardinality({})
    BY <1>1, <1>6, <1>7, MarksFinite, FS_Union
  <1>9. Cardinality({}) = 0 /\ Cardinality(Marks(n)) \in Nat /\ Cardinality(Marks(m)) \in Nat
    BY <1>1, MarksFinite, FS_EmptySet
  <1>10. QED  BY <1>6, <1>8, <1>9 DEF sum

\* a below zero is no marks
Positive(n) == [ip \in IPs |-> IF n[ip] > 0 THEN n[ip] ELSE 0]

LEMMA MarksPositive ==
  ASSUME NEW n \in [IPs -> Int]
  PROVE  Positive(n) \in [IPs -> Nat] /\ Marks(Positive(n)) = Marks(n)
  <1>1. Positive(n) \in [IPs -> Nat]
    BY DEF Positive
  <1>2. ASSUME NEW ip \in IPs, NEW k
        PROVE  k \in 1..Positive(n)[ip] <=> k \in 1..n[ip]
    BY DEF Positive
  <1>3. \A t : t \in Marks(Positive(n)) <=> t \in Marks(n)
    BY <1>2, MarksAre
  <1>4. QED  BY <1>1, <1>3

\* Taking c off a, address by address, takes Cardinality(Marks(c)) off the sum.
LEMMA MarksBalance ==
  ASSUME NEW a \in [IPs -> Int], NEW b \in [IPs -> Int], NEW c \in [IPs -> Nat],
         \A ip \in IPs : b[ip] = a[ip] - c[ip]
  PROVE  Cardinality(Marks(a)) + Cardinality(Marks([ip \in IPs |-> -b[ip]]))
           = Cardinality(Marks(b)) + Cardinality(Marks([ip \in IPs |-> -a[ip]]))
                 + Cardinality(Marks(c))
  <1> DEFINE na == [ip \in IPs |-> -a[ip]]
             nb == [ip \in IPs |-> -b[ip]]
             plus(f, g) == [ip \in IPs |-> f[ip] + g[ip]]
  <1>1. /\ na \in [IPs -> Int] /\ nb \in [IPs -> Int]
        /\ \A ip \in IPs : na[ip] = -a[ip] /\ nb[ip] = -b[ip]
    OBVIOUS
  <1> HIDE DEF na, nb
  <1>2. /\ Positive(a) \in [IPs -> Nat] /\ Positive(b) \in [IPs -> Nat]
        /\ Positive(na) \in [IPs -> Nat] /\ Positive(nb) \in [IPs -> Nat]
        /\ Marks(Positive(a)) = Marks(a) /\ Marks(Positive(b)) = Marks(b)
        /\ Marks(Positive(na)) = Marks(na) /\ Marks(Positive(nb)) = Marks(nb)
    BY <1>1, MarksPositive
  <1>3. plus(Positive(b), Positive(na)) \in [IPs -> Nat]
    BY <1>2
  <1>4. plus(Positive(a), Positive(nb)) = plus(plus(Positive(b), Positive(na)), c)
    <2>1. ASSUME NEW ip \in IPs
          PROVE  Positive(a)[ip] + Positive(nb)[ip]
                   = (Positive(b)[ip] + Positive(na)[ip]) + c[ip]
      BY <1>1 DEF Positive
    <2>2. QED  BY <2>1
  <1>5. Cardinality(Marks(plus(Positive(a), Positive(nb))))
          = Cardinality(Marks(a)) + Cardinality(Marks(nb))
    BY <1>2, MarksAdd
  <1>6. Cardinality(Marks(plus(Positive(b), Positive(na))))
          = Cardinality(Marks(b)) + Cardinality(Marks(na))
    BY <1>2, MarksAdd
  <1>7. Cardinality(Marks(plus(plus(Positive(b), Positive(na)), c)))
          = Cardinality(Marks(plus(Positive(b), Positive(na)))) + Cardinality(Marks(c))
    BY <1>3, MarksAdd
  <1>8. QED  BY <1>4, <1>5, <1>6, <1>7 DEF na, nb

\* An address without an entry counts nothing.
Forgotten == \A ip \in IPs \ known : hist[ip].alive = 0

Sums == ConnsApart /\ Forgotten /\ AllCounted

Alive == [ip \in IPs |-> hist[ip].alive]
Owed  == [ip \in IPs |-> -hist[ip].alive]

LEMMA AliveTypes ==
  ASSUME TInv
  PROVE  /\ Alive \in [IPs -> Int] /\ Owed \in [IPs -> Int]
         /\ Cardinality(Marks(Alive)) \in Nat /\ Cardinality(Marks(Owed)) \in Nat
         /\ IsFiniteSet(Live) /\ Cardinality(Live) \in Nat
         /\ IsFiniteSet(doomed) /\ Cardinality(doomed) \in Nat
         /\ AllCounted <=> Cardinality(Marks(Alive))
                             = Cardinality(Live) + Cardinality(doomed) + Cardinality(Marks(Owed))
  <1>1. Alive \in [IPs -> Int] /\ Owed \in [IPs -> Int]
    BY DEF Alive, Owed, TInv, TypeOK, Entry
  <1>2. Cardinality(Marks(Alive)) \in Nat /\ Cardinality(Marks(Owed)) \in Nat
    BY <1>1, MarksFinite
  <1>3. IsFiniteSet(Live) /\ IsFiniteSet(doomed)
    BY Numbers, FS_Subset DEF Live, TInv
  <1>4. QED
    BY <1>1, <1>2, <1>3, FS_CardinalityType DEF AllCounted, Alive, Owed

LEMMA SumsInit == Init => Sums
  <1> SUFFICES ASSUME Init  PROVE Sums
    OBVIOUS
  <1>1. Live = {} /\ doomed = {}
    BY DEF Init, Live
  <1>2. \A ip \in IPs : hist[ip].alive = 0
    BY DEF Init, Fresh
  <1>3. ConnsApart /\ Forgotten
    BY <1>1, <1>2 DEF ConnsApart, Forgotten
  <1>4. \A ip \in IPs : 1..Alive[ip] = {} /\ 1..Owed[ip] = {}
    BY <1>2 DEF Alive, Owed
  <1>5. Marks(Alive) = {} /\ Marks(Owed) = {}
    BY <1>4, MarksAre
  <1>6. AllCounted
    <2>1. Cardinality(Marks(Alive)) = 0 /\ Cardinality(Marks(Owed)) = 0
      BY <1>5, FS_EmptySet
    <2>2. Cardinality(Live) = 0 /\ Cardinality(doomed) = 0
      BY <1>1, FS_EmptySet
    <2>3. Cardinality(Marks(Alive))
            = Cardinality(Live) + Cardinality(doomed) + Cardinality(Marks(Owed))
      BY <2>1, <2>2
    <2>4. QED  BY <2>3 DEF AllCounted, Alive, Owed
  <1>7. QED  BY <1>3, <1>6 DEF Sums

\* A step that changes no connection and no count of open ones.
LEMMA SumsKept ==
  ASSUME TInv, Sums, UNCHANGED <<doomed, nconn>>,
         \A s \in Slots : slot'[s].conn = slot[s].conn,
         \A ip \in IPs : hist'[ip].alive = hist[ip].alive,
         known \subseteq known'
  PROVE  Sums'
  <1>1. Live' = Live
    BY DEF Live
  <1>2. ConnsApart'
    BY <1>1 DEF Sums, ConnsApart, Live
  <1>3. Forgotten'
    BY DEF Sums, Forgotten
  <1>4. /\ [ip \in IPs |-> hist'[ip].alive] = [ip \in IPs |-> hist[ip].alive]
        /\ [ip \in IPs |-> -hist'[ip].alive] = [ip \in IPs |-> -hist[ip].alive]
    BY ZenonT(60)
  <1>5. AllCounted'
    BY <1>1, <1>4 DEF Sums, AllCounted, Marks
  <1>6. QED  BY <1>2, <1>3, <1>5 DEF Sums

\* A sum that goes down by the marks of c.
LEMMA SumsBalance ==
  ASSUME TInv, TInv', NEW c \in [IPs -> Nat],
         \A ip \in IPs : hist'[ip].alive = hist[ip].alive - c[ip]
  PROVE  /\ Cardinality(Marks(Alive)') \in Nat /\ Cardinality(Marks(Owed)') \in Nat
         /\ Cardinality(Marks(Alive)) + Cardinality(Marks(Owed)')
              = Cardinality(Marks(Alive)') + Cardinality(Marks(Owed)) + Cardinality(Marks(c))
  <1> DEFINE b == [ip \in IPs |-> hist'[ip].alive]
  <1>1. /\ Alive \in [IPs -> Int]
        /\ \A ip \in IPs : Alive[ip] = hist[ip].alive
    BY AliveTypes DEF Alive
  <1>2. b \in [IPs -> Int] /\ \A ip \in IPs : b[ip] = Alive[ip] - c[ip]
    BY <1>1 DEF TInv, TypeOK, Entry
  <1>3. /\ [ip \in IPs |-> -b[ip]] = [ip \in IPs |-> -hist'[ip].alive]
        /\ [ip \in IPs |-> -Alive[ip]] = Owed
    BY <1>1 DEF Owed
  <1>4. /\ Marks(Alive)' = Marks(b)
        /\ Marks(Owed)' = Marks([ip \in IPs |-> -hist'[ip].alive])
    BY DEF Marks, Alive, Owed
  <1>5. [ip \in IPs |-> -b[ip]] \in [IPs -> Int]
    BY <1>2
  <1> HIDE DEF b
  <1>6. Cardinality(Marks(Alive)') \in Nat /\ Cardinality(Marks(Owed)') \in Nat
    BY <1>2, <1>3, <1>4, <1>5, MarksFinite
  <1>7. QED  BY <1>1, <1>2, <1>3, <1>4, <1>6, MarksBalance

\* The clients to be deleted, by the address each is counted out at.
There(ip) == {d \in doomed : slot[d.slot].peer = ip}

LEMMA DoomedMarks ==
  ASSUME TInv
  PROVE  Cardinality(Marks([ip \in IPs |-> Cardinality(There(ip))])) = Cardinality(doomed)
  <1> DEFINE c == [ip \in IPs |-> Cardinality(There(ip))]
  <1>1. ASSUME NEW ip \in IPs
        PROVE  /\ IsFiniteSet(There(ip)) /\ Cardinality(There(ip)) \in Nat
               /\ \E f : f \in Bijection(1..Cardinality(There(ip)), There(ip))
    <2>1. IsFiniteSet(There(ip))
      BY FS_Subset DEF TInv, There
    <2>2. QED  BY <2>1, FS_CardinalityType DEF ExistsBijection
  <1>2. c \in [IPs -> Nat] /\ \A ip \in IPs : c[ip] = Cardinality(There(ip))
    BY <1>1
  <1> HIDE DEF c
  <1> DEFINE nth == [ip \in IPs |-> CHOOSE f : f \in Bijection(1..c[ip], There(ip))]
             client == [t \in Marks(c) |-> nth[t[1]][t[2]]]
  <1>3. ASSUME NEW ip \in IPs
        PROVE  /\ nth[ip] \in [1..c[ip] -> There(ip)]
               /\ \A j, k \in 1..c[ip] : nth[ip][j] = nth[ip][k] => j = k
               /\ \A d \in There(ip) : \E k \in 1..c[ip] : nth[ip][k] = d
    <2>1. nth[ip] \in Bijection(1..c[ip], There(ip))
      BY <1>1, <1>2
    <2> HIDE DEF nth
    <2>2. QED  BY <2>1 DEF Bijection, Injection, Surjection, IsInjective
  <1> HIDE DEF nth
  <1>4. ASSUME NEW t \in Marks(c)
        PROVE  /\ t[1] \in IPs /\ t[2] \in 1..c[t[1]] /\ t = <<t[1], t[2]>>
               /\ client[t] = nth[t[1]][t[2]]
               /\ client[t] \in There(t[1])
    <2>1. PICK ip \in IPs : \E k \in 1..c[ip] : t = <<ip, k>>
      BY MarksAre
    <2>2. PICK k \in 1..c[ip] : t = <<ip, k>>
      BY <2>1
    <2>3. t[1] = ip /\ t[2] = k
      BY <2>2
    <2>4. QED  BY <1>3, <2>2, <2>3
  <1>5. client \in [Marks(c) -> doomed]
    BY <1>4 DEF There
  <1>6. ASSUME NEW t \in Marks(c), NEW u \in Marks(c), client[t] = client[u]
        PROVE  t = u
    <2>1. t[1] = u[1]
      BY <1>4, <1>6 DEF There
    <2>2. t[2] = u[2]
      BY <1>3, <1>4, <1>6, <2>1
    <2>3. QED  BY <1>4, <2>1, <2>2
  <1>7. ASSUME NEW d \in doomed  PROVE \E t \in Marks(c) : client[t] = d
    <2>1. slot[d.slot].peer \in IPs /\ d \in There(slot[d.slot].peer)
      BY DEF TInv, Addressed, There
    <2>2. PICK ip \in IPs : d \in There(ip)
      BY <2>1
    <2>3. PICK k \in 1..c[ip] : nth[ip][k] = d
      BY <1>3, <2>2
    <2>4. <<ip, k>> \in Marks(c)
      BY <2>3, MarksAre
    <2>5. client[<<ip, k>>] = d
      BY <2>3, <2>4
    <2>6. QED  BY <2>4, <2>5
  <1> HIDE DEF client
  <1>8. client \in Surjection(Marks(c), doomed)
    BY <1>5, <1>7 DEF Surjection
  <1>9. client \in Injection(Marks(c), doomed)
    BY <1>5, <1>6 DEF Injection, IsInjective
  <1>10. IsFiniteSet(Marks(c))
    BY <1>2, MarksFinite
  <1>11. Cardinality(doomed) = Cardinality(Marks(c))
    BY <1>8, <1>9, <1>10, FS_Surjection
  <1>12. QED  BY <1>11 DEF c

LEMMA WorldTickSums == ASSUME TInv, Sums, WorldTick  PROVE Sums'
  <1>1. PICK second \in BOOLEAN :
           hist' = [ip \in IPs |-> IF second THEN Older(CountedOut(doomed, ip))
                                             ELSE CountedOut(doomed, ip)]
    BY DEF WorldTick
  <1>2. /\ doomed' = {} /\ slot' = slot /\ nconn' = nconn
        /\ known' = known \cup {slot[d.slot].peer : d \in doomed}
    BY DEF WorldTick
  <1> DEFINE c == [ip \in IPs |-> Cardinality(There(ip))]
  <1>3. ASSUME NEW ip \in IPs
        PROVE  /\ Cardinality(There(ip)) \in Nat
               /\ hist'[ip].alive = hist[ip].alive - Cardinality(There(ip))
    <2>1. IsFiniteSet(There(ip))
      BY FS_Subset DEF TInv, There
    <2>2. Cardinality(There(ip)) \in Nat
      BY <2>1, FS_CardinalityType
    <2>3. hist[ip] \in Entry /\ CountedOut(doomed, ip) \in Entry
      BY CountedOutType DEF TInv, TypeOK
    <2>4. CountedOut(doomed, ip).alive = hist[ip].alive - Cardinality(There(ip))
      BY <2>3 DEF CountedOut, Entry, There
    <2>5. QED  BY <1>1, <2>2, <2>3, <2>4, EntryCounts
  <1>4. c \in [IPs -> Nat] /\ \A ip \in IPs : hist'[ip].alive = hist[ip].alive - c[ip]
    BY <1>3
  <1>5. Cardinality(Marks(c)) = Cardinality(doomed)
    BY DoomedMarks
  <1> HIDE DEF c
  <1>6. TInv'
    BY WorldTickTypes
  <1>7. Cardinality(Marks(Alive)) + Cardinality(Marks(Owed)')
          = Cardinality(Marks(Alive)') + Cardinality(Marks(Owed)) + Cardinality(doomed)
    BY <1>4, <1>5, <1>6, SumsBalance
  <1>8. Live' = Live /\ Cardinality(doomed') = 0
    BY <1>2, FS_EmptySet DEF Live
  <1>9. AllCounted'
    <2>1. Cardinality(Marks(Alive))
            = Cardinality(Live) + Cardinality(doomed) + Cardinality(Marks(Owed))
      BY AliveTypes DEF Sums
    <2>2. Cardinality(Marks(Alive)') \in Nat /\ Cardinality(Marks(Owed)') \in Nat
      BY <1>4, <1>6, SumsBalance
    <2>3. Cardinality(Marks(Alive)')
            = Cardinality(Live') + Cardinality(doomed') + Cardinality(Marks(Owed)')
      BY <1>7, <1>8, <2>1, <2>2, AliveTypes
    <2>4. QED  BY <2>3 DEF AllCounted, Alive, Owed
  <1>10. Forgotten'
    <2>1. ASSUME NEW ip \in IPs \ known'  PROVE hist'[ip].alive = 0
      <3>1. There(ip) = {} /\ ip \notin known
        BY <1>2, <2>1 DEF There
      <3>2. Cardinality(There(ip)) = 0 /\ hist[ip].alive = 0
        BY <3>1, FS_EmptySet DEF Sums, Forgotten
      <3>3. QED  BY <1>3, <3>2
    <2>2. QED  BY <2>1 DEF Forgotten
  <1>11. ConnsApart'
    BY <1>2, <1>8 DEF Sums, ConnsApart
  <1>12. QED  BY <1>9, <1>10, <1>11 DEF Sums

\* An attempt that is turned away, and the administrator's commands.
LEMMA HandlersSums ==
  ASSUME TInv, Sums, NEW ip \in IPs,
         Reject(ip) \/ NoSlot(ip) \/ BlockIP(ip) \/ UnblockIP(ip)
  PROVE  Sums'
  <1>1. hist[ip] \in Entry
    BY DEF TInv, TypeOK
  <1>2. PICK h \in Entry : /\ hist' = [hist EXCEPT ![ip] = h]
                           /\ h.alive = hist[ip].alive
    <2> DEFINE g == Pinged(Requested(ip))
    <2>1. ASSUME Reject(ip) \/ NoSlot(ip)
          PROVE  g \in Entry /\ g.alive = hist[ip].alive
      <3>1. /\ Requested(ip) \in Entry
            /\ Requested(ip).alive = hist[ip].alive
        BY <1>1, <2>1, AttemptCounts DEF Requested, Entry, Reject, NoSlot
      <3>2. QED  BY <2>1, <3>1, AttemptCounts, EntryCounts DEF Reject, NoSlot
    <2> HIDE DEF g
    <2>2. ASSUME NEW h \in Entry, h.alive = hist[ip].alive, NEW left \in Int
          PROVE  /\ Blocked(h, left) \in Entry /\ Blocked(h, left).alive = hist[ip].alive
                 /\ Unblocked(h) \in Entry /\ Unblocked(h).alive = hist[ip].alive
      <3>1. Blocked(h, left) \in Entry /\ Unblocked(h) \in Entry
        BY EntryTypes
      <3>2. Blocked(h, left).alive = h.alive /\ Unblocked(h).alive = h.alive
        BY EntryCounts
      <3>3. QED  BY <2>2, <3>1, <3>2
    <2>3. CASE Reject(ip) \/ NoSlot(ip)
      <3>1. \/ hist' = [hist EXCEPT ![ip] = g]
            \/ \E left \in Int : hist' = [hist EXCEPT ![ip] = Blocked(g, left)]
        BY <2>3, BanTypes DEF Reject, NoSlot, g
      <3>2. QED  BY <2>1, <2>2, <2>3, <3>1
    <2>4. CASE BlockIP(ip) \/ UnblockIP(ip)
      <3>1. \/ \E left \in Int : hist' = [hist EXCEPT ![ip] = Blocked(hist[ip], left)]
            \/ hist' = [hist EXCEPT ![ip] = Unblocked(hist[ip])]
        BY <2>4, BanTypes DEF BlockIP, UnblockIP, Command
      <3>2. 0 \in Int
        OBVIOUS
      <3>3. QED  BY <1>1, <2>2, <3>1, <3>2
    <2>5. QED  BY <2>3, <2>4
  <1>3. \A i \in IPs : hist'[i].alive = hist[i].alive
    BY <1>2 DEF TInv, TypeOK
  <1>4. UNCHANGED <<slot, doomed, nconn>> /\ known \subseteq known'
    BY DEF Reject, NoSlot, BlockIP, UnblockIP, Attempt, Command, Remember
  <1>5. QED  BY <1>3, <1>4, SumsKept

LEMMA AcceptSums == ASSUME TInv, Sums, NEW ip \in IPs, Accept(ip)  PROVE Sums'
  <1>1. Attempt(ip)  BY DEF Accept
  <1>2. PICK s \in Slots \ Live :
           slot' = [slot EXCEPT ![s] = [conn |-> nconn', type |-> "UNK", peer |-> ip]]
    BY DEF Accept
  <1>3. /\ nconn' = nconn + 1 /\ nconn \in Nat /\ doomed' = doomed
        /\ known' = known \cup {ip}
    BY <1>1 DEF Accept, Attempt, Remember, TInv, TypeOK
  <1>4. /\ Live' = Live \cup {s} /\ \A r \in Live : slot'[r] = slot[r]
        /\ slot'[s].conn = nconn'
    BY <1>2, <1>3 DEF Live, TInv, TypeOK
  <1>5. ConnsApart'
    BY <1>3, <1>4 DEF Sums, ConnsApart, TInv, TypeOK, Live, DeadClient
  <1> DEFINE h == Pinged(Requested(ip))
             new == [h EXCEPT !.pending = @ + 1, !.alive = @ + 1]
  <1>6. h \in Entry /\ h.alive = hist[ip].alive
    <2>1. hist[ip] \in Entry  BY DEF TInv, TypeOK
    <2>2. /\ Requested(ip) \in Entry /\ h \in Entry
          /\ Requested(ip).alive = hist[ip].alive
      BY <1>1, <2>1, AttemptCounts DEF Requested, Entry
    <2>3. QED  BY <2>2, EntryCounts
  <1>7. new.alive = hist[ip].alive + 1 /\ hist' = [hist EXCEPT ![ip] = new]
    <2>1. new.alive = hist[ip].alive + 1
      BY <1>6 DEF Entry
    <2>2. hist' = [hist EXCEPT ![ip] = new]
      BY DEF Accept
    <2>3. QED  BY <2>1, <2>2
  <1>8. /\ hist'[ip].alive = hist[ip].alive + 1
        /\ \A i \in IPs \ {ip} : hist'[i] = hist[i]
    BY <1>7 DEF TInv, TypeOK
  <1>9. Forgotten'
    BY <1>3, <1>8 DEF Sums, Forgotten
  <1> DEFINE one == [i \in IPs |-> IF i = ip THEN 1 ELSE 0]
  <1>10. one \in [IPs -> Nat] /\ Cardinality(Marks(one)) = 1
    <2>1. \A t : t \in Marks(one) <=> t = <<ip, 1>>
      BY MarksAre
    <2>2. Marks(one) = {<<ip, 1>>}
      BY <2>1
    <2>3. QED  BY <2>2, FS_Singleton
  <1>11. TInv'
    BY AcceptTypes
  <1>12. /\ Cardinality(Marks(Alive)') \in Nat /\ Cardinality(Marks(Owed)') \in Nat
         /\ Cardinality(Marks(Alive)') + Cardinality(Marks(Owed))
              = Cardinality(Marks(Alive)) + Cardinality(Marks(Owed)') + 1
    <2> DEFINE b == [i \in IPs |-> hist'[i].alive]
    <2>1. /\ Alive \in [IPs -> Int] /\ \A i \in IPs : Alive[i] = hist[i].alive
      BY AliveTypes DEF Alive
    <2>2. b \in [IPs -> Int] /\ \A i \in IPs : b[i] = hist'[i].alive
      BY <1>11 DEF TInv, TypeOK, Entry
    <2>3. \A i \in IPs : Alive[i] = b[i] - one[i]
      BY <1>8, <2>1, <2>2
    <2>4. /\ [i \in IPs |-> -b[i]] = [i \in IPs |-> -hist'[i].alive]
          /\ [i \in IPs |-> -Alive[i]] = Owed
      BY <2>1, <2>2 DEF Owed
    <2>5. /\ Marks(Alive)' = Marks(b)
          /\ Marks(Owed)' = Marks([i \in IPs |-> -hist'[i].alive])
      BY DEF Marks, Alive, Owed
    <2>6. [i \in IPs |-> -b[i]] \in [IPs -> Int]
      BY <2>2
    <2> HIDE DEF b, one
    <2>7. Cardinality(Marks(Alive)') \in Nat /\ Cardinality(Marks(Owed)') \in Nat
      BY <2>2, <2>4, <2>5, <2>6, MarksFinite
    <2>8. Cardinality(Marks(b)) + Cardinality(Marks([i \in IPs |-> -Alive[i]]))
            = Cardinality(Marks(Alive)) + Cardinality(Marks([i \in IPs |-> -b[i]]))
                  + Cardinality(Marks(one))
      BY <1>10, <2>1, <2>2, <2>3, MarksBalance
    <2>9. QED  BY <1>10, <2>4, <2>5, <2>7, <2>8
  <1>13. Cardinality(Live') = Cardinality(Live) + 1
    BY <1>2, <1>4, AliveTypes, FS_AddElement
  <1>14. AllCounted'
    <2>1. Cardinality(Marks(Alive))
            = Cardinality(Live) + Cardinality(doomed) + Cardinality(Marks(Owed))
      BY AliveTypes DEF Sums
    <2>2. Cardinality(Marks(Alive)')
            = Cardinality(Live') + Cardinality(doomed') + Cardinality(Marks(Owed)')
      BY <1>3, <1>12, <1>13, <2>1, AliveTypes
    <2>3. QED  BY <2>2 DEF AllCounted, Alive, Owed
  <1>15. QED  BY <1>5, <1>9, <1>14 DEF Sums

LEMMA SetConnectTypeSums ==
  ASSUME TInv, Sums, NEW s \in Slots, NEW type \in Types, NEW counts \in BOOLEAN,
         SetConnectType(s, type, counts)
  PROVE  Sums'
  <1> DEFINE p == slot[s].peer
             x == IF counts THEN hist[p].pending - 1 ELSE hist[p].pending
             h == [hist[p] EXCEPT !.pending = x]
  <1>1. p \in IPs /\ hist[p] \in Entry
    BY DEF SetConnectType, TInv, TypeOK, Addressed
  <1>2. hist' = [hist EXCEPT ![p] = h]
    BY DEF SetConnectType
  <1>3. h.alive = hist[p].alive
    BY <1>1 DEF Entry
  <1> HIDE DEF h
  <1>4. \A i \in IPs : hist'[i].alive = hist[i].alive
    BY <1>1, <1>2, <1>3 DEF TInv, TypeOK
  <1>5. slot' = [slot EXCEPT ![s] = [@ EXCEPT !.type = type]]
    BY DEF SetConnectType
  <1>6. \A r \in Slots : slot'[r].conn = slot[r].conn
    BY <1>5 DEF TInv, TypeOK
  <1>7. UNCHANGED <<doomed, nconn>> /\ known \subseteq known'
    BY DEF SetConnectType
  <1>8. QED  BY <1>4, <1>6, <1>7, SumsKept

LEMMA NetTickSums == ASSUME TInv, Sums, NetTick  PROVE Sums'
  <1>1. PICK closing \in SUBSET Live :
           /\ slot' = [s \in Slots |-> IF s \in closing
                         THEN [slot[s] EXCEPT !.conn = 0, !.type = "UNK"] ELSE slot[s]]
           /\ doomed' = doomed \cup Clients(closing)
    BY DEF NetTick, Clients
  <1>2. /\ \A s \in closing : slot'[s].conn = 0
        /\ \A s \in Slots \ closing : slot'[s] = slot[s]
    BY <1>1 DEF TInv, TypeOK, Live
  <1>3. Live' = Live \ closing
    BY <1>2 DEF Live
  <1>4. /\ Cardinality(Live') = Cardinality(Live) - Cardinality(closing)
        /\ IsFiniteSet(closing) /\ Cardinality(closing) \in Nat
    <2>1. IsFiniteSet(closing)
      BY AliveTypes, FS_Subset
    <2>2. Cardinality(Live \ closing) = Cardinality(Live) - Cardinality(Live \cap closing)
      BY AliveTypes, FS_Difference
    <2>3. Live \cap closing = closing
      OBVIOUS
    <2>4. QED  BY <1>3, <2>1, <2>2, <2>3, FS_CardinalityType
  <1>5. Cardinality(doomed') = Cardinality(doomed) + Cardinality(closing)
    <2>1. /\ IsFiniteSet(Clients(closing)) /\ Cardinality(Clients(closing)) = Cardinality(closing)
          /\ doomed \cap Clients(closing) = {}
      BY <1>4, ClientsCount DEF Sums
    <2>2. Cardinality(doomed \cup Clients(closing))
            = Cardinality(doomed) + Cardinality(closing) - Cardinality({})
      BY <2>1, AliveTypes, FS_Union
    <2>3. Cardinality({}) = 0
      BY FS_EmptySet
    <2>4. Cardinality(doomed') = Cardinality(doomed \cup Clients(closing))
      BY <1>1
    <2>5. Cardinality(doomed) \in Nat
      BY AliveTypes
    <2>6. QED  BY <1>4, <2>2, <2>3, <2>4, <2>5
  <1>6. ASSUME NEW ip \in IPs, ip \notin known'
        PROVE  hist[ip].alive = 0 /\ hist'[ip].alive = 0
    <2>1. hist'[ip].alive = 0
      BY <1>6 DEF NetTick, Fresh
    <2>2. hist[ip] \in Entry /\ hist[ip].ttl >= 0
      BY DEF TInv, TypeOK
    <2>3. CASE ip \in known
      <3>1. ~(Ticked(hist[ip]).ttl >= 0) /\ Ticked(hist[ip]) \in Entry
        BY <1>6, <2>2, <2>3, EntryTypes DEF NetTick
      <3>2. Ticked(hist[ip]).ttl < hist[ip].ttl
        BY <2>2, <3>1 DEF Entry
      <3>3. QED  BY <2>1, <2>2, <3>2, EntryCounts
    <2>4. CASE ip \notin known
      BY <2>1, <2>4 DEF Sums, Forgotten
    <2>5. QED  BY <2>3, <2>4
  <1>7. ASSUME NEW ip \in IPs  PROVE hist'[ip].alive = hist[ip].alive
    <2>1. CASE ip \in known'
      <3>1. hist'[ip] = Ticked(hist[ip])
        BY <2>1 DEF NetTick
      <3>2. hist[ip] \in Entry
        BY DEF TInv, TypeOK
      <3>3. QED  BY <3>1, <3>2, EntryCounts
    <2>2. QED  BY <1>6, <2>1
  <1>8. Forgotten'
    BY <1>6 DEF Forgotten
  <1>9. ConnsApart'
    <2>1. \A d \in Clients(closing) : d.slot \in closing /\ d.conn = slot[d.slot].conn
      BY DEF Clients
    <2>2. \A s \in Live : slot[s].conn <= nconn
      BY DEF Sums, ConnsApart
    <2>3. \A s, r \in Live : slot[s].conn = slot[r].conn => s = r
      BY DEF Sums, ConnsApart
    <2>4. /\ \A d \in doomed : d.conn <= nconn
          /\ \A s \in Live, d \in doomed : d.conn # slot[s].conn
      BY DEF Sums, ConnsApart
    <2>5. /\ \A s \in Live' : s \in Live /\ s \notin closing /\ slot'[s] = slot[s]
          /\ \A d \in doomed' : d \in doomed \/ d \in Clients(closing)
      BY <1>1, <1>2, <1>3 DEF Live
    <2>6. \A d \in doomed' : d.conn <= nconn
      BY <2>1, <2>2, <2>4, <2>5
    <2>7. \A s \in Live', d \in doomed' : d.conn # slot'[s].conn
      BY <2>1, <2>3, <2>4, <2>5
    <2>8. nconn' = nconn
      BY DEF NetTick
    <2>9. QED
      BY <2>2, <2>3, <2>5, <2>6, <2>7, <2>8 DEF ConnsApart
  <1>10. AllCounted'
    <2>1. Cardinality(Marks(Alive))
            = Cardinality(Live) + Cardinality(doomed) + Cardinality(Marks(Owed))
      BY AliveTypes DEF Sums
    <2>2. /\ [ip \in IPs |-> hist'[ip].alive] = Alive
          /\ [ip \in IPs |-> -hist'[ip].alive] = Owed
      BY <1>7 DEF Alive, Owed
    <2>3. Cardinality(Live') + Cardinality(doomed') = Cardinality(Live) + Cardinality(doomed)
      BY <1>4, <1>5, AliveTypes
    <2>4. /\ Marks([ip \in IPs |-> hist[ip].alive])' = Marks(Alive)
          /\ Marks([ip \in IPs |-> -hist[ip].alive])' = Marks(Owed)
      BY <2>2 DEF Marks
    <2>5. QED  BY <2>1, <2>3, <2>4 DEF AllCounted
  <1>11. QED  BY <1>8, <1>9, <1>10 DEF Sums

LEMMA SumsNext == TInv /\ Sums /\ [Next]_vars => Sums'
  <1> SUFFICES ASSUME TInv, Sums, [Next]_vars  PROVE Sums'
    OBVIOUS
  <1>1. CASE WorldTick  BY <1>1, WorldTickSums
  <1>2. CASE WorldSkip  BY <1>2, SumsKept DEF WorldSkip
  <1>3. CASE AcceptNone  BY <1>3, SumsKept DEF AcceptNone
  <1>4. CASE InputDone  BY <1>4, SumsKept DEF InputDone
  <1>5. CASE NetTick  BY <1>5, NetTickSums
  <1>6. ASSUME NEW ip \in IPs,
               Reject(ip) \/ NoSlot(ip) \/ Accept(ip) \/ BlockIP(ip) \/ UnblockIP(ip)
        PROVE  Sums'
    BY <1>6, HandlersSums, AcceptSums
  <1>7. ASSUME NEW s \in Slots,
               Login(s) \/ NotLogin(s) \/ Play(s) \/ Console(s) \/ Status(s)
        PROVE  Sums'
    BY <1>7, SetConnectTypeSums
    DEF Login, NotLogin, Play, Console, Status, Types
  <1>8. CASE UNCHANGED vars  BY <1>8, SumsKept DEF vars
  <1>9. QED
    BY <1>1, <1>2, <1>3, <1>4, <1>5, <1>6, <1>7, <1>8 DEF Next

\* Whatever kinds of connections there are, and whichever slots are used again
\* before their clients are deleted, the histories of all addresses together
\* count every connection once: acceptNewConnection() may judge an address by
\* too many or too few connections, but no connection is lost from the sum.
THEOREM NoneIsLost == Spec => []AllCounted
  <1>1. Sums => AllCounted  BY DEF Sums
  <1>2. QED  BY <1>1, SumsInit, SumsNext, TInvAlways, PTL DEF Spec
=============================================================================
