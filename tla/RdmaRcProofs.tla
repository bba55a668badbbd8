----------------------------- MODULE RdmaRcProofs -----------------------------
(***************************************************************************)
(* Theorems about the RDMA example, for connection data of any size.  Four *)
(* invariants, each inductive with the ones before it:                     *)
(*   LocalInv: what a side's call says of the state of that side alone,    *)
(*   BytesInv: no byte has come to a side before the other one sent it,    *)
(*   DataInv:  who is connected, and what the buffers hold at each call,   *)
(*   CleanInv: what else is true while nothing has failed of its own       *)
(*             accord.                                                     *)
(***************************************************************************)
EXTENDS RdmaRc, SequenceTheorems, TLAPS

(* The calls of a side: while it creates its resources, between the first  *)
(* two synchronisations, and after it has left main's sequence.            *)
Creating == {"list", "ctx", "port", "pd", "cq", "buf", "mr", "qp"}
Early == Creating \cup {"start", "accept"}
Linking == {"init", "rr", "rtr", "rts"}
Syncing == {"put", "get"}
Over == {"destroy", "ended", "killed"}
(* The calls of the third and fourth phase, and the server's last one.     *)
Third(s) == IF s = "server" THEN {"send", "poll", "fill"} ELSE {"poll", "show"}
Fourth(s) == IF s = "server" THEN {} ELSE {"read", "pollR", "showR", "write", "pollW"}
Fifth(s) == IF s = "server" THEN {"show"} ELSE {}
Working(s) == Linking \cup Syncing \cup Third(s) \cup Fourth(s) \cup Fifth(s)
(* Everything that resources_create obtains, and what it has at each call. *)
All == {"qp", "mr", "buf", "cq", "pd", "ctx"}
Held == [list |-> {}, ctx |-> {"list"}, port |-> {"ctx"}, pd |-> {"ctx"}, cq |-> {"ctx", "pd"},
         buf |-> {"ctx", "pd", "cq"}, mr |-> {"ctx", "pd", "cq", "buf"},
         qp |-> {"ctx", "pd", "cq", "buf", "mr"}]

Calls == Early \cup Working("server") \cup Working("client") \cup Over
Texts == {"none", "zero", "MSG", "R", "W"}

-----------------------------------------------------------------------------
(* The state of one side.                                                  *)
Functions ==
  /\ pc \in [Sides -> Calls]
  /\ phase \in [Sides -> Nat] /\ rc \in [Sides -> {0, 1}]
  /\ ptr \in [Sides -> SUBSET Handle] /\ obj \in [Sides -> SUBSET Handle]
  /\ sock \in [Sides -> {"none", "open", "closed", "reset"}]
  /\ nread \in [Sides -> Nat] /\ chan \in [Sides -> Nat]
  /\ props \in [Sides -> {"none", "peer", "junk", "unread"}]
  /\ qp \in [Sides -> {"none", "RESET", "INIT", "RTR", "RTS"}]
  /\ rr \in [Sides -> {0, 1}] /\ wr \in [Sides -> {"none", "SEND", "READ", "WRITE", "landed"}]
  /\ cq \in [Sides -> {<<>>, <<"ok">>, <<"bad">>}]
  /\ buf \in [Sides -> Texts]
  /\ seen \in [Sides -> Seq(Texts)] /\ clean \in BOOLEAN
PlaceOf(s) ==
  /\ pc[s] \in Early \cup Working(s) \cup Over /\ phase[s] >= 1 /\ phase[s] <= 5
  /\ pc[s] \in Early => phase[s] = 1
  /\ pc[s] \in Linking => phase[s] = 2
  /\ pc[s] = "rr" => s = "client"
  /\ pc[s] \in Syncing => phase[s] <= 4
  /\ pc[s] \in Third(s) => phase[s] = 3
  /\ pc[s] \in Fourth(s) => phase[s] = 4
  /\ pc[s] \in Fifth(s) => phase[s] = 5
  /\ nread[s] < Size(phase[s]) /\ (pc[s] \in {"get"} \cup Over \/ nread[s] = 0)
  /\ rc[s] = 0 => pc[s] \in Over /\ phase[s] = 5
HandlesOf(s) ==
  /\ ptr[s] \subseteq obj[s]
  /\ pc[s] \in {"start", "accept"} => ptr[s] = {} /\ obj[s] = {}
  /\ pc[s] \in Creating => ptr[s] = Held[pc[s]] /\ obj[s] = Held[pc[s]]
  /\ pc[s] \in Working(s) => ptr[s] = All /\ obj[s] = All
  /\ pc[s] \in Over => ptr[s] \subseteq All
  /\ pc[s] \in {"ended", "killed"} => ptr[s] = {}
  /\ "mr" \in ptr[s] => "buf" \in ptr[s]
  /\ clean \/ rc[s] = 0 => obj[s] = ptr[s]
SocketOf(s) ==
  /\ pc[s] \in {"start", "accept"} => sock[s] = "none"
  /\ pc[s] \in Creating \cup Working(s) => sock[s] = "open"
  /\ pc[s] = "destroy" /\ rc[s] = 0 => sock[s] = "open"
  /\ pc[s] = "ended" => sock[s] # "open"
  /\ pc[s] = "ended" /\ rc[s] = 0 => Gone(s)
QpOf(s) ==
  /\ pc[s] = "init" \/ (pc[s] \in Syncing /\ phase[s] = 1) => qp[s] = "RESET"
  /\ pc[s] \in {"rr", "rtr"} => qp[s] = "INIT"
  /\ pc[s] = "rts" => qp[s] = "RTR"
  /\ pc[s] \in Working(s) \ Linking /\ phase[s] >= 2 => qp[s] = "RTS"
  /\ phase[s] = 1 <=> props[s] = "none"
(* Receive and send requests and completions: there is one while a side    *)
(* waits for it, and none otherwise.                                       *)
Load(s) == Len(cq[s]) + rr[s] + (IF wr[s] = "none" THEN 0 ELSE 1)
Awaits(s) == s = "client" /\ (pc[s] \in {"rtr", "rts", "poll"} \/ (pc[s] \in Syncing /\ phase[s] = 2))
Waits(s) == Awaits(s) \/ Polling(s)
QueueOf(s) ==
  /\ Load(s) <= 1
  /\ Waits(s) => Load(s) = 1
  /\ pc[s] \in Early \cup Working(s) /\ ~ Waits(s) => Load(s) = 0
  /\ s = "server" => rr[s] = 0 /\ wr[s] \in {"none", "SEND", "landed"}
  /\ s = "client" => wr[s] # "SEND"
  /\ Awaits(s) => wr[s] = "none"
  /\ pc[s] = "pollR" => rr[s] = 0 /\ wr[s] \in {"none", "READ"}
  /\ pc[s] = "pollW" => rr[s] = 0 /\ wr[s] \in {"none", "WRITE", "landed"}
SideInv(s) == PlaceOf(s) /\ HandlesOf(s) /\ SocketOf(s) /\ QpOf(s) /\ QueueOf(s)
LocalInv == Functions /\ \A s \in Sides : SideInv(s)

-----------------------------------------------------------------------------
(* The bytes of the first k synchronisations, those that have come to a    *)
(* side, and those that it may have sent.                                  *)
Total(k) == IF k = 0 THEN 0 ELSE ConSize + (k - 1)
Came(s) == Total(phase[s] - 1) + nread[s] + chan[s]
Sent(s) == Total(IF phase[s] # 5 /\ pc[s] \in {"get"} \cup Over THEN phase[s] ELSE phase[s] - 1)
BytesInv == InStep => \A s \in Sides : Came(s) <= Sent(Peer(s))

-----------------------------------------------------------------------------
(* Who is connected, and what the buffers hold.                            *)
Both == props["server"] = "peer" /\ props["client"] = "peer"
Past(s) ==
  \/ pc[s] \in {"fill", "show"} \/ pc[s] \in Fourth(s)
  \/ pc[s] \in Syncing /\ phase[s] >= 3
Done(s) == cq[s] = <<"ok">>
LinkInv ==
  \A s \in Sides : Past(s) \/ Done(s) \/ wr[s] \in {"READ", "WRITE", "landed"} => Both
ServerBuf ==
  /\ pc["server"] \in Working("server") /\ (phase["server"] <= 2 \/ pc["server"] \in Third("server"))
       => buf["server"] = "MSG"
  /\ pc["server"] \in {"mr", "qp"} => buf["server"] = "MSG"
  /\ wr["server"] = "SEND" => buf["server"] = "MSG"
  /\ pc["server"] \in Syncing /\ phase["server"] >= 3 => buf["server"] \in {"R", "W"}
  /\ InStep /\ Came("client") > Total(2) => buf["server"] \in {"R", "W"}
  /\ InStep /\ Came("server") > Total(3) => buf["server"] = "W"
  /\ wr["client"] = "landed" \/ (pc["client"] = "pollW" /\ Done("client"))
       \/ (pc["client"] \in Syncing /\ phase["client"] = 4) => buf["server"] = "W"
  /\ buf["server"] = "W" =>
       /\ wr["client"] \notin {"READ", "WRITE"}
       /\ pc["client"] = "pollW" \/ pc["client"] \in Over \/ (pc["client"] \in Syncing /\ phase["client"] = 4)
ClientBuf ==
  /\ (Awaits("client") /\ Done("client")) \/ pc["client"] = "show" => buf["client"] = "MSG"
  /\ (pc["client"] = "pollR" /\ Done("client")) \/ pc["client"] = "showR" => buf["client"] = "R"
  /\ wr["client"] = "WRITE" \/ pc["client"] = "write" => buf["client"] = "W"
  /\ wr["client"] \in {"READ", "WRITE"} => phase["client"] >= 4
SeenInv ==
  /\ seen["server"] = <<>> \/ (seen["server"] = <<"W">> /\ pc["server"] \in Over)
  /\ LET c == "client" IN
     /\ pc[c] \in Early \cup Linking \cup Third(c) \/ (pc[c] \in Syncing /\ phase[c] <= 2) => seen[c] = <<>>
     /\ pc[c] \in {"read", "pollR", "showR"} \/ (pc[c] \in Syncing /\ phase[c] = 3) => seen[c] = <<"MSG">>
     /\ pc[c] \in {"write", "pollW"} \/ (pc[c] \in Syncing /\ phase[c] = 4) => seen[c] = <<"MSG", "R">>
     /\ seen[c] \in {<<>>, <<"MSG">>, <<"MSG", "R">>}
DataInv == LinkInv /\ ServerBuf /\ ClientBuf /\ SeenInv

-----------------------------------------------------------------------------
(* As long as nothing has failed of its own accord: whoever has left the   *)
(* sequence has finished it, all that was sent is here or was read, and    *)
(* the client's receive request is there until the message has come.       *)
CleanOf(s) ==
  /\ nread[s] = 0 /\ sock[s] # "reset" /\ cq[s] # <<"bad">>
  /\ pc[s] \in Over => /\ pc[s] # "killed" /\ phase[s] = 5 /\ rc[s] = 0
                       /\ cq[s] = <<>> /\ rr[s] = 0 /\ wr[s] = "none"
  /\ phase[s] >= 2 => props[s] = "peer"
  /\ ~ Gone(s) => Came(s) = Sent(Peer(s))
Unsent == phase["server"] <= 2 \/ pc["server"] = "send" \/ wr["server"] = "SEND"
Receptive ==
  \/ pc["client"] \in Early \cup {"init", "rr"}
  \/ pc["client"] \in Syncing /\ phase["client"] = 1
  \/ Awaits("client") /\ rr["client"] = 1
Ready == (Unsent => Receptive) /\ (rr["client"] = 1 => Unsent)
CleanInv == clean => Ready /\ \A s \in Sides : CleanOf(s)
-----------------------------------------------------------------------------
(* The calls of resources_create in their order.                           *)
LEMMA ThenIs ==
  /\ DOMAIN Then = Creating /\ Handle = Creating \ {"port"}
  /\ Then["list"] = "ctx" /\ Then["ctx"] = "port" /\ Then["port"] = "pd" /\ Then["pd"] = "cq"
  /\ Then["cq"] = "buf" /\ Then["buf"] = "mr" /\ Then["mr"] = "qp" /\ Then["qp"] = "put"
  /\ \A h \in Creating : Then[h] \in {"ctx", "port", "pd", "cq", "buf", "mr", "qp", "put"}
BY DEF Then, Creating, Handle

LEMMA CallsAre ==
  /\ {"start", "accept", "list", "ctx", "port", "pd", "cq", "buf", "mr", "qp", "put", "get",
      "init", "rr", "rtr", "rts", "send", "poll", "fill", "show", "read", "pollR", "showR",
      "write", "pollW", "destroy", "ended", "killed"} \subseteq Calls
  /\ "destroy" \in Calls /\ "ended" \in Calls /\ "killed" \in Calls
BY DEF Calls, Early, Creating, Working, Linking, Syncing, Third, Fourth, Fifth, Over

LEMMA HeldIs ==
  Held["list"] = {} /\ \A h \in Creating : Held[h] \subseteq All \cup {"list"}
BY DEF Held, Creating, All

LEMMA SizeIs ==
  /\ \A k \in Nat : Size(k) \in Nat /\ Size(k) >= 1
  /\ Size(1) = ConSize /\ \A k \in Nat : k # 1 => Size(k) = 1
BY ConSizeAssumption DEF Size

LEMMA Peers ==
  ASSUME NEW s \in Sides
  PROVE  /\ Peer(s) \in Sides /\ Peer(s) # s /\ Peer(Peer(s)) = s
         /\ \A t \in Sides : t = s \/ t = Peer(s)
         /\ s = "server" \/ s = "client"
BY DEF Sides, Peer

LEMMA LoadIs ==
  ASSUME Functions, NEW s \in Sides
  PROVE  /\ Len(cq[s]) \in {0, 1} /\ rr[s] \in {0, 1} /\ Load(s) \in Nat
         /\ Len(cq[s]) = 0 <=> cq[s] = <<>>
         /\ Load(s) = 0 => cq[s] = <<>> /\ rr[s] = 0 /\ wr[s] = "none"
         /\ Load(s) = 1 => \/ cq[s] # <<>> /\ rr[s] = 0 /\ wr[s] = "none"
                           \/ cq[s] = <<>> /\ rr[s] = 1 /\ wr[s] = "none"
                           \/ cq[s] = <<>> /\ rr[s] = 0 /\ wr[s] # "none"
<1>1. cq[s] \in {<<>>, <<"ok">>, <<"bad">>} /\ rr[s] \in {0, 1}
  BY DEF Functions
<1>2. Len(<<>>) = 0 /\ Len(<<"ok">>) = 1 /\ Len(<<"bad">>) = 1
  OBVIOUS
<1>3. Len(cq[s]) \in {0, 1} /\ (Len(cq[s]) = 0 <=> cq[s] = <<>>)
  BY <1>1, <1>2
<1> QED BY <1>1, <1>3 DEF Load

(* A side to which nothing happens keeps its invariant.                    *)
Untouched(s) ==
  /\ pc'[s] = pc[s] /\ phase'[s] = phase[s] /\ rc'[s] = rc[s] /\ ptr'[s] = ptr[s] /\ obj'[s] = obj[s]
  /\ sock'[s] = sock[s] /\ nread'[s] = nread[s] /\ props'[s] = props[s] /\ qp'[s] = qp[s]
  /\ rr'[s] = rr[s] /\ wr'[s] = wr[s] /\ cq'[s] = cq[s]
  /\ clean' => clean

LEMMA UntouchedKeeps ==
  ASSUME NEW s \in Sides, SideInv(s), Untouched(s)
  PROVE  SideInv(s)'
<1>1. PlaceOf(s)'
  BY DEF SideInv, Untouched, PlaceOf
<1>2. HandlesOf(s)'
  BY DEF SideInv, Untouched, HandlesOf
<1>3. SocketOf(s)'
  BY DEF SideInv, Untouched, SocketOf, Gone
<1>4. QpOf(s)'
  BY DEF SideInv, Untouched, QpOf
<1>5. QueueOf(s)'
  BY DEF SideInv, Untouched, QueueOf, Load, Waits, Awaits, Polling
<1> QED BY <1>1, <1>2, <1>3, <1>4, <1>5 DEF SideInv

LEMMA LocalObtain ==
  ASSUME LocalInv, NEW s \in Sides, Obtain(s)
  PROVE  LocalInv'
<1>0. Functions /\ SideInv(s) /\ pc[s] \in Creating
  BY ThenIs DEF LocalInv, Obtain
<1>1. /\ pc' = [pc EXCEPT ![s] = Then[pc[s]]]
      /\ ptr' = [ptr EXCEPT ![s] = Keep(pc[s], @)] /\ obj' = [obj EXCEPT ![s] = Keep(pc[s], @)]
      /\ buf' = IF pc[s] = "buf" THEN [buf EXCEPT ![s] = IF s = "server" THEN "MSG" ELSE "zero"] ELSE buf
      /\ qp' = IF pc[s] = "qp" THEN [qp EXCEPT ![s] = "RESET"] ELSE qp
      /\ UNCHANGED <<phase, rc, tcp, props, rr, wr, cq, seen, clean>>
  BY DEF Obtain, Go
<1>2. Functions'
  <2>1. Then[pc[s]] \in Calls
    BY <1>0, ThenIs, CallsAre
  <2>2. \A h : h \in SUBSET Handle => Keep(pc[s], h) \in SUBSET Handle
    BY DEF Keep
  <2> QED BY <1>0, <1>1, <2>1, <2>2 DEF Functions, tcp, Texts
<1>3. SideInv(s)'
  <2>0. /\ pc'[s] = Then[pc[s]] /\ phase'[s] = 1 /\ nread'[s] = 0 /\ rc'[s] = rc[s] /\ rc[s] # 0
        /\ 0 < Size(1)
    BY <1>0, <1>1 DEF Functions, SideInv, PlaceOf, Early, Over, Creating, tcp
  <2>1. PlaceOf(s)'
    <3>1. pc'[s] \in {"ctx", "port", "pd", "cq", "buf", "mr", "qp", "put"}
      BY <1>0, <2>0, ThenIs DEF Creating
    <3>2. /\ pc'[s] \in Early \cup Syncing /\ pc'[s] \notin Linking /\ pc'[s] \notin Third(s)
          /\ pc'[s] \notin Fourth(s) /\ pc'[s] \notin Fifth(s) /\ pc'[s] \notin Over /\ pc'[s] # "rr"
      BY <3>1 DEF Early, Creating, Syncing, Linking, Third, Fourth, Fifth, Over
    <3> HIDE DEF Early
    <3>3. Size(phase[s])' = Size(1)
      BY <2>0
    <3> QED BY <2>0, <3>2, <3>3 DEF PlaceOf, Working
  <2>2. HandlesOf(s)'
    BY <1>0, <1>1, ThenIs DEF Functions, SideInv, HandlesOf, Creating, Early, Working, Syncing,
      Linking,
       Third, Fourth, Fifth, Over, tcp, Held, Keep, All, PlaceOf
  <2>3. SocketOf(s)'
    BY <1>0, <1>1, ThenIs DEF Functions, SideInv, SocketOf, Creating, Early, Working, Syncing,
      Linking,
       Third, Fourth, Fifth, Over, tcp, PlaceOf
  <2>4. QpOf(s)'
    BY <1>0, <1>1, ThenIs DEF Functions, SideInv, QpOf, Creating, Early, Working, Syncing, Linking,
       Third, Fourth, Fifth, Over, tcp, PlaceOf
  <2>5. QueueOf(s)'
    BY <1>0, <1>1, ThenIs DEF Functions, SideInv, QueueOf, Creating, Early, Working, Syncing,
      Linking,
       Third, Fourth, Fifth, Over, tcp, PlaceOf, Waits, Awaits, Polling, Load
  <2> QED BY <2>1, <2>2, <2>3, <2>4, <2>5 DEF SideInv
<1>4. Untouched(Peer(s))
  BY <1>0, <1>1, Peers DEF Functions, Untouched, tcp
<1> QED BY <1>2, <1>3, <1>4, Peers, UntouchedKeeps DEF LocalInv

LEMMA TailIs ==
  ASSUME Functions, NEW s \in Sides, cq[s] # <<>>
  PROVE  Tail(cq[s]) = <<>> /\ Head(cq[s]) \in {"ok", "bad"} /\ cq[s] = <<Head(cq[s])>>
<1>1. cq[s] = <<"ok">> \/ cq[s] = <<"bad">>
  BY DEF Functions
<1>2. CASE cq[s] = <<"ok">>
  BY <1>2
<1>3. CASE cq[s] = <<"bad">>
  BY <1>3
<1> QED BY <1>1, <1>2, <1>3

(* A read of n bytes in sock_sync_data.                                    *)
GetWith(s, n) ==
  /\ pc[s] = "get" /\ n >= 1 /\ n <= Size(phase[s]) /\ n <= chan[s]
  /\ chan' = [chan EXCEPT ![s] = @ - n]
  /\ IF nread[s] + n < Size(phase[s])
     THEN /\ nread' = [nread EXCEPT ![s] = @ + n] /\ clean' = FALSE
          /\ UNCHANGED <<prog, props>>
     ELSE /\ Synced(s, n = Size(phase[s]) /\ nread[s] = 0 /\ props[Peer(s)] # "unread")
          /\ UNCHANGED clean
  /\ UNCHANGED <<handles, sock, qp, rr, wr, cq, memory>>
LEMMA GetIs ==
  ASSUME Functions, NEW s \in Sides, Get(s)
  PROVE  \E n \in Nat : GetWith(s, n)
<1>1. PICK n \in 1 .. Size(phase[s]) :
        /\ n <= chan[s]
        /\ chan' = [chan EXCEPT ![s] = @ - n]
        /\ IF nread[s] + n < Size(phase[s])
           THEN /\ nread' = [nread EXCEPT ![s] = @ + n] /\ clean' = FALSE
                /\ UNCHANGED <<prog, props>>
           ELSE /\ Synced(s, n = Size(phase[s]) /\ nread[s] = 0 /\ props[Peer(s)] # "unread")
                /\ UNCHANGED clean
  BY DEF Get
<1>2. Size(phase[s]) \in Nat
  BY SizeIs DEF Functions
<1>3. n \in Nat /\ n >= 1 /\ n <= Size(phase[s])
  BY <1>2
<1> QED BY <1>1, <1>3 DEF Get, GetWith

LEMMA AppendIs ==
  Append(<<>>, "ok") = <<"ok">> /\ Append(<<>>, "bad") = <<"bad">>
OBVIOUS

(* What resources_destroy releases first is used by nothing else that is   *)
(* left.                                                                   *)
LEMMA FirstIs ==
  ASSUME NEW s \in Sides, ptr[s] \subseteq All, ptr[s] # {}
  PROVE  /\ First(s) \in ptr[s] /\ (First(s) = "buf" => "mr" \notin ptr[s])
         /\ (obj[s] = ptr[s] => Free(s, First(s)))
<1>1. /\ DOMAIN Order = 1 .. 6 /\ Order[1] = "qp" /\ Order[2] = "mr" /\ Order[3] = "buf"
      /\ Order[4] = "cq" /\ Order[5] = "pd" /\ Order[6] = "ctx"
  BY DEF Order
<1> DEFINE P(i) == Order[i] \in ptr[s] /\ \A j \in 1 .. i - 1 : Order[j] \notin ptr[s]
           f == CHOOSE i \in DOMAIN Order : P(i)
<1>2. \E i \in DOMAIN Order : P(i)
  <2>1. P(1) \/ P(2) \/ P(3) \/ P(4) \/ P(5) \/ P(6)
    BY <1>1 DEF All
  <2> HIDE DEF P
  <2> QED BY <1>1, <2>1
<1>3. f \in DOMAIN Order /\ P(f)
  <2> HIDE DEF P
  <2> QED BY <1>2
<1>4. First(s) = Order[f]
  BY DEF First
<1> HIDE DEF f
<1>5. /\ Users["qp"] = {} /\ Users["mr"] = {} /\ Users["buf"] = {} /\ Users["cq"] = {"qp"}
      /\ Users["pd"] = {"qp", "mr"} /\ Users["ctx"] = {}
  BY DEF Users
<1>6. f \in {1, 2, 3, 4, 5, 6}
  BY <1>1, <1>3
<1> QED BY <1>1, <1>3, <1>4, <1>5, <1>6 DEF Free

LEMMA LocalListen ==
  ASSUME LocalInv, Listen
  PROVE  LocalInv'
<1>1. Functions /\ SideInv("server") /\ "server" \in Sides
  BY DEF LocalInv, Sides
<1>2. /\ pc["server"] = "start"
      /\ pc' = [pc EXCEPT !["server"] = "accept"]
      /\ UNCHANGED <<phase, rc, handles, tcp, verbs, memory, clean>>
  BY DEF Listen, Go
<1>3. Functions'
  BY <1>1, <1>2, CallsAre DEF Functions, prog, handles, tcp, verbs, memory
<1>4. /\ pc'["server"] = "accept" /\ phase'["server"] = phase["server"]
      /\ rc'["server"] = rc["server"] /\ ptr'["server"] = ptr["server"]
      /\ obj'["server"] = obj["server"] /\ sock'["server"] = sock["server"]
      /\ nread'["server"] = nread["server"] /\ props'["server"] = props["server"]
      /\ qp'["server"] = qp["server"] /\ rr'["server"] = rr["server"]
      /\ wr'["server"] = wr["server"] /\ cq'["server"] = cq["server"] /\ clean' = clean
  BY <1>1, <1>2 DEF Functions, prog, handles, tcp, verbs, memory
<1>5. SideInv("server")'
  <2>1. PlaceOf("server")'
    BY <1>1, <1>2, <1>4, SizeIs DEF SideInv, Functions, PlaceOf,
       Creating, Early, Working, Syncing, Linking, Third, Fourth, Fifth, Over
  <2>2. HandlesOf("server")'
    BY <1>1, <1>2, <1>4 DEF SideInv, HandlesOf, PlaceOf, All, Held,
       Creating, Early, Working, Syncing, Linking, Third, Fourth, Fifth, Over
  <2>3. SocketOf("server")'
    BY <1>1, <1>2, <1>4 DEF SideInv, SocketOf, PlaceOf, Gone,
       Creating, Early, Working, Syncing, Linking, Third, Fourth, Fifth, Over
  <2>4. QpOf("server")'
    BY <1>1, <1>2, <1>4 DEF SideInv, QpOf, PlaceOf,
       Creating, Early, Working, Syncing, Linking, Third, Fourth, Fifth, Over
  <2>5. QueueOf("server")'
    BY <1>1, <1>2, <1>4 DEF SideInv, QueueOf, PlaceOf, Waits, Awaits, Polling, Load,
       Creating, Early, Working, Syncing, Linking, Third, Fourth, Fifth, Over
  <2> QED BY <2>1, <2>2, <2>3, <2>4, <2>5 DEF SideInv
<1>6. Untouched(Peer("server"))
  BY <1>1, <1>2, Peers DEF Functions, Untouched, prog, handles, tcp, verbs, memory
<1> QED BY <1>1, <1>3, <1>5, <1>6, Peers, UntouchedKeeps DEF LocalInv

LEMMA LocalAccept ==
  ASSUME LocalInv, Accept
  PROVE  LocalInv'
<1>1. Functions /\ SideInv("server") /\ "server" \in Sides
  BY DEF LocalInv, Sides
<1>2. /\ pc["server"] = "accept"
      /\ pc' = [pc EXCEPT !["server"] = "list"]
      /\ sock' = [sock EXCEPT !["server"] = "open"]
      /\ UNCHANGED <<phase, rc, handles, chan, nread, verbs, memory, clean>>
  BY DEF Accept, Go
<1>3. Functions'
  BY <1>1, <1>2, CallsAre DEF Functions, prog, handles, tcp, verbs, memory
<1>4. /\ pc'["server"] = "list" /\ phase'["server"] = phase["server"]
      /\ rc'["server"] = rc["server"] /\ ptr'["server"] = ptr["server"]
      /\ obj'["server"] = obj["server"] /\ sock'["server"] = "open"
      /\ nread'["server"] = nread["server"] /\ props'["server"] = props["server"]
      /\ qp'["server"] = qp["server"] /\ rr'["server"] = rr["server"]
      /\ wr'["server"] = wr["server"] /\ cq'["server"] = cq["server"] /\ clean' = clean
  BY <1>1, <1>2 DEF Functions, prog, handles, tcp, verbs, memory
<1>5. SideInv("server")'
  <2>1. PlaceOf("server")'
    BY <1>1, <1>2, <1>4, SizeIs DEF SideInv, Functions, PlaceOf,
       Creating, Early, Working, Syncing, Linking, Third, Fourth, Fifth, Over
  <2>2. HandlesOf("server")'
    <3>1. /\ pc'["server"] \notin {"start", "accept"} /\ pc'["server"] \notin Working("server") /\ pc'["server"] \notin Over
          /\ pc["server"] \in {"start", "accept"} /\ "mr" \notin {}
      BY <1>2, <1>4 DEF Creating, Early, Working, Syncing, Linking, Third, Fourth, Fifth, Over
    <3> QED BY <1>1, <1>4, <3>1, HeldIs DEF SideInv, HandlesOf
  <2>3. SocketOf("server")'
    BY <1>1, <1>2, <1>4 DEF SideInv, SocketOf, PlaceOf, Gone,
       Creating, Early, Working, Syncing, Linking, Third, Fourth, Fifth, Over
  <2>4. QpOf("server")'
    BY <1>1, <1>2, <1>4 DEF SideInv, QpOf, PlaceOf,
       Creating, Early, Working, Syncing, Linking, Third, Fourth, Fifth, Over
  <2>5. QueueOf("server")'
    BY <1>1, <1>2, <1>4 DEF SideInv, QueueOf, PlaceOf, Waits, Awaits, Polling, Load,
       Creating, Early, Working, Syncing, Linking, Third, Fourth, Fifth, Over
  <2> QED BY <2>1, <2>2, <2>3, <2>4, <2>5 DEF SideInv
<1>6. Untouched(Peer("server"))
  BY <1>1, <1>2, Peers DEF Functions, Untouched, prog, handles, tcp, verbs, memory
<1> QED BY <1>1, <1>3, <1>5, <1>6, Peers, UntouchedKeeps DEF LocalInv

LEMMA LocalConnect ==
  ASSUME LocalInv, Connect
  PROVE  LocalInv'
<1>1. Functions /\ SideInv("client") /\ "client" \in Sides
  BY DEF LocalInv, Sides
<1>2. /\ pc["client"] = "start"
      /\ pc' = [pc EXCEPT !["client"] = "list"]
      /\ sock' = [sock EXCEPT !["client"] = "open"]
      /\ UNCHANGED <<phase, rc, handles, chan, nread, verbs, memory, clean>>
  BY DEF Connect, Go
<1>3. Functions'
  BY <1>1, <1>2, CallsAre DEF Functions, prog, handles, tcp, verbs, memory
<1>4. /\ pc'["client"] = "list" /\ phase'["client"] = phase["client"]
      /\ rc'["client"] = rc["client"] /\ ptr'["client"] = ptr["client"]
      /\ obj'["client"] = obj["client"] /\ sock'["client"] = "open"
      /\ nread'["client"] = nread["client"] /\ props'["client"] = props["client"]
      /\ qp'["client"] = qp["client"] /\ rr'["client"] = rr["client"]
      /\ wr'["client"] = wr["client"] /\ cq'["client"] = cq["client"] /\ clean' = clean
  BY <1>1, <1>2 DEF Functions, prog, handles, tcp, verbs, memory
<1>5. SideInv("client")'
  <2>1. PlaceOf("client")'
    BY <1>1, <1>2, <1>4, SizeIs DEF SideInv, Functions, PlaceOf,
       Creating, Early, Working, Syncing, Linking, Third, Fourth, Fifth, Over
  <2>2. HandlesOf("client")'
    <3>1. /\ pc'["client"] \notin {"start", "accept"} /\ pc'["client"] \notin Working("client") /\ pc'["client"] \notin Over
          /\ pc["client"] \in {"start", "accept"} /\ "mr" \notin {}
      BY <1>2, <1>4 DEF Creating, Early, Working, Syncing, Linking, Third, Fourth, Fifth, Over
    <3> QED BY <1>1, <1>4, <3>1, HeldIs DEF SideInv, HandlesOf
  <2>3. SocketOf("client")'
    BY <1>1, <1>2, <1>4 DEF SideInv, SocketOf, PlaceOf, Gone,
       Creating, Early, Working, Syncing, Linking, Third, Fourth, Fifth, Over
  <2>4. QpOf("client")'
    BY <1>1, <1>2, <1>4 DEF SideInv, QpOf, PlaceOf,
       Creating, Early, Working, Syncing, Linking, Third, Fourth, Fifth, Over
  <2>5. QueueOf("client")'
    BY <1>1, <1>2, <1>4 DEF SideInv, QueueOf, PlaceOf, Waits, Awaits, Polling, Load,
       Creating, Early, Working, Syncing, Linking, Third, Fourth, Fifth, Over
  <2> QED BY <2>1, <2>2, <2>3, <2>4, <2>5 DEF SideInv
<1>6. Untouched(Peer("client"))
  BY <1>1, <1>2, Peers DEF Functions, Untouched, prog, handles, tcp, verbs, memory
<1> QED BY <1>1, <1>3, <1>5, <1>6, Peers, UntouchedKeeps DEF LocalInv

LEMMA LocalCleanup ==
  ASSUME LocalInv, NEW s \in Sides, Cleanup(s)
  PROVE  LocalInv'
<1>1. Functions /\ SideInv(s)
  BY DEF LocalInv
<1>2. /\ pc[s] \in Creating \cup {"accept"}
      /\ pc' = [pc EXCEPT ![s] = "destroy"]
      /\ obj' = [obj EXCEPT ![s] = {}] /\ ptr' = [ptr EXCEPT ![s] = {}]
      /\ nread' = nread
      /\ sock' = [sock EXCEPT ![s] = "closed"] \/ sock' = [sock EXCEPT ![s] = "reset"]
      /\ chan' = [chan EXCEPT ![s] = 0]
      /\ clean' = FALSE
      /\ UNCHANGED <<phase, rc, verbs, memory>>
  BY ThenIs DEF Cleanup, Close, GiveUp, Go
<1>3. Functions'
  BY <1>1, <1>2, CallsAre DEF Functions, prog, handles, tcp, verbs, memory
<1>4. /\ pc'[s] = "destroy" /\ phase'[s] = phase[s] /\ rc'[s] = rc[s] /\ ptr'[s] = {}
      /\ obj'[s] = {} /\ sock'[s] \in {"closed", "reset"} /\ nread'[s] = nread[s]
      /\ props'[s] = props[s] /\ qp'[s] = qp[s] /\ rr'[s] = rr[s] /\ wr'[s] = wr[s]
      /\ cq'[s] = cq[s] /\ clean' = FALSE
  BY <1>1, <1>2 DEF Functions, prog, handles, tcp, verbs, memory
<1>5. SideInv(s)'
  <2>1. PlaceOf(s)'
    BY <1>1, <1>2, <1>4, SizeIs DEF SideInv, Functions, PlaceOf,
       Creating, Early, Working, Syncing, Linking, Third, Fourth, Fifth, Over
  <2>2. HandlesOf(s)'
    BY <1>1, <1>2, <1>4 DEF SideInv, HandlesOf, PlaceOf, All, Held,
       Creating, Early, Working, Syncing, Linking, Third, Fourth, Fifth, Over
  <2>3. SocketOf(s)'
    BY <1>1, <1>2, <1>4 DEF SideInv, SocketOf, PlaceOf, Gone,
       Creating, Early, Working, Syncing, Linking, Third, Fourth, Fifth, Over
  <2>4. QpOf(s)'
    BY <1>1, <1>2, <1>4 DEF SideInv, QpOf, PlaceOf,
       Creating, Early, Working, Syncing, Linking, Third, Fourth, Fifth, Over
  <2>5. QueueOf(s)'
    BY <1>1, <1>2, <1>4 DEF SideInv, QueueOf, PlaceOf, Waits, Awaits, Polling, Load,
       Creating, Early, Working, Syncing, Linking, Third, Fourth, Fifth, Over
  <2> QED BY <2>1, <2>2, <2>3, <2>4, <2>5 DEF SideInv
<1>6. Untouched(Peer(s))
  BY <1>1, <1>2, Peers DEF Functions, Untouched, prog, handles, tcp, verbs, memory
<1> QED BY <1>1, <1>3, <1>5, <1>6, Peers, UntouchedKeeps DEF LocalInv

LEMMA LocalPut ==
  ASSUME LocalInv, NEW s \in Sides, Put(s)
  PROVE  LocalInv'
<1>1. Functions /\ SideInv(s)
  BY DEF LocalInv
<1>2. /\ pc[s] = "put"
      /\ pc' = [pc EXCEPT ![s] = "get"]
      /\ chan' = chan \/ \E n \in Nat : chan' = [chan EXCEPT ![Peer(s)] = @ + n]
      /\ UNCHANGED <<phase, rc, handles, sock, nread, verbs, memory, clean>>
  BY <1>1, SizeIs DEF Put, Go, Functions
<1>3. Functions'
  <2>1. chan' \in [Sides -> Nat]
    BY <1>1, <1>2, Peers DEF Functions
  <2>2. QED
    BY <1>1, <1>2, <2>1, CallsAre DEF Functions, prog, handles, tcp, verbs, memory
<1>4. /\ pc'[s] = "get" /\ phase'[s] = phase[s] /\ rc'[s] = rc[s] /\ ptr'[s] = ptr[s]
      /\ obj'[s] = obj[s] /\ sock'[s] = sock[s] /\ nread'[s] = nread[s] /\ props'[s] = props[s]
      /\ qp'[s] = qp[s] /\ rr'[s] = rr[s] /\ wr'[s] = wr[s] /\ cq'[s] = cq[s] /\ clean' = clean
  BY <1>1, <1>2 DEF Functions, prog, handles, tcp, verbs, memory
<1>5. SideInv(s)'
  <2>1. PlaceOf(s)'
    BY <1>1, <1>2, <1>4, SizeIs DEF SideInv, Functions, PlaceOf,
       Creating, Early, Working, Syncing, Linking, Third, Fourth, Fifth, Over
  <2>2. HandlesOf(s)'
    BY <1>1, <1>2, <1>4 DEF SideInv, HandlesOf, PlaceOf, All, Held,
       Creating, Early, Working, Syncing, Linking, Third, Fourth, Fifth, Over
  <2>3. SocketOf(s)'
    BY <1>1, <1>2, <1>4 DEF SideInv, SocketOf, PlaceOf, Gone,
       Creating, Early, Working, Syncing, Linking, Third, Fourth, Fifth, Over
  <2>4. QpOf(s)'
    BY <1>1, <1>2, <1>4 DEF SideInv, QpOf, PlaceOf,
       Creating, Early, Working, Syncing, Linking, Third, Fourth, Fifth, Over
  <2>5. QueueOf(s)'
    BY <1>1, <1>2, <1>4 DEF SideInv, QueueOf, PlaceOf, Waits, Awaits, Polling, Load,
       Creating, Early, Working, Syncing, Linking, Third, Fourth, Fifth, Over
  <2> QED BY <2>1, <2>2, <2>3, <2>4, <2>5 DEF SideInv
<1>6. Untouched(Peer(s))
  BY <1>1, <1>2, Peers DEF Functions, Untouched, prog, handles, tcp, verbs, memory
<1> QED BY <1>1, <1>3, <1>5, <1>6, Peers, UntouchedKeeps DEF LocalInv

LEMMA LocalKilled ==
  ASSUME LocalInv, NEW s \in Sides, Killed(s)
  PROVE  LocalInv'
<1>1. Functions /\ SideInv(s)
  BY DEF LocalInv
<1>2. /\ pc[s] = "put"
      /\ pc' = [pc EXCEPT ![s] = "killed"]
      /\ obj' = [obj EXCEPT ![s] = {}] /\ ptr' = [ptr EXCEPT ![s] = {}]
      /\ qp' = [qp EXCEPT ![s] = "none"] /\ rr' = [rr EXCEPT ![s] = 0] /\ cq' = [cq EXCEPT ![s] = <<>>]
      /\ nread' = nread
      /\ sock' = [sock EXCEPT ![s] = "closed"] \/ sock' = [sock EXCEPT ![s] = "reset"]
      /\ chan' = [chan EXCEPT ![s] = 0]
      /\ UNCHANGED <<phase, rc, props, wr, memory, clean>>
  BY DEF Killed, Close, Go
<1>3. Functions'
  BY <1>1, <1>2, CallsAre DEF Functions, prog, handles, tcp, verbs, memory
<1>4. /\ pc'[s] = "killed" /\ phase'[s] = phase[s] /\ rc'[s] = rc[s] /\ ptr'[s] = {}
      /\ obj'[s] = {} /\ sock'[s] \in {"closed", "reset"} /\ nread'[s] = nread[s]
      /\ props'[s] = props[s] /\ qp'[s] = "none" /\ rr'[s] = 0 /\ wr'[s] = wr[s]
      /\ cq'[s] = <<>> /\ clean' = clean
  BY <1>1, <1>2 DEF Functions, prog, handles, tcp, verbs, memory
<1>5. SideInv(s)'
  <2>1. PlaceOf(s)'
    BY <1>1, <1>2, <1>4, SizeIs DEF SideInv, Functions, PlaceOf,
       Creating, Early, Working, Syncing, Linking, Third, Fourth, Fifth, Over
  <2>2. HandlesOf(s)'
    BY <1>1, <1>2, <1>4 DEF SideInv, HandlesOf, PlaceOf, All, Held,
       Creating, Early, Working, Syncing, Linking, Third, Fourth, Fifth, Over
  <2>3. SocketOf(s)'
    BY <1>1, <1>2, <1>4 DEF SideInv, SocketOf, PlaceOf, Gone,
       Creating, Early, Working, Syncing, Linking, Third, Fourth, Fifth, Over
  <2>4. QpOf(s)'
    BY <1>1, <1>2, <1>4 DEF SideInv, QpOf, PlaceOf,
       Creating, Early, Working, Syncing, Linking, Third, Fourth, Fifth, Over
  <2>5. QueueOf(s)'
    BY <1>1, <1>2, <1>4 DEF SideInv, QueueOf, PlaceOf, Waits, Awaits, Polling, Load,
       Creating, Early, Working, Syncing, Linking, Third, Fourth, Fifth, Over
  <2> QED BY <2>1, <2>2, <2>3, <2>4, <2>5 DEF SideInv
<1>6. Untouched(Peer(s))
  BY <1>1, <1>2, Peers DEF Functions, Untouched, prog, handles, tcp, verbs, memory
<1> QED BY <1>1, <1>3, <1>5, <1>6, Peers, UntouchedKeeps DEF LocalInv

LEMMA LocalShortWrite ==
  ASSUME LocalInv, NEW s \in Sides, ShortWrite(s)
  PROVE  LocalInv'
<1>1. Functions /\ SideInv(s)
  BY DEF LocalInv
<1>2. /\ pc[s] = "put" /\ phase[s] = 1
      /\ pc' = [pc EXCEPT ![s] = "init"] /\ phase' = [phase EXCEPT ![s] = 2]
      /\ props' = [props EXCEPT ![s] = "unread"]
      /\ chan' = chan \/ \E n \in Nat : chan' = [chan EXCEPT ![Peer(s)] = @ + n]
      /\ clean' = FALSE
      /\ UNCHANGED <<rc, handles, sock, nread, qp, rr, wr, cq, memory>>
  BY ConSizeAssumption DEF ShortWrite, Go
<1>3. Functions'
  <2>1. chan' \in [Sides -> Nat]
    BY <1>1, <1>2, Peers DEF Functions
  <2>2. QED
    BY <1>1, <1>2, <2>1, CallsAre DEF Functions, prog, handles, tcp, verbs, memory
<1>4. /\ pc'[s] = "init" /\ phase'[s] = 2 /\ rc'[s] = rc[s] /\ ptr'[s] = ptr[s]
      /\ obj'[s] = obj[s] /\ sock'[s] = sock[s] /\ nread'[s] = nread[s] /\ props'[s] = "unread"
      /\ qp'[s] = qp[s] /\ rr'[s] = rr[s] /\ wr'[s] = wr[s] /\ cq'[s] = cq[s] /\ clean' = FALSE
  BY <1>1, <1>2 DEF Functions, prog, handles, tcp, verbs, memory
<1>5. SideInv(s)'
  <2>1. PlaceOf(s)'
    BY <1>1, <1>2, <1>4, SizeIs DEF SideInv, Functions, PlaceOf,
       Creating, Early, Working, Syncing, Linking, Third, Fourth, Fifth, Over
  <2>2. HandlesOf(s)'
    BY <1>1, <1>2, <1>4 DEF SideInv, HandlesOf, PlaceOf, All, Held,
       Creating, Early, Working, Syncing, Linking, Third, Fourth, Fifth, Over
  <2>3. SocketOf(s)'
    BY <1>1, <1>2, <1>4 DEF SideInv, SocketOf, PlaceOf, Gone,
       Creating, Early, Working, Syncing, Linking, Third, Fourth, Fifth, Over
  <2>4. QpOf(s)'
    BY <1>1, <1>2, <1>4 DEF SideInv, QpOf, PlaceOf,
       Creating, Early, Working, Syncing, Linking, Third, Fourth, Fifth, Over
  <2>5. QueueOf(s)'
    BY <1>1, <1>2, <1>4 DEF SideInv, QueueOf, PlaceOf, Waits, Awaits, Polling, Load,
       Creating, Early, Working, Syncing, Linking, Third, Fourth, Fifth, Over
  <2> QED BY <2>1, <2>2, <2>3, <2>4, <2>5 DEF SideInv
<1>6. Untouched(Peer(s))
  BY <1>1, <1>2, Peers DEF Functions, Untouched, prog, handles, tcp, verbs, memory
<1> QED BY <1>1, <1>3, <1>5, <1>6, Peers, UntouchedKeeps DEF LocalInv

LEMMA LocalGetError ==
  ASSUME LocalInv, NEW s \in Sides, GetError(s)
  PROVE  LocalInv'
<1>1. Functions /\ SideInv(s)
  BY DEF LocalInv
<1>2. /\ pc[s] = "get"
      /\ pc' = [pc EXCEPT ![s] = "destroy"]
      /\ UNCHANGED <<phase, rc, handles, tcp, verbs, memory, clean>>
  BY DEF GetError, Go
<1>3. Functions'
  BY <1>1, <1>2, CallsAre DEF Functions, prog, handles, tcp, verbs, memory
<1>4. /\ pc'[s] = "destroy" /\ phase'[s] = phase[s] /\ rc'[s] = rc[s] /\ ptr'[s] = ptr[s]
      /\ obj'[s] = obj[s] /\ sock'[s] = sock[s] /\ nread'[s] = nread[s] /\ props'[s] = props[s]
      /\ qp'[s] = qp[s] /\ rr'[s] = rr[s] /\ wr'[s] = wr[s] /\ cq'[s] = cq[s] /\ clean' = clean
  BY <1>1, <1>2 DEF Functions, prog, handles, tcp, verbs, memory
<1>5. SideInv(s)'
  <2>1. PlaceOf(s)'
    BY <1>1, <1>2, <1>4, SizeIs DEF SideInv, Functions, PlaceOf,
       Creating, Early, Working, Syncing, Linking, Third, Fourth, Fifth, Over
  <2>2. HandlesOf(s)'
    BY <1>1, <1>2, <1>4 DEF SideInv, HandlesOf, PlaceOf, All, Held,
       Creating, Early, Working, Syncing, Linking, Third, Fourth, Fifth, Over
  <2>3. SocketOf(s)'
    BY <1>1, <1>2, <1>4 DEF SideInv, SocketOf, PlaceOf, Gone,
       Creating, Early, Working, Syncing, Linking, Third, Fourth, Fifth, Over
  <2>4. QpOf(s)'
    BY <1>1, <1>2, <1>4 DEF SideInv, QpOf, PlaceOf,
       Creating, Early, Working, Syncing, Linking, Third, Fourth, Fifth, Over
  <2>5. QueueOf(s)'
    BY <1>1, <1>2, <1>4 DEF SideInv, QueueOf, PlaceOf, Waits, Awaits, Polling, Load,
       Creating, Early, Working, Syncing, Linking, Third, Fourth, Fifth, Over
  <2> QED BY <2>1, <2>2, <2>3, <2>4, <2>5 DEF SideInv
<1>6. Untouched(Peer(s))
  BY <1>1, <1>2, Peers DEF Functions, Untouched, prog, handles, tcp, verbs, memory
<1> QED BY <1>1, <1>3, <1>5, <1>6, Peers, UntouchedKeeps DEF LocalInv

LEMMA LocalModifyInit ==
  ASSUME LocalInv, NEW s \in Sides, ModifyQp(s), pc[s] = "init"
  PROVE  LocalInv'
<1>1. Functions /\ SideInv(s)
  BY DEF LocalInv
<1>2. /\ pc[s] = "init" /\ qp' = [qp EXCEPT ![s] = "INIT"]
      /\ pc' = [pc EXCEPT ![s] = IF s = "client" THEN "rr" ELSE "rtr"]
      /\ UNCHANGED <<phase, rc, handles, tcp, props, rr, wr, cq, memory, clean>>
  BY DEF ModifyQp, Go
<1>3. Functions'
  BY <1>1, <1>2, CallsAre DEF Functions, prog, handles, tcp, verbs, memory
<1>4. /\ pc'[s] = (IF s = "client" THEN "rr" ELSE "rtr") /\ phase'[s] = phase[s]
      /\ rc'[s] = rc[s] /\ ptr'[s] = ptr[s] /\ obj'[s] = obj[s] /\ sock'[s] = sock[s]
      /\ nread'[s] = nread[s] /\ props'[s] = props[s] /\ qp'[s] = "INIT" /\ rr'[s] = rr[s]
      /\ wr'[s] = wr[s] /\ cq'[s] = cq[s] /\ clean' = clean
  BY <1>1, <1>2 DEF Functions, prog, handles, tcp, verbs, memory
<1>5. SideInv(s)'
  <2>1. PlaceOf(s)'
    BY <1>1, <1>2, <1>4, SizeIs DEF SideInv, Functions, PlaceOf,
       Creating, Early, Working, Syncing, Linking, Third, Fourth, Fifth, Over
  <2>2. HandlesOf(s)'
    BY <1>1, <1>2, <1>4 DEF SideInv, HandlesOf, PlaceOf, All, Held,
       Creating, Early, Working, Syncing, Linking, Third, Fourth, Fifth, Over
  <2>3. SocketOf(s)'
    BY <1>1, <1>2, <1>4 DEF SideInv, SocketOf, PlaceOf, Gone,
       Creating, Early, Working, Syncing, Linking, Third, Fourth, Fifth, Over
  <2>4. QpOf(s)'
    BY <1>1, <1>2, <1>4 DEF SideInv, QpOf, PlaceOf,
       Creating, Early, Working, Syncing, Linking, Third, Fourth, Fifth, Over
  <2>5. QueueOf(s)'
    BY <1>1, <1>2, <1>4 DEF SideInv, QueueOf, PlaceOf, Waits, Awaits, Polling, Load,
       Creating, Early, Working, Syncing, Linking, Third, Fourth, Fifth, Over
  <2> QED BY <2>1, <2>2, <2>3, <2>4, <2>5 DEF SideInv
<1>6. Untouched(Peer(s))
  BY <1>1, <1>2, Peers DEF Functions, Untouched, prog, handles, tcp, verbs, memory
<1> QED BY <1>1, <1>3, <1>5, <1>6, Peers, UntouchedKeeps DEF LocalInv

LEMMA LocalModifyRtr ==
  ASSUME LocalInv, NEW s \in Sides, ModifyQp(s), pc[s] = "rtr"
  PROVE  LocalInv'
<1>1. Functions /\ SideInv(s)
  BY DEF LocalInv
<1>2. /\ pc[s] = "rtr" /\ qp' = [qp EXCEPT ![s] = "RTR"]
      /\ pc' = [pc EXCEPT ![s] = "rts"]
      /\ UNCHANGED <<phase, rc, handles, tcp, props, rr, wr, cq, memory, clean>>
  BY DEF ModifyQp, Go
<1>3. Functions'
  BY <1>1, <1>2, CallsAre DEF Functions, prog, handles, tcp, verbs, memory
<1>4. /\ pc'[s] = "rts" /\ phase'[s] = phase[s] /\ rc'[s] = rc[s] /\ ptr'[s] = ptr[s]
      /\ obj'[s] = obj[s] /\ sock'[s] = sock[s] /\ nread'[s] = nread[s] /\ props'[s] = props[s]
      /\ qp'[s] = "RTR" /\ rr'[s] = rr[s] /\ wr'[s] = wr[s] /\ cq'[s] = cq[s] /\ clean' = clean
  BY <1>1, <1>2 DEF Functions, prog, handles, tcp, verbs, memory
<1>5. SideInv(s)'
  <2>1. PlaceOf(s)'
    BY <1>1, <1>2, <1>4, SizeIs DEF SideInv, Functions, PlaceOf,
       Creating, Early, Working, Syncing, Linking, Third, Fourth, Fifth, Over
  <2>2. HandlesOf(s)'
    BY <1>1, <1>2, <1>4 DEF SideInv, HandlesOf, PlaceOf, All, Held,
       Creating, Early, Working, Syncing, Linking, Third, Fourth, Fifth, Over
  <2>3. SocketOf(s)'
    BY <1>1, <1>2, <1>4 DEF SideInv, SocketOf, PlaceOf, Gone,
       Creating, Early, Working, Syncing, Linking, Third, Fourth, Fifth, Over
  <2>4. QpOf(s)'
    BY <1>1, <1>2, <1>4 DEF SideInv, QpOf, PlaceOf,
       Creating, Early, Working, Syncing, Linking, Third, Fourth, Fifth, Over
  <2>5. QueueOf(s)'
    BY <1>1, <1>2, <1>4 DEF SideInv, QueueOf, PlaceOf, Waits, Awaits, Polling, Load,
       Creating, Early, Working, Syncing, Linking, Third, Fourth, Fifth, Over
  <2> QED BY <2>1, <2>2, <2>3, <2>4, <2>5 DEF SideInv
<1>6. Untouched(Peer(s))
  BY <1>1, <1>2, Peers DEF Functions, Untouched, prog, handles, tcp, verbs, memory
<1> QED BY <1>1, <1>3, <1>5, <1>6, Peers, UntouchedKeeps DEF LocalInv

LEMMA LocalModifyRts ==
  ASSUME LocalInv, NEW s \in Sides, ModifyQp(s), pc[s] = "rts"
  PROVE  LocalInv'
<1>1. Functions /\ SideInv(s)
  BY DEF LocalInv
<1>2. /\ pc[s] = "rts" /\ qp' = [qp EXCEPT ![s] = "RTS"]
      /\ pc' = [pc EXCEPT ![s] = "put"]
      /\ UNCHANGED <<phase, rc, handles, tcp, props, rr, wr, cq, memory, clean>>
  BY DEF ModifyQp, Go
<1>3. Functions'
  BY <1>1, <1>2, CallsAre DEF Functions, prog, handles, tcp, verbs, memory
<1>4. /\ pc'[s] = "put" /\ phase'[s] = phase[s] /\ rc'[s] = rc[s] /\ ptr'[s] = ptr[s]
      /\ obj'[s] = obj[s] /\ sock'[s] = sock[s] /\ nread'[s] = nread[s] /\ props'[s] = props[s]
      /\ qp'[s] = "RTS" /\ rr'[s] = rr[s] /\ wr'[s] = wr[s] /\ cq'[s] = cq[s] /\ clean' = clean
  BY <1>1, <1>2 DEF Functions, prog, handles, tcp, verbs, memory
<1>5. SideInv(s)'
  <2>1. PlaceOf(s)'
    BY <1>1, <1>2, <1>4, SizeIs DEF SideInv, Functions, PlaceOf,
       Creating, Early, Working, Syncing, Linking, Third, Fourth, Fifth, Over
  <2>2. HandlesOf(s)'
    BY <1>1, <1>2, <1>4 DEF SideInv, HandlesOf, PlaceOf, All, Held,
       Creating, Early, Working, Syncing, Linking, Third, Fourth, Fifth, Over
  <2>3. SocketOf(s)'
    BY <1>1, <1>2, <1>4 DEF SideInv, SocketOf, PlaceOf, Gone,
       Creating, Early, Working, Syncing, Linking, Third, Fourth, Fifth, Over
  <2>4. QpOf(s)'
    BY <1>1, <1>2, <1>4 DEF SideInv, QpOf, PlaceOf,
       Creating, Early, Working, Syncing, Linking, Third, Fourth, Fifth, Over
  <2>5. QueueOf(s)'
    BY <1>1, <1>2, <1>4 DEF SideInv, QueueOf, PlaceOf, Waits, Awaits, Polling, Load,
       Creating, Early, Working, Syncing, Linking, Third, Fourth, Fifth, Over
  <2> QED BY <2>1, <2>2, <2>3, <2>4, <2>5 DEF SideInv
<1>6. Untouched(Peer(s))
  BY <1>1, <1>2, Peers DEF Functions, Untouched, prog, handles, tcp, verbs, memory
<1> QED BY <1>1, <1>3, <1>5, <1>6, Peers, UntouchedKeeps DEF LocalInv

LEMMA LocalPostReceive ==
  ASSUME LocalInv, NEW s \in Sides, PostReceive(s)
  PROVE  LocalInv'
<1>1. Functions /\ SideInv(s)
  BY DEF LocalInv
<1>2. /\ pc[s] = "rr"
      /\ pc' = [pc EXCEPT ![s] = "rtr"]
      /\ rr' = [rr EXCEPT ![s] = 1]
      /\ UNCHANGED <<phase, rc, handles, tcp, props, qp, wr, cq, memory, clean>>
  BY DEF PostReceive, Go
<1>3. Functions'
  BY <1>1, <1>2, CallsAre DEF Functions, prog, handles, tcp, verbs, memory
<1>4. /\ pc'[s] = "rtr" /\ phase'[s] = phase[s] /\ rc'[s] = rc[s] /\ ptr'[s] = ptr[s]
      /\ obj'[s] = obj[s] /\ sock'[s] = sock[s] /\ nread'[s] = nread[s] /\ props'[s] = props[s]
      /\ qp'[s] = qp[s] /\ rr'[s] = 1 /\ wr'[s] = wr[s] /\ cq'[s] = cq[s] /\ clean' = clean
  BY <1>1, <1>2 DEF Functions, prog, handles, tcp, verbs, memory
<1>5. SideInv(s)'
  <2>1. PlaceOf(s)'
    BY <1>1, <1>2, <1>4, SizeIs DEF SideInv, Functions, PlaceOf,
       Creating, Early, Working, Syncing, Linking, Third, Fourth, Fifth, Over
  <2>2. HandlesOf(s)'
    BY <1>1, <1>2, <1>4 DEF SideInv, HandlesOf, PlaceOf, All, Held,
       Creating, Early, Working, Syncing, Linking, Third, Fourth, Fifth, Over
  <2>3. SocketOf(s)'
    BY <1>1, <1>2, <1>4 DEF SideInv, SocketOf, PlaceOf, Gone,
       Creating, Early, Working, Syncing, Linking, Third, Fourth, Fifth, Over
  <2>4. QpOf(s)'
    BY <1>1, <1>2, <1>4 DEF SideInv, QpOf, PlaceOf,
       Creating, Early, Working, Syncing, Linking, Third, Fourth, Fifth, Over
  <2>5. QueueOf(s)'
    <3>1. pc[s] \in Working(s) /\ ~ Waits(s) /\ pc'[s] \notin Early
      BY <1>1, <1>2, <1>4 DEF SideInv, PlaceOf, Waits, Awaits, Polling, Creating, Early, Working,
        Syncing, Linking, Third, Fourth, Fifth, Over
    <3>2. cq[s] = <<>> /\ rr[s] = 0 /\ wr[s] = "none" /\ Len(cq[s]) = 0
      BY <1>1, <3>1, LoadIs DEF SideInv, QueueOf
    <3>3. Load(s)' = 1
      BY <1>4, <3>2 DEF Load
    <3>4. Waits(s)' /\ s = "client"
      BY <1>1, <1>2, <1>4 DEF SideInv, PlaceOf, Waits, Awaits, Polling, Creating, Early, Working,
        Syncing, Linking, Third, Fourth, Fifth, Over
    <3> QED BY <1>1, <1>2, <1>4, <3>2, <3>3, <3>4 DEF QueueOf
  <2> QED BY <2>1, <2>2, <2>3, <2>4, <2>5 DEF SideInv
<1>6. Untouched(Peer(s))
  BY <1>1, <1>2, Peers DEF Functions, Untouched, prog, handles, tcp, verbs, memory
<1> QED BY <1>1, <1>3, <1>5, <1>6, Peers, UntouchedKeeps DEF LocalInv

LEMMA LocalPostMessage ==
  ASSUME LocalInv, NEW s \in Sides, PostSend(s), pc[s] = "send"
  PROVE  LocalInv'
<1>1. Functions /\ SideInv(s)
  BY DEF LocalInv
<1>2. /\ pc[s] = "send" /\ wr' = [wr EXCEPT ![s] = "SEND"]
      /\ pc' = [pc EXCEPT ![s] = "poll"]
      /\ UNCHANGED <<phase, rc, handles, tcp, props, qp, rr, cq, memory, clean>>
  BY DEF PostSend, Go
<1>0. s = "server"
  BY <1>1, <1>2, Peers DEF SideInv, PlaceOf,
    Creating, Early, Working, Syncing, Linking, Third, Fourth, Fifth, Over
<1>3. Functions'
  BY <1>1, <1>2, CallsAre DEF Functions, prog, handles, tcp, verbs, memory
<1>4. /\ pc'[s] = "poll" /\ phase'[s] = phase[s] /\ rc'[s] = rc[s] /\ ptr'[s] = ptr[s]
      /\ obj'[s] = obj[s] /\ sock'[s] = sock[s] /\ nread'[s] = nread[s] /\ props'[s] = props[s]
      /\ qp'[s] = qp[s] /\ rr'[s] = rr[s] /\ wr'[s] = "SEND" /\ cq'[s] = cq[s] /\ clean' = clean
      /\ s = "server"
  BY <1>0, <1>1, <1>2 DEF Functions, prog, handles, tcp, verbs, memory
<1>5. SideInv(s)'
  <2>1. PlaceOf(s)'
    BY <1>1, <1>2, <1>4, SizeIs DEF SideInv, Functions, PlaceOf,
       Creating, Early, Working, Syncing, Linking, Third, Fourth, Fifth, Over
  <2>2. HandlesOf(s)'
    BY <1>1, <1>2, <1>4 DEF SideInv, HandlesOf, PlaceOf, All, Held,
       Creating, Early, Working, Syncing, Linking, Third, Fourth, Fifth, Over
  <2>3. SocketOf(s)'
    BY <1>1, <1>2, <1>4 DEF SideInv, SocketOf, PlaceOf, Gone,
       Creating, Early, Working, Syncing, Linking, Third, Fourth, Fifth, Over
  <2>4. QpOf(s)'
    BY <1>1, <1>2, <1>4 DEF SideInv, QpOf, PlaceOf,
       Creating, Early, Working, Syncing, Linking, Third, Fourth, Fifth, Over
  <2>5. QueueOf(s)'
    <3>1. pc[s] \in Working(s) /\ ~ Waits(s) /\ pc'[s] \notin Early
      BY <1>1, <1>2, <1>4 DEF SideInv, PlaceOf, Waits, Awaits, Polling, Creating, Early, Working,
        Syncing, Linking, Third, Fourth, Fifth, Over
    <3>2. cq[s] = <<>> /\ rr[s] = 0 /\ wr[s] = "none" /\ Len(cq[s]) = 0
      BY <1>1, <3>1, LoadIs DEF SideInv, QueueOf
    <3>3. Load(s)' = 1
      BY <1>4, <3>2 DEF Load
    <3>4. Waits(s)' /\ ~ Awaits(s)'
      BY <1>1, <1>2, <1>4 DEF SideInv, PlaceOf, Waits, Awaits, Polling, Creating, Early, Working,
        Syncing, Linking, Third, Fourth, Fifth, Over
    <3> QED BY <1>1, <1>2, <1>4, <3>2, <3>3, <3>4 DEF QueueOf
  <2> QED BY <2>1, <2>2, <2>3, <2>4, <2>5 DEF SideInv
<1>6. Untouched(Peer(s))
  BY <1>1, <1>2, Peers DEF Functions, Untouched, prog, handles, tcp, verbs, memory
<1> QED BY <1>1, <1>3, <1>5, <1>6, Peers, UntouchedKeeps DEF LocalInv

LEMMA LocalPostRead ==
  ASSUME LocalInv, NEW s \in Sides, PostSend(s), pc[s] = "read"
  PROVE  LocalInv'
<1>1. Functions /\ SideInv(s)
  BY DEF LocalInv
<1>2. /\ pc[s] = "read" /\ wr' = [wr EXCEPT ![s] = "READ"]
      /\ pc' = [pc EXCEPT ![s] = "pollR"]
      /\ UNCHANGED <<phase, rc, handles, tcp, props, qp, rr, cq, memory, clean>>
  BY DEF PostSend, Go
<1>0. s = "client"
  BY <1>1, <1>2, Peers DEF SideInv, PlaceOf,
    Creating, Early, Working, Syncing, Linking, Third, Fourth, Fifth, Over
<1>3. Functions'
  BY <1>1, <1>2, CallsAre DEF Functions, prog, handles, tcp, verbs, memory
<1>4. /\ pc'[s] = "pollR" /\ phase'[s] = phase[s] /\ rc'[s] = rc[s] /\ ptr'[s] = ptr[s]
      /\ obj'[s] = obj[s] /\ sock'[s] = sock[s] /\ nread'[s] = nread[s] /\ props'[s] = props[s]
      /\ qp'[s] = qp[s] /\ rr'[s] = rr[s] /\ wr'[s] = "READ" /\ cq'[s] = cq[s] /\ clean' = clean
      /\ s = "client"
  BY <1>0, <1>1, <1>2 DEF Functions, prog, handles, tcp, verbs, memory
<1>5. SideInv(s)'
  <2>1. PlaceOf(s)'
    BY <1>1, <1>2, <1>4, SizeIs DEF SideInv, Functions, PlaceOf,
       Creating, Early, Working, Syncing, Linking, Third, Fourth, Fifth, Over
  <2>2. HandlesOf(s)'
    BY <1>1, <1>2, <1>4 DEF SideInv, HandlesOf, PlaceOf, All, Held,
       Creating, Early, Working, Syncing, Linking, Third, Fourth, Fifth, Over
  <2>3. SocketOf(s)'
    BY <1>1, <1>2, <1>4 DEF SideInv, SocketOf, PlaceOf, Gone,
       Creating, Early, Working, Syncing, Linking, Third, Fourth, Fifth, Over
  <2>4. QpOf(s)'
    BY <1>1, <1>2, <1>4 DEF SideInv, QpOf, PlaceOf,
       Creating, Early, Working, Syncing, Linking, Third, Fourth, Fifth, Over
  <2>5. QueueOf(s)'
    <3>1. pc[s] \in Working(s) /\ ~ Waits(s) /\ pc'[s] \notin Early
      BY <1>1, <1>2, <1>4 DEF SideInv, PlaceOf, Waits, Awaits, Polling, Creating, Early, Working,
        Syncing, Linking, Third, Fourth, Fifth, Over
    <3>2. cq[s] = <<>> /\ rr[s] = 0 /\ wr[s] = "none" /\ Len(cq[s]) = 0
      BY <1>1, <3>1, LoadIs DEF SideInv, QueueOf
    <3>3. Load(s)' = 1
      BY <1>4, <3>2 DEF Load
    <3>4. Waits(s)' /\ ~ Awaits(s)'
      BY <1>1, <1>2, <1>4 DEF SideInv, PlaceOf, Waits, Awaits, Polling, Creating, Early, Working,
        Syncing, Linking, Third, Fourth, Fifth, Over
    <3> QED BY <1>1, <1>2, <1>4, <3>2, <3>3, <3>4 DEF QueueOf
  <2> QED BY <2>1, <2>2, <2>3, <2>4, <2>5 DEF SideInv
<1>6. Untouched(Peer(s))
  BY <1>1, <1>2, Peers DEF Functions, Untouched, prog, handles, tcp, verbs, memory
<1> QED BY <1>1, <1>3, <1>5, <1>6, Peers, UntouchedKeeps DEF LocalInv

LEMMA LocalPostWrite ==
  ASSUME LocalInv, NEW s \in Sides, PostSend(s), pc[s] = "write"
  PROVE  LocalInv'
<1>1. Functions /\ SideInv(s)
  BY DEF LocalInv
<1>2. /\ pc[s] = "write" /\ wr' = [wr EXCEPT ![s] = "WRITE"]
      /\ pc' = [pc EXCEPT ![s] = "pollW"]
      /\ UNCHANGED <<phase, rc, handles, tcp, props, qp, rr, cq, memory, clean>>
  BY DEF PostSend, Go
<1>0. s = "client"
  BY <1>1, <1>2, Peers DEF SideInv, PlaceOf,
    Creating, Early, Working, Syncing, Linking, Third, Fourth, Fifth, Over
<1>3. Functions'
  BY <1>1, <1>2, CallsAre DEF Functions, prog, handles, tcp, verbs, memory
<1>4. /\ pc'[s] = "pollW" /\ phase'[s] = phase[s] /\ rc'[s] = rc[s] /\ ptr'[s] = ptr[s]
      /\ obj'[s] = obj[s] /\ sock'[s] = sock[s] /\ nread'[s] = nread[s] /\ props'[s] = props[s]
      /\ qp'[s] = qp[s] /\ rr'[s] = rr[s] /\ wr'[s] = "WRITE" /\ cq'[s] = cq[s]
      /\ clean' = clean /\ s = "client"
  BY <1>0, <1>1, <1>2 DEF Functions, prog, handles, tcp, verbs, memory
<1>5. SideInv(s)'
  <2>1. PlaceOf(s)'
    BY <1>1, <1>2, <1>4, SizeIs DEF SideInv, Functions, PlaceOf,
       Creating, Early, Working, Syncing, Linking, Third, Fourth, Fifth, Over
  <2>2. HandlesOf(s)'
    BY <1>1, <1>2, <1>4 DEF SideInv, HandlesOf, PlaceOf, All, Held,
       Creating, Early, Working, Syncing, Linking, Third, Fourth, Fifth, Over
  <2>3. SocketOf(s)'
    BY <1>1, <1>2, <1>4 DEF SideInv, SocketOf, PlaceOf, Gone,
       Creating, Early, Working, Syncing, Linking, Third, Fourth, Fifth, Over
  <2>4. QpOf(s)'
    BY <1>1, <1>2, <1>4 DEF SideInv, QpOf, PlaceOf,
       Creating, Early, Working, Syncing, Linking, Third, Fourth, Fifth, Over
  <2>5. QueueOf(s)'
    <3>1. pc[s] \in Working(s) /\ ~ Waits(s) /\ pc'[s] \notin Early
      BY <1>1, <1>2, <1>4 DEF SideInv, PlaceOf, Waits, Awaits, Polling, Creating, Early, Working,
        Syncing, Linking, Third, Fourth, Fifth, Over
    <3>2. cq[s] = <<>> /\ rr[s] = 0 /\ wr[s] = "none" /\ Len(cq[s]) = 0
      BY <1>1, <3>1, LoadIs DEF SideInv, QueueOf
    <3>3. Load(s)' = 1
      BY <1>4, <3>2 DEF Load
    <3>4. Waits(s)' /\ ~ Awaits(s)'
      BY <1>1, <1>2, <1>4 DEF SideInv, PlaceOf, Waits, Awaits, Polling, Creating, Early, Working,
        Syncing, Linking, Third, Fourth, Fifth, Over
    <3> QED BY <1>1, <1>2, <1>4, <3>2, <3>3, <3>4 DEF QueueOf
  <2> QED BY <2>1, <2>2, <2>3, <2>4, <2>5 DEF SideInv
<1>6. Untouched(Peer(s))
  BY <1>1, <1>2, Peers DEF Functions, Untouched, prog, handles, tcp, verbs, memory
<1> QED BY <1>1, <1>3, <1>5, <1>6, Peers, UntouchedKeeps DEF LocalInv

LEMMA LocalMainFill ==
  ASSUME LocalInv, NEW s \in Sides, Main(s), pc[s] = "fill"
  PROVE  LocalInv'
<1>1. Functions /\ SideInv(s)
  BY DEF LocalInv
<1>2. /\ pc[s] = "fill" /\ s = "server"
      /\ pc' = [pc EXCEPT ![s] = "put"] /\ rc' = rc
      /\ buf' \in {buf, [buf EXCEPT ![s] = "R"], [buf EXCEPT ![s] = "W"]}
      /\ seen' = seen \/ seen' = [seen EXCEPT ![s] = Append(@, buf[s])]
      /\ UNCHANGED <<phase, handles, tcp, verbs, clean>>
  BY <1>1, Peers DEF Main, Go, Functions, SideInv, PlaceOf, Creating, Early, Working, Syncing,
    Linking, Third, Fourth, Fifth, Over
<1>3. Functions'
  <2>1. \A q \in Seq(Texts), b \in Texts : Append(q, b) \in Seq(Texts)
    OBVIOUS
  <2>2. seen' \in [Sides -> Seq(Texts)]
    <3>1. seen \in [Sides -> Seq(Texts)] /\ buf \in [Sides -> Texts]
      BY <1>1 DEF Functions
    <3>2. CASE seen' = seen
      BY <3>1, <3>2
    <3>3. CASE seen' = [seen EXCEPT ![s] = Append(@, buf[s])]
      BY <2>1, <3>1, <3>3
    <3> QED BY <1>2, <3>2, <3>3
  <2>3. buf' \in [Sides -> Texts]
    BY <1>1, <1>2 DEF Functions, Texts
  <2> QED BY <1>1, <1>2, <2>2, <2>3, CallsAre DEF Functions, prog, handles, tcp, verbs, memory
<1>4. /\ pc'[s] = "put" /\ phase'[s] = phase[s] /\ rc'[s] = rc[s] /\ ptr'[s] = ptr[s]
      /\ obj'[s] = obj[s] /\ sock'[s] = sock[s] /\ nread'[s] = nread[s] /\ props'[s] = props[s]
      /\ qp'[s] = qp[s] /\ rr'[s] = rr[s] /\ wr'[s] = wr[s] /\ cq'[s] = cq[s] /\ clean' = clean
      /\ ptr[s] = All /\ obj[s] = All
  BY <1>1, <1>2 DEF Functions, prog, handles, tcp, verbs, memory, SideInv, HandlesOf, Creating,
    Early, Working, Syncing, Linking, Third, Fourth, Fifth, Over
<1>5. SideInv(s)'
  <2>1. PlaceOf(s)'
    BY <1>1, <1>2, <1>4, SizeIs DEF SideInv, Functions, PlaceOf,
       Creating, Early, Working, Syncing, Linking, Third, Fourth, Fifth, Over
  <2>2. HandlesOf(s)'
    BY <1>1, <1>2, <1>4 DEF SideInv, HandlesOf, PlaceOf, All, Held,
       Creating, Early, Working, Syncing, Linking, Third, Fourth, Fifth, Over
  <2>3. SocketOf(s)'
    BY <1>1, <1>2, <1>4 DEF SideInv, SocketOf, PlaceOf, Gone,
       Creating, Early, Working, Syncing, Linking, Third, Fourth, Fifth, Over
  <2>4. QpOf(s)'
    BY <1>1, <1>2, <1>4 DEF SideInv, QpOf, PlaceOf,
       Creating, Early, Working, Syncing, Linking, Third, Fourth, Fifth, Over
  <2>5. QueueOf(s)'
    BY <1>1, <1>2, <1>4 DEF SideInv, QueueOf, PlaceOf, Waits, Awaits, Polling, Load,
       Creating, Early, Working, Syncing, Linking, Third, Fourth, Fifth, Over
  <2> QED BY <2>1, <2>2, <2>3, <2>4, <2>5 DEF SideInv
<1>6. Untouched(Peer(s))
  BY <1>1, <1>2, Peers DEF Functions, Untouched, prog, handles, tcp, verbs, memory
<1> QED BY <1>1, <1>3, <1>5, <1>6, Peers, UntouchedKeeps DEF LocalInv

LEMMA LocalMainShow ==
  ASSUME LocalInv, NEW s \in Sides, Main(s), pc[s] = "show", s = "client"
  PROVE  LocalInv'
<1>1. Functions /\ SideInv(s)
  BY DEF LocalInv
<1>2. /\ pc[s] = "show" /\ s = "client"
      /\ pc' = [pc EXCEPT ![s] = "put"] /\ rc' = rc
      /\ buf' \in {buf, [buf EXCEPT ![s] = "R"], [buf EXCEPT ![s] = "W"]}
      /\ seen' = seen \/ seen' = [seen EXCEPT ![s] = Append(@, buf[s])]
      /\ UNCHANGED <<phase, handles, tcp, verbs, clean>>
  BY <1>1, Peers DEF Main, Go, Functions, SideInv, PlaceOf, Creating, Early, Working, Syncing,
    Linking, Third, Fourth, Fifth, Over
<1>3. Functions'
  <2>1. \A q \in Seq(Texts), b \in Texts : Append(q, b) \in Seq(Texts)
    OBVIOUS
  <2>2. seen' \in [Sides -> Seq(Texts)]
    <3>1. seen \in [Sides -> Seq(Texts)] /\ buf \in [Sides -> Texts]
      BY <1>1 DEF Functions
    <3>2. CASE seen' = seen
      BY <3>1, <3>2
    <3>3. CASE seen' = [seen EXCEPT ![s] = Append(@, buf[s])]
      BY <2>1, <3>1, <3>3
    <3> QED BY <1>2, <3>2, <3>3
  <2>3. buf' \in [Sides -> Texts]
    BY <1>1, <1>2 DEF Functions, Texts
  <2> QED BY <1>1, <1>2, <2>2, <2>3, CallsAre DEF Functions, prog, handles, tcp, verbs, memory
<1>4. /\ pc'[s] = "put" /\ phase'[s] = phase[s] /\ rc'[s] = rc[s] /\ ptr'[s] = ptr[s]
      /\ obj'[s] = obj[s] /\ sock'[s] = sock[s] /\ nread'[s] = nread[s] /\ props'[s] = props[s]
      /\ qp'[s] = qp[s] /\ rr'[s] = rr[s] /\ wr'[s] = wr[s] /\ cq'[s] = cq[s] /\ clean' = clean
      /\ ptr[s] = All /\ obj[s] = All
  BY <1>1, <1>2 DEF Functions, prog, handles, tcp, verbs, memory, SideInv, HandlesOf, Creating,
    Early, Working, Syncing, Linking, Third, Fourth, Fifth, Over
<1>5. SideInv(s)'
  <2>1. PlaceOf(s)'
    BY <1>1, <1>2, <1>4, SizeIs DEF SideInv, Functions, PlaceOf,
       Creating, Early, Working, Syncing, Linking, Third, Fourth, Fifth, Over
  <2>2. HandlesOf(s)'
    BY <1>1, <1>2, <1>4 DEF SideInv, HandlesOf, PlaceOf, All, Held,
       Creating, Early, Working, Syncing, Linking, Third, Fourth, Fifth, Over
  <2>3. SocketOf(s)'
    BY <1>1, <1>2, <1>4 DEF SideInv, SocketOf, PlaceOf, Gone,
       Creating, Early, Working, Syncing, Linking, Third, Fourth, Fifth, Over
  <2>4. QpOf(s)'
    BY <1>1, <1>2, <1>4 DEF SideInv, QpOf, PlaceOf,
       Creating, Early, Working, Syncing, Linking, Third, Fourth, Fifth, Over
  <2>5. QueueOf(s)'
    BY <1>1, <1>2, <1>4 DEF SideInv, QueueOf, PlaceOf, Waits, Awaits, Polling, Load,
       Creating, Early, Working, Syncing, Linking, Third, Fourth, Fifth, Over
  <2> QED BY <2>1, <2>2, <2>3, <2>4, <2>5 DEF SideInv
<1>6. Untouched(Peer(s))
  BY <1>1, <1>2, Peers DEF Functions, Untouched, prog, handles, tcp, verbs, memory
<1> QED BY <1>1, <1>3, <1>5, <1>6, Peers, UntouchedKeeps DEF LocalInv

LEMMA LocalMainEnd ==
  ASSUME LocalInv, NEW s \in Sides, Main(s), pc[s] = "show", s = "server"
  PROVE  LocalInv'
<1>1. Functions /\ SideInv(s)
  BY DEF LocalInv
<1>2. /\ pc[s] = "show" /\ s = "server"
      /\ pc' = [pc EXCEPT ![s] = "destroy"] /\ rc' = [rc EXCEPT ![s] = 0]
      /\ buf' \in {buf, [buf EXCEPT ![s] = "R"], [buf EXCEPT ![s] = "W"]}
      /\ seen' = seen \/ seen' = [seen EXCEPT ![s] = Append(@, buf[s])]
      /\ UNCHANGED <<phase, handles, tcp, verbs, clean>>
  BY <1>1, Peers DEF Main, Go, Functions, SideInv, PlaceOf, Creating, Early, Working, Syncing,
    Linking, Third, Fourth, Fifth, Over
<1>3. Functions'
  <2>1. \A q \in Seq(Texts), b \in Texts : Append(q, b) \in Seq(Texts)
    OBVIOUS
  <2>2. seen' \in [Sides -> Seq(Texts)]
    <3>1. seen \in [Sides -> Seq(Texts)] /\ buf \in [Sides -> Texts]
      BY <1>1 DEF Functions
    <3>2. CASE seen' = seen
      BY <3>1, <3>2
    <3>3. CASE seen' = [seen EXCEPT ![s] = Append(@, buf[s])]
      BY <2>1, <3>1, <3>3
    <3> QED BY <1>2, <3>2, <3>3
  <2>3. buf' \in [Sides -> Texts]
    BY <1>1, <1>2 DEF Functions, Texts
  <2> QED BY <1>1, <1>2, <2>2, <2>3, CallsAre DEF Functions, prog, handles, tcp, verbs, memory
<1>4. /\ pc'[s] = "destroy" /\ phase'[s] = phase[s] /\ rc'[s] = 0 /\ ptr'[s] = ptr[s]
      /\ obj'[s] = obj[s] /\ sock'[s] = sock[s] /\ nread'[s] = nread[s] /\ props'[s] = props[s]
      /\ qp'[s] = qp[s] /\ rr'[s] = rr[s] /\ wr'[s] = wr[s] /\ cq'[s] = cq[s] /\ clean' = clean
      /\ ptr[s] = All /\ obj[s] = All
  BY <1>1, <1>2 DEF Functions, prog, handles, tcp, verbs, memory, SideInv, HandlesOf, Creating,
    Early, Working, Syncing, Linking, Third, Fourth, Fifth, Over
<1>5. SideInv(s)'
  <2>1. PlaceOf(s)'
    BY <1>1, <1>2, <1>4, SizeIs DEF SideInv, Functions, PlaceOf,
       Creating, Early, Working, Syncing, Linking, Third, Fourth, Fifth, Over
  <2>2. HandlesOf(s)'
    BY <1>1, <1>2, <1>4 DEF SideInv, HandlesOf, PlaceOf, All, Held,
       Creating, Early, Working, Syncing, Linking, Third, Fourth, Fifth, Over
  <2>3. SocketOf(s)'
    BY <1>1, <1>2, <1>4 DEF SideInv, SocketOf, PlaceOf, Gone,
       Creating, Early, Working, Syncing, Linking, Third, Fourth, Fifth, Over
  <2>4. QpOf(s)'
    BY <1>1, <1>2, <1>4 DEF SideInv, QpOf, PlaceOf,
       Creating, Early, Working, Syncing, Linking, Third, Fourth, Fifth, Over
  <2>5. QueueOf(s)'
    BY <1>1, <1>2, <1>4 DEF SideInv, QueueOf, PlaceOf, Waits, Awaits, Polling, Load,
       Creating, Early, Working, Syncing, Linking, Third, Fourth, Fifth, Over
  <2> QED BY <2>1, <2>2, <2>3, <2>4, <2>5 DEF SideInv
<1>6. Untouched(Peer(s))
  BY <1>1, <1>2, Peers DEF Functions, Untouched, prog, handles, tcp, verbs, memory
<1> QED BY <1>1, <1>3, <1>5, <1>6, Peers, UntouchedKeeps DEF LocalInv

LEMMA LocalMainRead ==
  ASSUME LocalInv, NEW s \in Sides, Main(s), pc[s] = "showR"
  PROVE  LocalInv'
<1>1. Functions /\ SideInv(s)
  BY DEF LocalInv
<1>2. /\ pc[s] = "showR" /\ s = "client"
      /\ pc' = [pc EXCEPT ![s] = "write"] /\ rc' = rc
      /\ buf' \in {buf, [buf EXCEPT ![s] = "R"], [buf EXCEPT ![s] = "W"]}
      /\ seen' = seen \/ seen' = [seen EXCEPT ![s] = Append(@, buf[s])]
      /\ UNCHANGED <<phase, handles, tcp, verbs, clean>>
  BY <1>1, Peers DEF Main, Go, Functions, SideInv, PlaceOf, Creating, Early, Working, Syncing,
    Linking, Third, Fourth, Fifth, Over
<1>3. Functions'
  <2>1. \A q \in Seq(Texts), b \in Texts : Append(q, b) \in Seq(Texts)
    OBVIOUS
  <2>2. seen' \in [Sides -> Seq(Texts)]
    <3>1. seen \in [Sides -> Seq(Texts)] /\ buf \in [Sides -> Texts]
      BY <1>1 DEF Functions
    <3>2. CASE seen' = seen
      BY <3>1, <3>2
    <3>3. CASE seen' = [seen EXCEPT ![s] = Append(@, buf[s])]
      BY <2>1, <3>1, <3>3
    <3> QED BY <1>2, <3>2, <3>3
  <2>3. buf' \in [Sides -> Texts]
    BY <1>1, <1>2 DEF Functions, Texts
  <2> QED BY <1>1, <1>2, <2>2, <2>3, CallsAre DEF Functions, prog, handles, tcp, verbs, memory
<1>4. /\ pc'[s] = "write" /\ phase'[s] = phase[s] /\ rc'[s] = rc[s] /\ ptr'[s] = ptr[s]
      /\ obj'[s] = obj[s] /\ sock'[s] = sock[s] /\ nread'[s] = nread[s] /\ props'[s] = props[s]
      /\ qp'[s] = qp[s] /\ rr'[s] = rr[s] /\ wr'[s] = wr[s] /\ cq'[s] = cq[s] /\ clean' = clean
      /\ ptr[s] = All /\ obj[s] = All
  BY <1>1, <1>2 DEF Functions, prog, handles, tcp, verbs, memory, SideInv, HandlesOf, Creating,
    Early, Working, Syncing, Linking, Third, Fourth, Fifth, Over
<1>5. SideInv(s)'
  <2>1. PlaceOf(s)'
    BY <1>1, <1>2, <1>4, SizeIs DEF SideInv, Functions, PlaceOf,
       Creating, Early, Working, Syncing, Linking, Third, Fourth, Fifth, Over
  <2>2. HandlesOf(s)'
    BY <1>1, <1>2, <1>4 DEF SideInv, HandlesOf, PlaceOf, All, Held,
       Creating, Early, Working, Syncing, Linking, Third, Fourth, Fifth, Over
  <2>3. SocketOf(s)'
    BY <1>1, <1>2, <1>4 DEF SideInv, SocketOf, PlaceOf, Gone,
       Creating, Early, Working, Syncing, Linking, Third, Fourth, Fifth, Over
  <2>4. QpOf(s)'
    BY <1>1, <1>2, <1>4 DEF SideInv, QpOf, PlaceOf,
       Creating, Early, Working, Syncing, Linking, Third, Fourth, Fifth, Over
  <2>5. QueueOf(s)'
    BY <1>1, <1>2, <1>4 DEF SideInv, QueueOf, PlaceOf, Waits, Awaits, Polling, Load,
       Creating, Early, Working, Syncing, Linking, Third, Fourth, Fifth, Over
  <2> QED BY <2>1, <2>2, <2>3, <2>4, <2>5 DEF SideInv
<1>6. Untouched(Peer(s))
  BY <1>1, <1>2, Peers DEF Functions, Untouched, prog, handles, tcp, verbs, memory
<1> QED BY <1>1, <1>3, <1>5, <1>6, Peers, UntouchedKeeps DEF LocalInv

LEMMA LocalCallFails ==
  ASSUME LocalInv, NEW s \in Sides, CallFails(s)
  PROVE  LocalInv'
<1>1. Functions /\ SideInv(s)
  BY DEF LocalInv
<1>2. /\ pc[s] \in {"start", "put", "get", "init", "rr", "rtr", "rts", "send", "read", "write",
                    "poll", "pollR", "pollW"}
      /\ pc' = [pc EXCEPT ![s] = "destroy"] /\ clean' = FALSE
      /\ UNCHANGED <<phase, rc, handles, tcp, verbs, memory>>
  BY DEF CallFails, GiveUp, Go
<1>3. Functions'
  BY <1>1, <1>2, CallsAre DEF Functions, prog, handles, tcp, verbs, memory
<1>4. /\ pc'[s] = "destroy" /\ phase'[s] = phase[s] /\ rc'[s] = rc[s] /\ ptr'[s] = ptr[s]
      /\ obj'[s] = obj[s] /\ sock'[s] = sock[s] /\ nread'[s] = nread[s] /\ props'[s] = props[s]
      /\ qp'[s] = qp[s] /\ rr'[s] = rr[s] /\ wr'[s] = wr[s] /\ cq'[s] = cq[s] /\ clean' = FALSE
  BY <1>1, <1>2 DEF Functions, prog, handles, tcp, verbs, memory
<1>5. SideInv(s)'
  <2>1. PlaceOf(s)'
    BY <1>1, <1>2, <1>4, SizeIs DEF SideInv, Functions, PlaceOf,
       Creating, Early, Working, Syncing, Linking, Third, Fourth, Fifth, Over
  <2>2. HandlesOf(s)'
    BY <1>1, <1>2, <1>4 DEF SideInv, HandlesOf, PlaceOf, All, Held,
       Creating, Early, Working, Syncing, Linking, Third, Fourth, Fifth, Over
  <2>3. SocketOf(s)'
    BY <1>1, <1>2, <1>4 DEF SideInv, SocketOf, PlaceOf, Gone,
       Creating, Early, Working, Syncing, Linking, Third, Fourth, Fifth, Over
  <2>4. QpOf(s)'
    BY <1>1, <1>2, <1>4 DEF SideInv, QpOf, PlaceOf,
       Creating, Early, Working, Syncing, Linking, Third, Fourth, Fifth, Over
  <2>5. QueueOf(s)'
    BY <1>1, <1>2, <1>4 DEF SideInv, QueueOf, PlaceOf, Waits, Awaits, Polling, Load,
       Creating, Early, Working, Syncing, Linking, Third, Fourth, Fifth, Over
  <2> QED BY <2>1, <2>2, <2>3, <2>4, <2>5 DEF SideInv
<1>6. Untouched(Peer(s))
  BY <1>1, <1>2, Peers DEF Functions, Untouched, prog, handles, tcp, verbs, memory
<1> QED BY <1>1, <1>3, <1>5, <1>6, Peers, UntouchedKeeps DEF LocalInv

LEMMA LocalTimeout ==
  ASSUME LocalInv, NEW s \in Sides, Timeout(s)
  PROVE  LocalInv'
<1>1. Functions /\ SideInv(s)
  BY DEF LocalInv
<1>2. /\ pc[s] \in {"poll", "pollR", "pollW"}
      /\ pc' = [pc EXCEPT ![s] = "destroy"]
      /\ clean' \in BOOLEAN /\ (clean' => clean)
      /\ UNCHANGED <<phase, rc, handles, tcp, verbs, memory>>
  BY <1>1 DEF Timeout, Polling, Go, Functions
<1>3. Functions'
  BY <1>1, <1>2, CallsAre DEF Functions, prog, handles, tcp, verbs, memory
<1>4. /\ pc'[s] = "destroy" /\ phase'[s] = phase[s] /\ rc'[s] = rc[s] /\ ptr'[s] = ptr[s]
      /\ obj'[s] = obj[s] /\ sock'[s] = sock[s] /\ nread'[s] = nread[s] /\ props'[s] = props[s]
      /\ qp'[s] = qp[s] /\ rr'[s] = rr[s] /\ wr'[s] = wr[s] /\ cq'[s] = cq[s]
      /\ (clean' => clean)
  BY <1>1, <1>2 DEF Functions, prog, handles, tcp, verbs, memory
<1>5. SideInv(s)'
  <2>1. PlaceOf(s)'
    BY <1>1, <1>2, <1>4, SizeIs DEF SideInv, Functions, PlaceOf,
       Creating, Early, Working, Syncing, Linking, Third, Fourth, Fifth, Over
  <2>2. HandlesOf(s)'
    BY <1>1, <1>2, <1>4 DEF SideInv, HandlesOf, PlaceOf, All, Held,
       Creating, Early, Working, Syncing, Linking, Third, Fourth, Fifth, Over
  <2>3. SocketOf(s)'
    BY <1>1, <1>2, <1>4 DEF SideInv, SocketOf, PlaceOf, Gone,
       Creating, Early, Working, Syncing, Linking, Third, Fourth, Fifth, Over
  <2>4. QpOf(s)'
    BY <1>1, <1>2, <1>4 DEF SideInv, QpOf, PlaceOf,
       Creating, Early, Working, Syncing, Linking, Third, Fourth, Fifth, Over
  <2>5. QueueOf(s)'
    BY <1>1, <1>2, <1>4 DEF SideInv, QueueOf, PlaceOf, Waits, Awaits, Polling, Load,
       Creating, Early, Working, Syncing, Linking, Third, Fourth, Fifth, Over
  <2> QED BY <2>1, <2>2, <2>3, <2>4, <2>5 DEF SideInv
<1>6. Untouched(Peer(s))
  BY <1>1, <1>2, Peers DEF Functions, Untouched, prog, handles, tcp, verbs, memory
<1> QED BY <1>1, <1>3, <1>5, <1>6, Peers, UntouchedKeeps DEF LocalInv

LEMMA LocalPollBad ==
  ASSUME LocalInv, NEW s \in Sides, Poll(s), Head(cq[s]) # "ok"
  PROVE  LocalInv'
<1>1. Functions /\ SideInv(s)
  BY DEF LocalInv
<1>2. /\ pc[s] \in {"poll", "pollR", "pollW"}
      /\ pc' = [pc EXCEPT ![s] = "destroy"]
      /\ cq' = [cq EXCEPT ![s] = Tail(@)]
      /\ cq[s] # <<>>
      /\ UNCHANGED <<phase, rc, handles, tcp, props, qp, rr, wr, memory, clean>>
  BY <1>1, Peers DEF Poll, Polling, Go, AfterPoll, SideInv, PlaceOf, Creating, Early, Working,
    Syncing, Linking, Third, Fourth, Fifth, Over
<1>3. Functions'
  <2>1. Tail(cq[s]) = <<>>
    BY <1>1, <1>2, TailIs
  <2> QED BY <1>1, <1>2, <2>1, CallsAre DEF Functions, prog, handles, tcp, verbs, memory
<1>4. /\ pc'[s] = "destroy" /\ phase'[s] = phase[s] /\ rc'[s] = rc[s] /\ ptr'[s] = ptr[s]
      /\ obj'[s] = obj[s] /\ sock'[s] = sock[s] /\ nread'[s] = nread[s] /\ props'[s] = props[s]
      /\ qp'[s] = qp[s] /\ rr'[s] = rr[s] /\ wr'[s] = wr[s] /\ cq'[s] = <<>> /\ clean' = clean
      /\ cq[s] # <<>> /\ rr[s] = 0 /\ wr[s] = "none"
  BY <1>1, <1>2, TailIs, LoadIs DEF Functions, prog, handles, tcp, verbs, memory, SideInv,
    QueueOf, Waits, Polling
<1>5. SideInv(s)'
  <2>1. PlaceOf(s)'
    BY <1>1, <1>2, <1>4, SizeIs DEF SideInv, Functions, PlaceOf,
       Creating, Early, Working, Syncing, Linking, Third, Fourth, Fifth, Over
  <2>2. HandlesOf(s)'
    BY <1>1, <1>2, <1>4 DEF SideInv, HandlesOf, PlaceOf, All, Held,
       Creating, Early, Working, Syncing, Linking, Third, Fourth, Fifth, Over
  <2>3. SocketOf(s)'
    BY <1>1, <1>2, <1>4 DEF SideInv, SocketOf, PlaceOf, Gone,
       Creating, Early, Working, Syncing, Linking, Third, Fourth, Fifth, Over
  <2>4. QpOf(s)'
    BY <1>1, <1>2, <1>4 DEF SideInv, QpOf, PlaceOf,
       Creating, Early, Working, Syncing, Linking, Third, Fourth, Fifth, Over
  <2>5. QueueOf(s)'
    <3>1. /\ Waits(s) /\ ~ Waits(s)' /\ Len(<<>>) = 0
          /\ pc'[s] \notin {"pollR", "pollW"}
      BY <1>1, <1>2, <1>4 DEF SideInv, PlaceOf, Waits, Awaits, Polling, Creating, Early, Working,
        Syncing, Linking, Third, Fourth, Fifth, Over
    <3>2. Load(s)' = 0
      BY <1>4, <3>1 DEF Load
    <3> QED BY <1>1, <1>4, <3>1, <3>2 DEF SideInv, QueueOf, Waits
  <2> QED BY <2>1, <2>2, <2>3, <2>4, <2>5 DEF SideInv
<1>6. Untouched(Peer(s))
  BY <1>1, <1>2, Peers DEF Functions, Untouched, prog, handles, tcp, verbs, memory
<1> QED BY <1>1, <1>3, <1>5, <1>6, Peers, UntouchedKeeps DEF LocalInv

LEMMA LocalPollServer ==
  ASSUME LocalInv, NEW s \in Sides, Poll(s), Head(cq[s]) = "ok", pc[s] = "poll", s = "server"
  PROVE  LocalInv'
<1>1. Functions /\ SideInv(s)
  BY DEF LocalInv
<1>2. /\ pc[s] = "poll" /\ s = "server"
      /\ pc' = [pc EXCEPT ![s] = "fill"]
      /\ cq' = [cq EXCEPT ![s] = Tail(@)]
      /\ cq[s] # <<>>
      /\ UNCHANGED <<phase, rc, handles, tcp, props, qp, rr, wr, memory, clean>>
  BY <1>1, Peers DEF Poll, Polling, Go, AfterPoll, SideInv, PlaceOf, Creating, Early, Working,
    Syncing, Linking, Third, Fourth, Fifth, Over
<1>3. Functions'
  <2>1. Tail(cq[s]) = <<>>
    BY <1>1, <1>2, TailIs
  <2> QED BY <1>1, <1>2, <2>1, CallsAre DEF Functions, prog, handles, tcp, verbs, memory
<1>4. /\ pc'[s] = "fill" /\ phase'[s] = phase[s] /\ rc'[s] = rc[s] /\ ptr'[s] = ptr[s]
      /\ obj'[s] = obj[s] /\ sock'[s] = sock[s] /\ nread'[s] = nread[s] /\ props'[s] = props[s]
      /\ qp'[s] = qp[s] /\ rr'[s] = rr[s] /\ wr'[s] = wr[s] /\ cq'[s] = <<>> /\ clean' = clean
      /\ cq[s] # <<>> /\ rr[s] = 0 /\ wr[s] = "none"
  BY <1>1, <1>2, TailIs, LoadIs DEF Functions, prog, handles, tcp, verbs, memory, SideInv,
    QueueOf, Waits, Polling
<1>5. SideInv(s)'
  <2>1. PlaceOf(s)'
    BY <1>1, <1>2, <1>4, SizeIs DEF SideInv, Functions, PlaceOf,
       Creating, Early, Working, Syncing, Linking, Third, Fourth, Fifth, Over
  <2>2. HandlesOf(s)'
    BY <1>1, <1>2, <1>4 DEF SideInv, HandlesOf, PlaceOf, All, Held,
       Creating, Early, Working, Syncing, Linking, Third, Fourth, Fifth, Over
  <2>3. SocketOf(s)'
    BY <1>1, <1>2, <1>4 DEF SideInv, SocketOf, PlaceOf, Gone,
       Creating, Early, Working, Syncing, Linking, Third, Fourth, Fifth, Over
  <2>4. QpOf(s)'
    BY <1>1, <1>2, <1>4 DEF SideInv, QpOf, PlaceOf,
       Creating, Early, Working, Syncing, Linking, Third, Fourth, Fifth, Over
  <2>5. QueueOf(s)'
    <3>1. /\ Waits(s) /\ ~ Waits(s)' /\ Len(<<>>) = 0
          /\ pc'[s] \notin {"pollR", "pollW"}
      BY <1>1, <1>2, <1>4 DEF SideInv, PlaceOf, Waits, Awaits, Polling, Creating, Early, Working,
        Syncing, Linking, Third, Fourth, Fifth, Over
    <3>2. Load(s)' = 0
      BY <1>4, <3>1 DEF Load
    <3> QED BY <1>1, <1>4, <3>1, <3>2 DEF SideInv, QueueOf, Waits
  <2> QED BY <2>1, <2>2, <2>3, <2>4, <2>5 DEF SideInv
<1>6. Untouched(Peer(s))
  BY <1>1, <1>2, Peers DEF Functions, Untouched, prog, handles, tcp, verbs, memory
<1> QED BY <1>1, <1>3, <1>5, <1>6, Peers, UntouchedKeeps DEF LocalInv

LEMMA LocalPollClient ==
  ASSUME LocalInv, NEW s \in Sides, Poll(s), Head(cq[s]) = "ok", pc[s] = "poll", s = "client"
  PROVE  LocalInv'
<1>1. Functions /\ SideInv(s)
  BY DEF LocalInv
<1>2. /\ pc[s] = "poll" /\ s = "client"
      /\ pc' = [pc EXCEPT ![s] = "show"]
      /\ cq' = [cq EXCEPT ![s] = Tail(@)]
      /\ cq[s] # <<>>
      /\ UNCHANGED <<phase, rc, handles, tcp, props, qp, rr, wr, memory, clean>>
  BY <1>1, Peers DEF Poll, Polling, Go, AfterPoll, SideInv, PlaceOf, Creating, Early, Working,
    Syncing, Linking, Third, Fourth, Fifth, Over
<1>3. Functions'
  <2>1. Tail(cq[s]) = <<>>
    BY <1>1, <1>2, TailIs
  <2> QED BY <1>1, <1>2, <2>1, CallsAre DEF Functions, prog, handles, tcp, verbs, memory
<1>4. /\ pc'[s] = "show" /\ phase'[s] = phase[s] /\ rc'[s] = rc[s] /\ ptr'[s] = ptr[s]
      /\ obj'[s] = obj[s] /\ sock'[s] = sock[s] /\ nread'[s] = nread[s] /\ props'[s] = props[s]
      /\ qp'[s] = qp[s] /\ rr'[s] = rr[s] /\ wr'[s] = wr[s] /\ cq'[s] = <<>> /\ clean' = clean
      /\ cq[s] # <<>> /\ rr[s] = 0 /\ wr[s] = "none"
  BY <1>1, <1>2, TailIs, LoadIs DEF Functions, prog, handles, tcp, verbs, memory, SideInv,
    QueueOf, Waits, Polling
<1>5. SideInv(s)'
  <2>1. PlaceOf(s)'
    BY <1>1, <1>2, <1>4, SizeIs DEF SideInv, Functions, PlaceOf,
       Creating, Early, Working, Syncing, Linking, Third, Fourth, Fifth, Over
  <2>2. HandlesOf(s)'
    BY <1>1, <1>2, <1>4 DEF SideInv, HandlesOf, PlaceOf, All, Held,
       Creating, Early, Working, Syncing, Linking, Third, Fourth, Fifth, Over
  <2>3. SocketOf(s)'
    BY <1>1, <1>2, <1>4 DEF SideInv, SocketOf, PlaceOf, Gone,
       Creating, Early, Working, Syncing, Linking, Third, Fourth, Fifth, Over
  <2>4. QpOf(s)'
    BY <1>1, <1>2, <1>4 DEF SideInv, QpOf, PlaceOf,
       Creating, Early, Working, Syncing, Linking, Third, Fourth, Fifth, Over
  <2>5. QueueOf(s)'
    <3>1. /\ Waits(s) /\ ~ Waits(s)' /\ Len(<<>>) = 0
          /\ pc'[s] \notin {"pollR", "pollW"}
      BY <1>1, <1>2, <1>4 DEF SideInv, PlaceOf, Waits, Awaits, Polling, Creating, Early, Working,
        Syncing, Linking, Third, Fourth, Fifth, Over
    <3>2. Load(s)' = 0
      BY <1>4, <3>1 DEF Load
    <3> QED BY <1>1, <1>4, <3>1, <3>2 DEF SideInv, QueueOf, Waits
  <2> QED BY <2>1, <2>2, <2>3, <2>4, <2>5 DEF SideInv
<1>6. Untouched(Peer(s))
  BY <1>1, <1>2, Peers DEF Functions, Untouched, prog, handles, tcp, verbs, memory
<1> QED BY <1>1, <1>3, <1>5, <1>6, Peers, UntouchedKeeps DEF LocalInv

LEMMA LocalPollRead ==
  ASSUME LocalInv, NEW s \in Sides, Poll(s), Head(cq[s]) = "ok", pc[s] = "pollR"
  PROVE  LocalInv'
<1>1. Functions /\ SideInv(s)
  BY DEF LocalInv
<1>2. /\ pc[s] = "pollR" /\ s = "client"
      /\ pc' = [pc EXCEPT ![s] = "showR"]
      /\ cq' = [cq EXCEPT ![s] = Tail(@)]
      /\ cq[s] # <<>>
      /\ UNCHANGED <<phase, rc, handles, tcp, props, qp, rr, wr, memory, clean>>
  BY <1>1, Peers DEF Poll, Polling, Go, AfterPoll, SideInv, PlaceOf, Creating, Early, Working,
    Syncing, Linking, Third, Fourth, Fifth, Over
<1>3. Functions'
  <2>1. Tail(cq[s]) = <<>>
    BY <1>1, <1>2, TailIs
  <2> QED BY <1>1, <1>2, <2>1, CallsAre DEF Functions, prog, handles, tcp, verbs, memory
<1>4. /\ pc'[s] = "showR" /\ phase'[s] = phase[s] /\ rc'[s] = rc[s] /\ ptr'[s] = ptr[s]
      /\ obj'[s] = obj[s] /\ sock'[s] = sock[s] /\ nread'[s] = nread[s] /\ props'[s] = props[s]
      /\ qp'[s] = qp[s] /\ rr'[s] = rr[s] /\ wr'[s] = wr[s] /\ cq'[s] = <<>> /\ clean' = clean
      /\ cq[s] # <<>> /\ rr[s] = 0 /\ wr[s] = "none"
  BY <1>1, <1>2, TailIs, LoadIs DEF Functions, prog, handles, tcp, verbs, memory, SideInv,
    QueueOf, Waits, Polling
<1>5. SideInv(s)'
  <2>1. PlaceOf(s)'
    BY <1>1, <1>2, <1>4, SizeIs DEF SideInv, Functions, PlaceOf,
       Creating, Early, Working, Syncing, Linking, Third, Fourth, Fifth, Over
  <2>2. HandlesOf(s)'
    BY <1>1, <1>2, <1>4 DEF SideInv, HandlesOf, PlaceOf, All, Held,
       Creating, Early, Working, Syncing, Linking, Third, Fourth, Fifth, Over
  <2>3. SocketOf(s)'
    BY <1>1, <1>2, <1>4 DEF SideInv, SocketOf, PlaceOf, Gone,
       Creating, Early, Working, Syncing, Linking, Third, Fourth, Fifth, Over
  <2>4. QpOf(s)'
    BY <1>1, <1>2, <1>4 DEF SideInv, QpOf, PlaceOf,
       Creating, Early, Working, Syncing, Linking, Third, Fourth, Fifth, Over
  <2>5. QueueOf(s)'
    <3>1. /\ Waits(s) /\ ~ Waits(s)' /\ Len(<<>>) = 0
          /\ pc'[s] \notin {"pollR", "pollW"}
      BY <1>1, <1>2, <1>4 DEF SideInv, PlaceOf, Waits, Awaits, Polling, Creating, Early, Working,
        Syncing, Linking, Third, Fourth, Fifth, Over
    <3>2. Load(s)' = 0
      BY <1>4, <3>1 DEF Load
    <3> QED BY <1>1, <1>4, <3>1, <3>2 DEF SideInv, QueueOf, Waits
  <2> QED BY <2>1, <2>2, <2>3, <2>4, <2>5 DEF SideInv
<1>6. Untouched(Peer(s))
  BY <1>1, <1>2, Peers DEF Functions, Untouched, prog, handles, tcp, verbs, memory
<1> QED BY <1>1, <1>3, <1>5, <1>6, Peers, UntouchedKeeps DEF LocalInv

LEMMA LocalPollWrite ==
  ASSUME LocalInv, NEW s \in Sides, Poll(s), Head(cq[s]) = "ok", pc[s] = "pollW"
  PROVE  LocalInv'
<1>1. Functions /\ SideInv(s)
  BY DEF LocalInv
<1>2. /\ pc[s] = "pollW" /\ s = "client"
      /\ pc' = [pc EXCEPT ![s] = "put"]
      /\ cq' = [cq EXCEPT ![s] = Tail(@)]
      /\ cq[s] # <<>>
      /\ UNCHANGED <<phase, rc, handles, tcp, props, qp, rr, wr, memory, clean>>
  BY <1>1, Peers DEF Poll, Polling, Go, AfterPoll, SideInv, PlaceOf, Creating, Early, Working,
    Syncing, Linking, Third, Fourth, Fifth, Over
<1>3. Functions'
  <2>1. Tail(cq[s]) = <<>>
    BY <1>1, <1>2, TailIs
  <2> QED BY <1>1, <1>2, <2>1, CallsAre DEF Functions, prog, handles, tcp, verbs, memory
<1>4. /\ pc'[s] = "put" /\ phase'[s] = phase[s] /\ rc'[s] = rc[s] /\ ptr'[s] = ptr[s]
      /\ obj'[s] = obj[s] /\ sock'[s] = sock[s] /\ nread'[s] = nread[s] /\ props'[s] = props[s]
      /\ qp'[s] = qp[s] /\ rr'[s] = rr[s] /\ wr'[s] = wr[s] /\ cq'[s] = <<>> /\ clean' = clean
      /\ cq[s] # <<>> /\ rr[s] = 0 /\ wr[s] = "none"
  BY <1>1, <1>2, TailIs, LoadIs DEF Functions, prog, handles, tcp, verbs, memory, SideInv,
    QueueOf, Waits, Polling
<1>5. SideInv(s)'
  <2>1. PlaceOf(s)'
    BY <1>1, <1>2, <1>4, SizeIs DEF SideInv, Functions, PlaceOf,
       Creating, Early, Working, Syncing, Linking, Third, Fourth, Fifth, Over
  <2>2. HandlesOf(s)'
    BY <1>1, <1>2, <1>4 DEF SideInv, HandlesOf, PlaceOf, All, Held,
       Creating, Early, Working, Syncing, Linking, Third, Fourth, Fifth, Over
  <2>3. SocketOf(s)'
    BY <1>1, <1>2, <1>4 DEF SideInv, SocketOf, PlaceOf, Gone,
       Creating, Early, Working, Syncing, Linking, Third, Fourth, Fifth, Over
  <2>4. QpOf(s)'
    BY <1>1, <1>2, <1>4 DEF SideInv, QpOf, PlaceOf,
       Creating, Early, Working, Syncing, Linking, Third, Fourth, Fifth, Over
  <2>5. QueueOf(s)'
    <3>1. /\ Waits(s) /\ ~ Waits(s)' /\ Len(<<>>) = 0
          /\ pc'[s] \notin {"pollR", "pollW"}
      BY <1>1, <1>2, <1>4 DEF SideInv, PlaceOf, Waits, Awaits, Polling, Creating, Early, Working,
        Syncing, Linking, Third, Fourth, Fifth, Over
    <3>2. Load(s)' = 0
      BY <1>4, <3>1 DEF Load
    <3> QED BY <1>1, <1>4, <3>1, <3>2 DEF SideInv, QueueOf, Waits
  <2> QED BY <2>1, <2>2, <2>3, <2>4, <2>5 DEF SideInv
<1>6. Untouched(Peer(s))
  BY <1>1, <1>2, Peers DEF Functions, Untouched, prog, handles, tcp, verbs, memory
<1> QED BY <1>1, <1>3, <1>5, <1>6, Peers, UntouchedKeeps DEF LocalInv

LEMMA LocalGetShort ==
  ASSUME LocalInv, NEW s \in Sides, Get(s), phase' = phase
  PROVE  LocalInv'
<1>1. Functions /\ SideInv(s)
  BY DEF LocalInv
<1>2. /\ pc[s] = "get"
      /\ chan' \in [Sides -> Nat]
      /\ \E n \in Nat : nread[s] + n < Size(phase[s]) /\ nread' = [nread EXCEPT ![s] = @ + n]
      /\ clean' = FALSE
      /\ UNCHANGED <<prog, handles, sock, props, qp, rr, wr, cq, memory>>
  <2>1. PICK n \in Nat : GetWith(s, n)
    BY <1>1, GetIs
  <2>2. nread[s] + n < Size(phase[s])
    BY <1>1, <2>1 DEF GetWith, Synced, Functions
  <2>3. chan' \in [Sides -> Nat]
    BY <1>1, <2>1 DEF GetWith, Functions
  <2> QED BY <2>1, <2>2, <2>3 DEF GetWith
<1>3. Functions'
  <2>1. nread' \in [Sides -> Nat]
    BY <1>1, <1>2 DEF Functions
  <2> QED BY <1>1, <1>2, <2>1, CallsAre DEF Functions, prog, handles, tcp, verbs, memory
<1>4. /\ pc'[s] = pc[s] /\ phase'[s] = phase[s] /\ rc'[s] = rc[s] /\ ptr'[s] = ptr[s]
      /\ obj'[s] = obj[s] /\ sock'[s] = sock[s]
      /\ nread'[s] \in Nat /\ nread'[s] < Size(phase[s]) /\ props'[s] = props[s]
      /\ qp'[s] = qp[s] /\ rr'[s] = rr[s] /\ wr'[s] = wr[s] /\ cq'[s] = cq[s] /\ clean' = FALSE
  BY <1>1, <1>2 DEF Functions, prog, handles, tcp, verbs, memory
<1>5. SideInv(s)'
  <2>1. PlaceOf(s)'
    BY <1>1, <1>2, <1>4, SizeIs DEF SideInv, Functions, PlaceOf,
       Creating, Early, Working, Syncing, Linking, Third, Fourth, Fifth, Over
  <2>2. HandlesOf(s)'
    BY <1>1, <1>2, <1>4 DEF SideInv, HandlesOf, PlaceOf, All, Held,
       Creating, Early, Working, Syncing, Linking, Third, Fourth, Fifth, Over
  <2>3. SocketOf(s)'
    BY <1>1, <1>2, <1>4 DEF SideInv, SocketOf, PlaceOf, Gone,
       Creating, Early, Working, Syncing, Linking, Third, Fourth, Fifth, Over
  <2>4. QpOf(s)'
    BY <1>1, <1>2, <1>4 DEF SideInv, QpOf, PlaceOf,
       Creating, Early, Working, Syncing, Linking, Third, Fourth, Fifth, Over
  <2>5. QueueOf(s)'
    BY <1>1, <1>2, <1>4 DEF SideInv, QueueOf, PlaceOf, Waits, Awaits, Polling, Load,
       Creating, Early, Working, Syncing, Linking, Third, Fourth, Fifth, Over
  <2> QED BY <2>1, <2>2, <2>3, <2>4, <2>5 DEF SideInv
<1>6. Untouched(Peer(s))
  BY <1>1, <1>2, Peers DEF Functions, Untouched, prog, handles, tcp, verbs, memory
<1> QED BY <1>1, <1>3, <1>5, <1>6, Peers, UntouchedKeeps DEF LocalInv

LEMMA LocalGetOne ==
  ASSUME LocalInv, NEW s \in Sides, Get(s), phase' # phase, phase[s] = 1
  PROVE  LocalInv'
<1>1. Functions /\ SideInv(s)
  BY DEF LocalInv
<1>2. /\ pc[s] = "get" /\ phase[s] = 1
      /\ pc' = [pc EXCEPT ![s] = After(s, phase[s])] /\ After(s, phase[s]) = "init"
      /\ phase' = [phase EXCEPT ![s] = phase[s] + 1]
      /\ nread' = [nread EXCEPT ![s] = 0]
      /\ chan' \in [Sides -> Nat]
      /\ rc' = IF phase[s] = 4 /\ s = "client" THEN [rc EXCEPT ![s] = 0] ELSE rc
      /\ IF phase[s] = 1 THEN \/ props' = [props EXCEPT ![s] = "peer"]
                              \/ props' = [props EXCEPT ![s] = "junk"]
         ELSE props' = props
      /\ UNCHANGED <<handles, sock, qp, rr, wr, cq, memory, clean>>
  <2>1. PICK n \in Nat : GetWith(s, n)
    BY <1>1, GetIs
  <2>2. ~ (nread[s] + n < Size(phase[s]))
    BY <2>1 DEF GetWith, prog
  <2> DEFINE full == n = Size(phase[s]) /\ nread[s] = 0 /\ props[Peer(s)] # "unread"
  <2>3. Synced(s, full)
    BY <2>1, <2>2 DEF GetWith
  <2> HIDE DEF full
  <2>4. /\ pc' = [pc EXCEPT ![s] = After(s, phase[s])] /\ phase' = [phase EXCEPT ![s] = phase[s] + 1]
        /\ nread' = [nread EXCEPT ![s] = 0]
        /\ IF phase[s] = 1 THEN \/ props' = [props EXCEPT ![s] = "peer"]
                               \/ props' = [props EXCEPT ![s] = "junk"]
           ELSE props' = props
        /\ rc' = IF phase[s] = 4 /\ s = "client" THEN [rc EXCEPT ![s] = 0] ELSE rc
    BY <2>3 DEF Synced, Go
  <2>5. After(s, phase[s]) = "init"
    BY DEF After
  <2>6. chan' \in [Sides -> Nat] /\ pc[s] = "get"
    BY <1>1, <2>1 DEF GetWith, Functions
  <2>7. UNCHANGED <<handles, sock, qp, rr, wr, cq, memory, clean>>
    BY <2>1, <2>2 DEF GetWith
  <2> QED BY <2>4, <2>5, <2>6, <2>7
<1>3. Functions'
  <2>1. nread' \in [Sides -> Nat]
    BY <1>1, <1>2 DEF Functions
  <2>2. props' \in [Sides -> {"none", "peer", "junk", "unread"}]
    BY <1>1, <1>2 DEF Functions
  <2>3. rc' = rc
    BY <1>2
  <2> QED BY <1>1, <1>2, <2>1, <2>2, <2>3, CallsAre DEF Functions, prog, handles, tcp, verbs, memory
<1>4. /\ pc'[s] = "init" /\ phase'[s] = 2 /\ rc'[s] = rc[s] /\ ptr'[s] = ptr[s]
      /\ obj'[s] = obj[s] /\ sock'[s] = sock[s] /\ nread'[s] = 0
      /\ props'[s] \in {"peer", "junk"} /\ qp'[s] = qp[s] /\ rr'[s] = rr[s] /\ wr'[s] = wr[s]
      /\ cq'[s] = cq[s] /\ clean' = clean
  BY <1>1, <1>2 DEF Functions, prog, handles, tcp, verbs, memory
<1>5. SideInv(s)'
  <2>1. PlaceOf(s)'
    <3>1. Size(2) = 1 /\ (s = "server" \/ s = "client")
      BY SizeIs, Peers
    <3>2. nread'[s] < Size(phase[s])'
      BY <1>4, <3>1
    <3> QED BY <1>1, <1>2, <1>4, <3>1, <3>2 DEF SideInv, PlaceOf,
       Creating, Early, Working, Syncing, Linking, Third, Fourth, Fifth, Over
  <2>2. HandlesOf(s)'
    BY <1>1, <1>2, <1>4 DEF SideInv, HandlesOf, PlaceOf, All, Held,
       Creating, Early, Working, Syncing, Linking, Third, Fourth, Fifth, Over
  <2>3. SocketOf(s)'
    BY <1>1, <1>2, <1>4 DEF SideInv, SocketOf, PlaceOf, Gone,
       Creating, Early, Working, Syncing, Linking, Third, Fourth, Fifth, Over
  <2>4. QpOf(s)'
    BY <1>1, <1>2, <1>4 DEF SideInv, QpOf, PlaceOf,
       Creating, Early, Working, Syncing, Linking, Third, Fourth, Fifth, Over
  <2>5. QueueOf(s)'
    BY <1>1, <1>2, <1>4 DEF SideInv, QueueOf, PlaceOf, Waits, Awaits, Polling, Load,
       Creating, Early, Working, Syncing, Linking, Third, Fourth, Fifth, Over
  <2> QED BY <2>1, <2>2, <2>3, <2>4, <2>5 DEF SideInv
<1>6. Untouched(Peer(s))
  BY <1>1, <1>2, Peers DEF Functions, Untouched, prog, handles, tcp, verbs, memory
<1> QED BY <1>1, <1>3, <1>5, <1>6, Peers, UntouchedKeeps DEF LocalInv

LEMMA LocalGetTwoServer ==
  ASSUME LocalInv, NEW s \in Sides, Get(s), phase' # phase, phase[s] = 2, s = "server"
  PROVE  LocalInv'
<1>1. Functions /\ SideInv(s)
  BY DEF LocalInv
<1>2. /\ pc[s] = "get" /\ phase[s] = 2 /\ s = "server"
      /\ pc' = [pc EXCEPT ![s] = After(s, phase[s])] /\ After(s, phase[s]) = "send"
      /\ phase' = [phase EXCEPT ![s] = phase[s] + 1]
      /\ nread' = [nread EXCEPT ![s] = 0]
      /\ chan' \in [Sides -> Nat]
      /\ rc' = IF phase[s] = 4 /\ s = "client" THEN [rc EXCEPT ![s] = 0] ELSE rc
      /\ IF phase[s] = 1 THEN \/ props' = [props EXCEPT ![s] = "peer"]
                              \/ props' = [props EXCEPT ![s] = "junk"]
         ELSE props' = props
      /\ UNCHANGED <<handles, sock, qp, rr, wr, cq, memory, clean>>
  <2>1. PICK n \in Nat : GetWith(s, n)
    BY <1>1, GetIs
  <2>2. ~ (nread[s] + n < Size(phase[s]))
    BY <2>1 DEF GetWith, prog
  <2> DEFINE full == n = Size(phase[s]) /\ nread[s] = 0 /\ props[Peer(s)] # "unread"
  <2>3. Synced(s, full)
    BY <2>1, <2>2 DEF GetWith
  <2> HIDE DEF full
  <2>4. /\ pc' = [pc EXCEPT ![s] = After(s, phase[s])] /\ phase' = [phase EXCEPT ![s] = phase[s] + 1]
        /\ nread' = [nread EXCEPT ![s] = 0]
        /\ IF phase[s] = 1 THEN \/ props' = [props EXCEPT ![s] = "peer"]
                               \/ props' = [props EXCEPT ![s] = "junk"]
           ELSE props' = props
        /\ rc' = IF phase[s] = 4 /\ s = "client" THEN [rc EXCEPT ![s] = 0] ELSE rc
    BY <2>3 DEF Synced, Go
  <2>5. After(s, phase[s]) = "send"
    BY DEF After
  <2>6. chan' \in [Sides -> Nat] /\ pc[s] = "get"
    BY <1>1, <2>1 DEF GetWith, Functions
  <2>7. UNCHANGED <<handles, sock, qp, rr, wr, cq, memory, clean>>
    BY <2>1, <2>2 DEF GetWith
  <2> QED BY <2>4, <2>5, <2>6, <2>7
<1>3. Functions'
  <2>1. nread' \in [Sides -> Nat]
    BY <1>1, <1>2 DEF Functions
  <2> QED BY <1>1, <1>2, <2>1, CallsAre DEF Functions, prog, handles, tcp, verbs, memory
<1>4. /\ pc'[s] = "send" /\ phase'[s] = 3 /\ rc'[s] = rc[s] /\ ptr'[s] = ptr[s]
      /\ obj'[s] = obj[s] /\ sock'[s] = sock[s] /\ nread'[s] = 0 /\ props'[s] = props[s]
      /\ qp'[s] = qp[s] /\ rr'[s] = rr[s] /\ wr'[s] = wr[s] /\ cq'[s] = cq[s] /\ clean' = clean
  BY <1>1, <1>2 DEF Functions, prog, handles, tcp, verbs, memory
<1>5. SideInv(s)'
  <2>1. PlaceOf(s)'
    <3>1. Size(3) = 1 /\ (s = "server" \/ s = "client")
      BY SizeIs, Peers
    <3>2. nread'[s] < Size(phase[s])'
      BY <1>4, <3>1
    <3> QED BY <1>1, <1>2, <1>4, <3>1, <3>2 DEF SideInv, PlaceOf,
       Creating, Early, Working, Syncing, Linking, Third, Fourth, Fifth, Over
  <2>2. HandlesOf(s)'
    BY <1>1, <1>2, <1>4 DEF SideInv, HandlesOf, PlaceOf, All, Held,
       Creating, Early, Working, Syncing, Linking, Third, Fourth, Fifth, Over
  <2>3. SocketOf(s)'
    BY <1>1, <1>2, <1>4 DEF SideInv, SocketOf, PlaceOf, Gone,
       Creating, Early, Working, Syncing, Linking, Third, Fourth, Fifth, Over
  <2>4. QpOf(s)'
    BY <1>1, <1>2, <1>4 DEF SideInv, QpOf, PlaceOf,
       Creating, Early, Working, Syncing, Linking, Third, Fourth, Fifth, Over
  <2>5. QueueOf(s)'
    BY <1>1, <1>2, <1>4 DEF SideInv, QueueOf, PlaceOf, Waits, Awaits, Polling, Load,
       Creating, Early, Working, Syncing, Linking, Third, Fourth, Fifth, Over
  <2> QED BY <2>1, <2>2, <2>3, <2>4, <2>5 DEF SideInv
<1>6. Untouched(Peer(s))
  BY <1>1, <1>2, Peers DEF Functions, Untouched, prog, handles, tcp, verbs, memory
<1> QED BY <1>1, <1>3, <1>5, <1>6, Peers, UntouchedKeeps DEF LocalInv

LEMMA LocalGetTwoClient ==
  ASSUME LocalInv, NEW s \in Sides, Get(s), phase' # phase, phase[s] = 2, s = "client"
  PROVE  LocalInv'
<1>1. Functions /\ SideInv(s)
  BY DEF LocalInv
<1>2. /\ pc[s] = "get" /\ phase[s] = 2 /\ s = "client"
      /\ pc' = [pc EXCEPT ![s] = After(s, phase[s])] /\ After(s, phase[s]) = "poll"
      /\ phase' = [phase EXCEPT ![s] = phase[s] + 1]
      /\ nread' = [nread EXCEPT ![s] = 0]
      /\ chan' \in [Sides -> Nat]
      /\ rc' = IF phase[s] = 4 /\ s = "client" THEN [rc EXCEPT ![s] = 0] ELSE rc
      /\ IF phase[s] = 1 THEN \/ props' = [props EXCEPT ![s] = "peer"]
                              \/ props' = [props EXCEPT ![s] = "junk"]
         ELSE props' = props
      /\ UNCHANGED <<handles, sock, qp, rr, wr, cq, memory, clean>>
  <2>1. PICK n \in Nat : GetWith(s, n)
    BY <1>1, GetIs
  <2>2. ~ (nread[s] + n < Size(phase[s]))
    BY <2>1 DEF GetWith, prog
  <2> DEFINE full == n = Size(phase[s]) /\ nread[s] = 0 /\ props[Peer(s)] # "unread"
  <2>3. Synced(s, full)
    BY <2>1, <2>2 DEF GetWith
  <2> HIDE DEF full
  <2>4. /\ pc' = [pc EXCEPT ![s] = After(s, phase[s])] /\ phase' = [phase EXCEPT ![s] = phase[s] + 1]
        /\ nread' = [nread EXCEPT ![s] = 0]
        /\ IF phase[s] = 1 THEN \/ props' = [props EXCEPT ![s] = "peer"]
                               \/ props' = [props EXCEPT ![s] = "junk"]
           ELSE props' = props
        /\ rc' = IF phase[s] = 4 /\ s = "client" THEN [rc EXCEPT ![s] = 0] ELSE rc
    BY <2>3 DEF Synced, Go
  <2>5. After(s, phase[s]) = "poll"
    BY DEF After
  <2>6. chan' \in [Sides -> Nat] /\ pc[s] = "get"
    BY <1>1, <2>1 DEF GetWith, Functions
  <2>7. UNCHANGED <<handles, sock, qp, rr, wr, cq, memory, clean>>
    BY <2>1, <2>2 DEF GetWith
  <2> QED BY <2>4, <2>5, <2>6, <2>7
<1>3. Functions'
  <2>1. nread' \in [Sides -> Nat]
    BY <1>1, <1>2 DEF Functions
  <2> QED BY <1>1, <1>2, <2>1, CallsAre DEF Functions, prog, handles, tcp, verbs, memory
<1>4. /\ pc'[s] = "poll" /\ phase'[s] = 3 /\ rc'[s] = rc[s] /\ ptr'[s] = ptr[s]
      /\ obj'[s] = obj[s] /\ sock'[s] = sock[s] /\ nread'[s] = 0 /\ props'[s] = props[s]
      /\ qp'[s] = qp[s] /\ rr'[s] = rr[s] /\ wr'[s] = wr[s] /\ cq'[s] = cq[s] /\ clean' = clean
  BY <1>1, <1>2 DEF Functions, prog, handles, tcp, verbs, memory
<1>5. SideInv(s)'
  <2>1. PlaceOf(s)'
    <3>1. Size(3) = 1 /\ (s = "server" \/ s = "client")
      BY SizeIs, Peers
    <3>2. nread'[s] < Size(phase[s])'
      BY <1>4, <3>1
    <3> QED BY <1>1, <1>2, <1>4, <3>1, <3>2 DEF SideInv, PlaceOf,
       Creating, Early, Working, Syncing, Linking, Third, Fourth, Fifth, Over
  <2>2. HandlesOf(s)'
    BY <1>1, <1>2, <1>4 DEF SideInv, HandlesOf, PlaceOf, All, Held,
       Creating, Early, Working, Syncing, Linking, Third, Fourth, Fifth, Over
  <2>3. SocketOf(s)'
    BY <1>1, <1>2, <1>4 DEF SideInv, SocketOf, PlaceOf, Gone,
       Creating, Early, Working, Syncing, Linking, Third, Fourth, Fifth, Over
  <2>4. QpOf(s)'
    BY <1>1, <1>2, <1>4 DEF SideInv, QpOf, PlaceOf,
       Creating, Early, Working, Syncing, Linking, Third, Fourth, Fifth, Over
  <2>5. QueueOf(s)'
    BY <1>1, <1>2, <1>4 DEF SideInv, QueueOf, PlaceOf, Waits, Awaits, Polling, Load,
       Creating, Early, Working, Syncing, Linking, Third, Fourth, Fifth, Over
  <2> QED BY <2>1, <2>2, <2>3, <2>4, <2>5 DEF SideInv
<1>6. Untouched(Peer(s))
  BY <1>1, <1>2, Peers DEF Functions, Untouched, prog, handles, tcp, verbs, memory
<1> QED BY <1>1, <1>3, <1>5, <1>6, Peers, UntouchedKeeps DEF LocalInv

LEMMA LocalGetThreeServer ==
  ASSUME LocalInv, NEW s \in Sides, Get(s), phase' # phase, phase[s] = 3, s = "server"
  PROVE  LocalInv'
<1>1. Functions /\ SideInv(s)
  BY DEF LocalInv
<1>2. /\ pc[s] = "get" /\ phase[s] = 3 /\ s = "server"
      /\ pc' = [pc EXCEPT ![s] = After(s, phase[s])] /\ After(s, phase[s]) = "put"
      /\ phase' = [phase EXCEPT ![s] = phase[s] + 1]
      /\ nread' = [nread EXCEPT ![s] = 0]
      /\ chan' \in [Sides -> Nat]
      /\ rc' = IF phase[s] = 4 /\ s = "client" THEN [rc EXCEPT ![s] = 0] ELSE rc
      /\ IF phase[s] = 1 THEN \/ props' = [props EXCEPT ![s] = "peer"]
                              \/ props' = [props EXCEPT ![s] = "junk"]
         ELSE props' = props
      /\ UNCHANGED <<handles, sock, qp, rr, wr, cq, memory, clean>>
  <2>1. PICK n \in Nat : GetWith(s, n)
    BY <1>1, GetIs
  <2>2. ~ (nread[s] + n < Size(phase[s]))
    BY <2>1 DEF GetWith, prog
  <2> DEFINE full == n = Size(phase[s]) /\ nread[s] = 0 /\ props[Peer(s)] # "unread"
  <2>3. Synced(s, full)
    BY <2>1, <2>2 DEF GetWith
  <2> HIDE DEF full
  <2>4. /\ pc' = [pc EXCEPT ![s] = After(s, phase[s])] /\ phase' = [phase EXCEPT ![s] = phase[s] + 1]
        /\ nread' = [nread EXCEPT ![s] = 0]
        /\ IF phase[s] = 1 THEN \/ props' = [props EXCEPT ![s] = "peer"]
                               \/ props' = [props EXCEPT ![s] = "junk"]
           ELSE props' = props
        /\ rc' = IF phase[s] = 4 /\ s = "client" THEN [rc EXCEPT ![s] = 0] ELSE rc
    BY <2>3 DEF Synced, Go
  <2>5. After(s, phase[s]) = "put"
    BY DEF After
  <2>6. chan' \in [Sides -> Nat] /\ pc[s] = "get"
    BY <1>1, <2>1 DEF GetWith, Functions
  <2>7. UNCHANGED <<handles, sock, qp, rr, wr, cq, memory, clean>>
    BY <2>1, <2>2 DEF GetWith
  <2> QED BY <2>4, <2>5, <2>6, <2>7
<1>3. Functions'
  <2>1. nread' \in [Sides -> Nat]
    BY <1>1, <1>2 DEF Functions
  <2> QED BY <1>1, <1>2, <2>1, CallsAre DEF Functions, prog, handles, tcp, verbs, memory
<1>4. /\ pc'[s] = "put" /\ phase'[s] = 4 /\ rc'[s] = rc[s] /\ ptr'[s] = ptr[s]
      /\ obj'[s] = obj[s] /\ sock'[s] = sock[s] /\ nread'[s] = 0 /\ props'[s] = props[s]
      /\ qp'[s] = qp[s] /\ rr'[s] = rr[s] /\ wr'[s] = wr[s] /\ cq'[s] = cq[s] /\ clean' = clean
  BY <1>1, <1>2 DEF Functions, prog, handles, tcp, verbs, memory
<1>5. SideInv(s)'
  <2>1. PlaceOf(s)'
    <3>1. Size(4) = 1 /\ (s = "server" \/ s = "client")
      BY SizeIs, Peers
    <3>2. nread'[s] < Size(phase[s])'
      BY <1>4, <3>1
    <3> QED BY <1>1, <1>2, <1>4, <3>1, <3>2 DEF SideInv, PlaceOf,
       Creating, Early, Working, Syncing, Linking, Third, Fourth, Fifth, Over
  <2>2. HandlesOf(s)'
    BY <1>1, <1>2, <1>4 DEF SideInv, HandlesOf, PlaceOf, All, Held,
       Creating, Early, Working, Syncing, Linking, Third, Fourth, Fifth, Over
  <2>3. SocketOf(s)'
    BY <1>1, <1>2, <1>4 DEF SideInv, SocketOf, PlaceOf, Gone,
       Creating, Early, Working, Syncing, Linking, Third, Fourth, Fifth, Over
  <2>4. QpOf(s)'
    BY <1>1, <1>2, <1>4 DEF SideInv, QpOf, PlaceOf,
       Creating, Early, Working, Syncing, Linking, Third, Fourth, Fifth, Over
  <2>5. QueueOf(s)'
    BY <1>1, <1>2, <1>4 DEF SideInv, QueueOf, PlaceOf, Waits, Awaits, Polling, Load,
       Creating, Early, Working, Syncing, Linking, Third, Fourth, Fifth, Over
  <2> QED BY <2>1, <2>2, <2>3, <2>4, <2>5 DEF SideInv
<1>6. Untouched(Peer(s))
  BY <1>1, <1>2, Peers DEF Functions, Untouched, prog, handles, tcp, verbs, memory
<1> QED BY <1>1, <1>3, <1>5, <1>6, Peers, UntouchedKeeps DEF LocalInv

LEMMA LocalGetThreeClient ==
  ASSUME LocalInv, NEW s \in Sides, Get(s), phase' # phase, phase[s] = 3, s = "client"
  PROVE  LocalInv'
<1>1. Functions /\ SideInv(s)
  BY DEF LocalInv
<1>2. /\ pc[s] = "get" /\ phase[s] = 3 /\ s = "client"
      /\ pc' = [pc EXCEPT ![s] = After(s, phase[s])] /\ After(s, phase[s]) = "read"
      /\ phase' = [phase EXCEPT ![s] = phase[s] + 1]
      /\ nread' = [nread EXCEPT ![s] = 0]
      /\ chan' \in [Sides -> Nat]
      /\ rc' = IF phase[s] = 4 /\ s = "client" THEN [rc EXCEPT ![s] = 0] ELSE rc
      /\ IF phase[s] = 1 THEN \/ props' = [props EXCEPT ![s] = "peer"]
                              \/ props' = [props EXCEPT ![s] = "junk"]
         ELSE props' = props
      /\ UNCHANGED <<handles, sock, qp, rr, wr, cq, memory, clean>>
  <2>1. PICK n \in Nat : GetWith(s, n)
    BY <1>1, GetIs
  <2>2. ~ (nread[s] + n < Size(phase[s]))
    BY <2>1 DEF GetWith, prog
  <2> DEFINE full == n = Size(phase[s]) /\ nread[s] = 0 /\ props[Peer(s)] # "unread"
  <2>3. Synced(s, full)
    BY <2>1, <2>2 DEF GetWith
  <2> HIDE DEF full
  <2>4. /\ pc' = [pc EXCEPT ![s] = After(s, phase[s])] /\ phase' = [phase EXCEPT ![s] = phase[s] + 1]
        /\ nread' = [nread EXCEPT ![s] = 0]
        /\ IF phase[s] = 1 THEN \/ props' = [props EXCEPT ![s] = "peer"]
                               \/ props' = [props EXCEPT ![s] = "junk"]
           ELSE props' = props
        /\ rc' = IF phase[s] = 4 /\ s = "client" THEN [rc EXCEPT ![s] = 0] ELSE rc
    BY <2>3 DEF Synced, Go
  <2>5. After(s, phase[s]) = "read"
    BY DEF After
  <2>6. chan' \in [Sides -> Nat] /\ pc[s] = "get"
    BY <1>1, <2>1 DEF GetWith, Functions
  <2>7. UNCHANGED <<handles, sock, qp, rr, wr, cq, memory, clean>>
    BY <2>1, <2>2 DEF GetWith
  <2> QED BY <2>4, <2>5, <2>6, <2>7
<1>3. Functions'
  <2>1. nread' \in [Sides -> Nat]
    BY <1>1, <1>2 DEF Functions
  <2> QED BY <1>1, <1>2, <2>1, CallsAre DEF Functions, prog, handles, tcp, verbs, memory
<1>4. /\ pc'[s] = "read" /\ phase'[s] = 4 /\ rc'[s] = rc[s] /\ ptr'[s] = ptr[s]
      /\ obj'[s] = obj[s] /\ sock'[s] = sock[s] /\ nread'[s] = 0 /\ props'[s] = props[s]
      /\ qp'[s] = qp[s] /\ rr'[s] = rr[s] /\ wr'[s] = wr[s] /\ cq'[s] = cq[s] /\ clean' = clean
  BY <1>1, <1>2 DEF Functions, prog, handles, tcp, verbs, memory
<1>5. SideInv(s)'
  <2>1. PlaceOf(s)'
    <3>1. Size(4) = 1 /\ (s = "server" \/ s = "client")
      BY SizeIs, Peers
    <3>2. nread'[s] < Size(phase[s])'
      BY <1>4, <3>1
    <3> QED BY <1>1, <1>2, <1>4, <3>1, <3>2 DEF SideInv, PlaceOf,
       Creating, Early, Working, Syncing, Linking, Third, Fourth, Fifth, Over
  <2>2. HandlesOf(s)'
    BY <1>1, <1>2, <1>4 DEF SideInv, HandlesOf, PlaceOf, All, Held,
       Creating, Early, Working, Syncing, Linking, Third, Fourth, Fifth, Over
  <2>3. SocketOf(s)'
    BY <1>1, <1>2, <1>4 DEF SideInv, SocketOf, PlaceOf, Gone,
       Creating, Early, Working, Syncing, Linking, Third, Fourth, Fifth, Over
  <2>4. QpOf(s)'
    BY <1>1, <1>2, <1>4 DEF SideInv, QpOf, PlaceOf,
       Creating, Early, Working, Syncing, Linking, Third, Fourth, Fifth, Over
  <2>5. QueueOf(s)'
    BY <1>1, <1>2, <1>4 DEF SideInv, QueueOf, PlaceOf, Waits, Awaits, Polling, Load,
       Creating, Early, Working, Syncing, Linking, Third, Fourth, Fifth, Over
  <2> QED BY <2>1, <2>2, <2>3, <2>4, <2>5 DEF SideInv
<1>6. Untouched(Peer(s))
  BY <1>1, <1>2, Peers DEF Functions, Untouched, prog, handles, tcp, verbs, memory
<1> QED BY <1>1, <1>3, <1>5, <1>6, Peers, UntouchedKeeps DEF LocalInv

LEMMA LocalGetFourServer ==
  ASSUME LocalInv, NEW s \in Sides, Get(s), phase' # phase, phase[s] = 4, s = "server"
  PROVE  LocalInv'
<1>1. Functions /\ SideInv(s)
  BY DEF LocalInv
<1>2. /\ pc[s] = "get" /\ phase[s] = 4 /\ s = "server"
      /\ pc' = [pc EXCEPT ![s] = After(s, phase[s])] /\ After(s, phase[s]) = "show"
      /\ phase' = [phase EXCEPT ![s] = phase[s] + 1]
      /\ nread' = [nread EXCEPT ![s] = 0]
      /\ chan' \in [Sides -> Nat]
      /\ rc' = IF phase[s] = 4 /\ s = "client" THEN [rc EXCEPT ![s] = 0] ELSE rc
      /\ IF phase[s] = 1 THEN \/ props' = [props EXCEPT ![s] = "peer"]
                              \/ props' = [props EXCEPT ![s] = "junk"]
         ELSE props' = props
      /\ UNCHANGED <<handles, sock, qp, rr, wr, cq, memory, clean>>
  <2>1. PICK n \in Nat : GetWith(s, n)
    BY <1>1, GetIs
  <2>2. ~ (nread[s] + n < Size(phase[s]))
    BY <2>1 DEF GetWith, prog
  <2> DEFINE full == n = Size(phase[s]) /\ nread[s] = 0 /\ props[Peer(s)] # "unread"
  <2>3. Synced(s, full)
    BY <2>1, <2>2 DEF GetWith
  <2> HIDE DEF full
  <2>4. /\ pc' = [pc EXCEPT ![s] = After(s, phase[s])] /\ phase' = [phase EXCEPT ![s] = phase[s] + 1]
        /\ nread' = [nread EXCEPT ![s] = 0]
        /\ IF phase[s] = 1 THEN \/ props' = [props EXCEPT ![s] = "peer"]
                               \/ props' = [props EXCEPT ![s] = "junk"]
           ELSE props' = props
        /\ rc' = IF phase[s] = 4 /\ s = "client" THEN [rc EXCEPT ![s] = 0] ELSE rc
    BY <2>3 DEF Synced, Go
  <2>5. After(s, phase[s]) = "show"
    BY DEF After
  <2>6. chan' \in [Sides -> Nat] /\ pc[s] = "get"
    BY <1>1, <2>1 DEF GetWith, Functions
  <2>7. UNCHANGED <<handles, sock, qp, rr, wr, cq, memory, clean>>
    BY <2>1, <2>2 DEF GetWith
  <2> QED BY <2>4, <2>5, <2>6, <2>7
<1>3. Functions'
  <2>1. nread' \in [Sides -> Nat]
    BY <1>1, <1>2 DEF Functions
  <2> QED BY <1>1, <1>2, <2>1, CallsAre DEF Functions, prog, handles, tcp, verbs, memory
<1>4. /\ pc'[s] = "show" /\ phase'[s] = 5 /\ rc'[s] = rc[s] /\ ptr'[s] = ptr[s]
      /\ obj'[s] = obj[s] /\ sock'[s] = sock[s] /\ nread'[s] = 0 /\ props'[s] = props[s]
      /\ qp'[s] = qp[s] /\ rr'[s] = rr[s] /\ wr'[s] = wr[s] /\ cq'[s] = cq[s] /\ clean' = clean
  BY <1>1, <1>2 DEF Functions, prog, handles, tcp, verbs, memory
<1>5. SideInv(s)'
  <2>1. PlaceOf(s)'
    <3>1. Size(5) = 1 /\ (s = "server" \/ s = "client")
      BY SizeIs, Peers
    <3>2. nread'[s] < Size(phase[s])'
      BY <1>4, <3>1
    <3> QED BY <1>1, <1>2, <1>4, <3>1, <3>2 DEF SideInv, PlaceOf,
       Creating, Early, Working, Syncing, Linking, Third, Fourth, Fifth, Over
  <2>2. HandlesOf(s)'
    BY <1>1, <1>2, <1>4 DEF SideInv, HandlesOf, PlaceOf, All, Held,
       Creating, Early, Working, Syncing, Linking, Third, Fourth, Fifth, Over
  <2>3. SocketOf(s)'
    BY <1>1, <1>2, <1>4 DEF SideInv, SocketOf, PlaceOf, Gone,
       Creating, Early, Working, Syncing, Linking, Third, Fourth, Fifth, Over
  <2>4. QpOf(s)'
    BY <1>1, <1>2, <1>4 DEF SideInv, QpOf, PlaceOf,
       Creating, Early, Working, Syncing, Linking, Third, Fourth, Fifth, Over
  <2>5. QueueOf(s)'
    BY <1>1, <1>2, <1>4 DEF SideInv, QueueOf, PlaceOf, Waits, Awaits, Polling, Load,
       Creating, Early, Working, Syncing, Linking, Third, Fourth, Fifth, Over
  <2> QED BY <2>1, <2>2, <2>3, <2>4, <2>5 DEF SideInv
<1>6. Untouched(Peer(s))
  BY <1>1, <1>2, Peers DEF Functions, Untouched, prog, handles, tcp, verbs, memory
<1> QED BY <1>1, <1>3, <1>5, <1>6, Peers, UntouchedKeeps DEF LocalInv

LEMMA LocalGetFourClient ==
  ASSUME LocalInv, NEW s \in Sides, Get(s), phase' # phase, phase[s] = 4, s = "client"
  PROVE  LocalInv'
<1>1. Functions /\ SideInv(s)
  BY DEF LocalInv
<1>2. /\ pc[s] = "get" /\ phase[s] = 4 /\ s = "client"
      /\ pc' = [pc EXCEPT ![s] = After(s, phase[s])] /\ After(s, phase[s]) = "destroy"
      /\ phase' = [phase EXCEPT ![s] = phase[s] + 1]
      /\ nread' = [nread EXCEPT ![s] = 0]
      /\ chan' \in [Sides -> Nat]
      /\ rc' = IF phase[s] = 4 /\ s = "client" THEN [rc EXCEPT ![s] = 0] ELSE rc
      /\ IF phase[s] = 1 THEN \/ props' = [props EXCEPT ![s] = "peer"]
                              \/ props' = [props EXCEPT ![s] = "junk"]
         ELSE props' = props
      /\ UNCHANGED <<handles, sock, qp, rr, wr, cq, memory, clean>>
  <2>1. PICK n \in Nat : GetWith(s, n)
    BY <1>1, GetIs
  <2>2. ~ (nread[s] + n < Size(phase[s]))
    BY <2>1 DEF GetWith, prog
  <2> DEFINE full == n = Size(phase[s]) /\ nread[s] = 0 /\ props[Peer(s)] # "unread"
  <2>3. Synced(s, full)
    BY <2>1, <2>2 DEF GetWith
  <2> HIDE DEF full
  <2>4. /\ pc' = [pc EXCEPT ![s] = After(s, phase[s])] /\ phase' = [phase EXCEPT ![s] = phase[s] + 1]
        /\ nread' = [nread EXCEPT ![s] = 0]
        /\ IF phase[s] = 1 THEN \/ props' = [props EXCEPT ![s] = "peer"]
                               \/ props' = [props EXCEPT ![s] = "junk"]
           ELSE props' = props
        /\ rc' = IF phase[s] = 4 /\ s = "client" THEN [rc EXCEPT ![s] = 0] ELSE rc
    BY <2>3 DEF Synced, Go
  <2>5. After(s, phase[s]) = "destroy"
    BY DEF After
  <2>6. chan' \in [Sides -> Nat] /\ pc[s] = "get"
    BY <1>1, <2>1 DEF GetWith, Functions
  <2>7. UNCHANGED <<handles, sock, qp, rr, wr, cq, memory, clean>>
    BY <2>1, <2>2 DEF GetWith
  <2> QED BY <2>4, <2>5, <2>6, <2>7
<1>3. Functions'
  <2>1. nread' \in [Sides -> Nat]
    BY <1>1, <1>2 DEF Functions
  <2> QED BY <1>1, <1>2, <2>1, CallsAre DEF Functions, prog, handles, tcp, verbs, memory
<1>4. /\ pc'[s] = "destroy" /\ phase'[s] = 5 /\ rc'[s] = 0 /\ ptr'[s] = ptr[s]
      /\ obj'[s] = obj[s] /\ sock'[s] = sock[s] /\ nread'[s] = 0 /\ props'[s] = props[s]
      /\ qp'[s] = qp[s] /\ rr'[s] = rr[s] /\ wr'[s] = wr[s] /\ cq'[s] = cq[s] /\ clean' = clean
  BY <1>1, <1>2 DEF Functions, prog, handles, tcp, verbs, memory
<1>5. SideInv(s)'
  <2>1. PlaceOf(s)'
    <3>1. Size(5) = 1 /\ (s = "server" \/ s = "client")
      BY SizeIs, Peers
    <3>2. nread'[s] < Size(phase[s])'
      BY <1>4, <3>1
    <3> QED BY <1>1, <1>2, <1>4, <3>1, <3>2 DEF SideInv, PlaceOf,
       Creating, Early, Working, Syncing, Linking, Third, Fourth, Fifth, Over
  <2>2. HandlesOf(s)'
    <3>1. ptr[s] = All /\ obj[s] = All
      BY <1>1, <1>2 DEF SideInv, HandlesOf, Creating, Early, Working, Syncing, Linking, Third,
        Fourth, Fifth, Over
    <3> QED BY <1>1, <1>2, <1>4, <3>1 DEF SideInv, HandlesOf, PlaceOf, All, Held,
       Creating, Early, Working, Syncing, Linking, Third, Fourth, Fifth, Over
  <2>3. SocketOf(s)'
    BY <1>1, <1>2, <1>4 DEF SideInv, SocketOf, PlaceOf, Gone,
       Creating, Early, Working, Syncing, Linking, Third, Fourth, Fifth, Over
  <2>4. QpOf(s)'
    BY <1>1, <1>2, <1>4 DEF SideInv, QpOf, PlaceOf,
       Creating, Early, Working, Syncing, Linking, Third, Fourth, Fifth, Over
  <2>5. QueueOf(s)'
    BY <1>1, <1>2, <1>4 DEF SideInv, QueueOf, PlaceOf, Waits, Awaits, Polling, Load,
       Creating, Early, Working, Syncing, Linking, Third, Fourth, Fifth, Over
  <2> QED BY <2>1, <2>2, <2>3, <2>4, <2>5 DEF SideInv
<1>6. Untouched(Peer(s))
  BY <1>1, <1>2, Peers DEF Functions, Untouched, prog, handles, tcp, verbs, memory
<1> QED BY <1>1, <1>3, <1>5, <1>6, Peers, UntouchedKeeps DEF LocalInv

LEMMA LocalRelease ==
  ASSUME LocalInv, NEW s \in Sides, Release(s)
  PROVE  LocalInv'
<1>1. Functions /\ SideInv(s)
  BY DEF LocalInv
<1>2. /\ pc[s] = "destroy" /\ ptr[s] # {}
      /\ ptr' = [ptr EXCEPT ![s] = @ \ {First(s)}]
      /\ \/ obj' = [obj EXCEPT ![s] = @ \ {First(s)}] /\ rc' = rc /\ clean' = clean
         \/ obj' = obj /\ rc' = [rc EXCEPT ![s] = 1] /\ clean' = (clean /\ ~ Free(s, First(s)))
      /\ cq' = cq \/ cq' = [cq EXCEPT ![s] = <<>>]
      /\ rr' = rr \/ rr' = [rr EXCEPT ![s] = 0]
      /\ qp' = qp \/ qp' = [qp EXCEPT ![s] = "none"]
      /\ UNCHANGED <<pc, phase, tcp, props, wr, memory>>
  BY DEF Release
<1>3. Functions'
  <2>1. ptr[s] \ {First(s)} \in SUBSET Handle /\ obj[s] \ {First(s)} \in SUBSET Handle
    BY <1>1 DEF Functions
  <2>2. /\ ptr' \in [Sides -> SUBSET Handle] /\ obj' \in [Sides -> SUBSET Handle]
        /\ rc' \in [Sides -> {0, 1}] /\ clean' \in BOOLEAN
    <3>1. ptr' \in [Sides -> SUBSET Handle]
      BY <1>1, <1>2, <2>1 DEF Functions
    <3>2. obj' \in [Sides -> SUBSET Handle]
      <4>1. obj \in [Sides -> SUBSET Handle]
        BY <1>1 DEF Functions
      <4>2. CASE obj' = obj
        BY <4>1, <4>2
      <4>3. CASE obj' = [obj EXCEPT ![s] = @ \ {First(s)}]
        BY <2>1, <4>1, <4>3
      <4> QED BY <1>2, <4>2, <4>3
    <3>3. rc' \in [Sides -> {0, 1}]
      BY <1>1, <1>2 DEF Functions
    <3>4. clean' \in BOOLEAN
      BY <1>1, <1>2 DEF Functions
    <3> QED BY <3>1, <3>2, <3>3, <3>4
  <2>3. /\ cq' \in [Sides -> {<<>>, <<"ok">>, <<"bad">>}] /\ rr' \in [Sides -> {0, 1}]
        /\ qp' \in [Sides -> {"none", "RESET", "INIT", "RTR", "RTS"}]
    BY <1>1, <1>2 DEF Functions
  <2> QED BY <1>1, <1>2, <2>2, <2>3 DEF Functions, prog, handles, tcp, verbs, memory
<1>4. /\ pc'[s] = pc[s] /\ phase'[s] = phase[s] /\ ptr'[s] = ptr[s] \ {First(s)}
      /\ \/ obj'[s] = obj[s] \ {First(s)} /\ rc'[s] = rc[s] /\ clean' = clean
         \/ obj'[s] = obj[s] /\ rc'[s] = 1 /\ clean' = (clean /\ ~ Free(s, First(s)))
      /\ sock'[s] = sock[s] /\ nread'[s] = nread[s] /\ props'[s] = props[s]
      /\ qp'[s] \in {qp[s], "none"} /\ rr'[s] \in {rr[s], 0} /\ wr'[s] = wr[s]
      /\ cq'[s] \in {cq[s], <<>>}
  BY <1>1, <1>2 DEF Functions, prog, handles, tcp, verbs, memory
<1>5. SideInv(s)'
  <2>1. PlaceOf(s)'
    <3>1. (rc'[s] = 0 => rc[s] = 0) /\ Size(phase[s])' = Size(phase[s])
      BY <1>4
    <3>2. /\ pc'[s] \in Over /\ pc'[s] \notin Early /\ pc'[s] \notin Working(s) /\ pc[s] \in Over
          /\ pc'[s] # "rr"
      BY <1>2, <1>4 DEF Creating, Early, Working, Syncing, Linking, Third, Fourth, Fifth, Over
    <3> QED BY <1>1, <1>4, <3>1, <3>2 DEF SideInv, PlaceOf, Working
  <2>2. HandlesOf(s)'
    <3>1. ptr[s] \subseteq obj[s] /\ ptr[s] \subseteq All
      BY <1>1, <1>2 DEF SideInv, HandlesOf, Creating, Early, Working, Syncing, Linking, Third,
        Fourth, Fifth, Over
    <3>2. /\ First(s) \in ptr[s] /\ (First(s) = "buf" => "mr" \notin ptr[s])
          /\ (obj[s] = ptr[s] => Free(s, First(s)))
      BY <1>2, <3>1, FirstIs
    <3>3. (clean' \/ rc'[s] = 0) => obj'[s] = ptr'[s]
      <4>1. CASE obj'[s] = obj[s] \ {First(s)} /\ rc'[s] = rc[s] /\ clean' = clean
        BY <1>1, <1>4, <4>1 DEF SideInv, HandlesOf
      <4>2. CASE rc'[s] = 1 /\ clean' = (clean /\ ~ Free(s, First(s)))
        <5>1. rc'[s] # 0
          BY <4>2
        <5>2. ~ clean'
          BY <1>1, <3>2, <4>2 DEF SideInv, HandlesOf
        <5> QED BY <5>1, <5>2
      <4> QED BY <1>4, <4>1, <4>2
    <3>4. /\ pc'[s] \notin {"start", "accept", "ended", "killed"} /\ pc'[s] \notin Creating
          /\ pc'[s] \notin Working(s)
      BY <1>2, <1>4 DEF Creating, Early, Working, Syncing, Linking, Third, Fourth, Fifth, Over
    <3>5. "mr" \in ptr'[s] => "buf" \in ptr'[s]
      BY <1>1, <1>4, <3>2 DEF SideInv, HandlesOf
    <3>6. ptr'[s] \subseteq obj'[s] /\ ptr'[s] \subseteq All
      BY <1>4, <3>1
    <3> QED BY <3>3, <3>4, <3>5, <3>6 DEF HandlesOf
  <2>3. SocketOf(s)'
    BY <1>1, <1>2, <1>4 DEF SideInv, SocketOf, PlaceOf, Gone,
       Creating, Early, Working, Syncing, Linking, Third, Fourth, Fifth, Over
  <2>4. QpOf(s)'
    BY <1>1, <1>2, <1>4 DEF SideInv, QpOf, PlaceOf,
       Creating, Early, Working, Syncing, Linking, Third, Fourth, Fifth, Over
  <2>5. QueueOf(s)'
    <3>1. pc'[s] \notin Early \cup Working(s) /\ ~ Waits(s)'
      BY <1>2, <1>4 DEF Waits, Awaits, Polling, Creating, Early, Working, Syncing, Linking, Third,
        Fourth, Fifth, Over
    <3>2. Load(s)' <= Load(s)
      <4>1. Len(cq'[s]) <= Len(cq[s]) /\ rr'[s] <= rr[s] /\ Len(cq'[s]) \in Nat
        BY <1>1, <1>4, LoadIs
      <4>2. Len(cq[s]) \in Nat /\ rr[s] \in Nat /\ rr'[s] \in Nat
        BY <1>1, <1>4, LoadIs
      <4>3. wr'[s] = wr[s]
        BY <1>4
      <4> QED BY <4>1, <4>2, <4>3 DEF Load
    <3>3. Load(s) \in Nat /\ Load(s)' \in Nat
      <4>1. Len(cq'[s]) \in Nat /\ rr'[s] \in Nat
        BY <1>1, <1>4, LoadIs
      <4> QED BY <1>1, <4>1, LoadIs DEF Load
    <3> QED BY <1>1, <1>2, <1>4, <3>1, <3>2, <3>3 DEF SideInv, QueueOf, Waits, Polling
  <2> QED BY <2>1, <2>2, <2>3, <2>4, <2>5 DEF SideInv
<1>6. Untouched(Peer(s))
  BY <1>1, <1>2, Peers DEF Functions, Untouched, prog, handles, tcp, verbs, memory
<1> QED BY <1>1, <1>3, <1>5, <1>6, Peers, UntouchedKeeps DEF LocalInv

LEMMA LocalEnd ==
  ASSUME LocalInv, NEW s \in Sides, End(s)
  PROVE  LocalInv'
<1>1. Functions /\ SideInv(s)
  BY DEF LocalInv
<1>2. /\ pc[s] = "destroy" /\ ptr[s] = {}
      /\ pc' = [pc EXCEPT ![s] = "ended"]
      /\ IF sock[s] = "open"
         THEN /\ sock' = [sock EXCEPT ![s] = "closed"] \/ sock' = [sock EXCEPT ![s] = "reset"]
              /\ nread' = nread /\ chan' = [chan EXCEPT ![s] = 0]
         ELSE UNCHANGED tcp
      /\ \/ UNCHANGED <<rc, clean>>
         \/ rc' = [rc EXCEPT ![s] = 1] /\ clean' = FALSE
      /\ UNCHANGED <<phase, handles, verbs, memory>>
  BY DEF End, Close, Go
<1>3. Functions'
  <2>1. /\ sock' \in [Sides -> {"none", "open", "closed", "reset"}] /\ nread' \in [Sides -> Nat]
        /\ chan' \in [Sides -> Nat]
    <3>1. CASE sock[s] = "open"
      <4>1. sock' = [sock EXCEPT ![s] = "closed"] \/ sock' = [sock EXCEPT ![s] = "reset"]
        BY <1>2, <3>1
      <4>2. nread' = nread /\ chan' = [chan EXCEPT ![s] = 0]
        BY <1>2, <3>1
      <4>3. sock' \in [Sides -> {"none", "open", "closed", "reset"}]
        BY <1>1, <4>1 DEF Functions
      <4> QED BY <1>1, <4>2, <4>3 DEF Functions
    <3>2. CASE sock[s] # "open"
      BY <1>1, <1>2, <3>2 DEF Functions, tcp
    <3> QED BY <3>1, <3>2
  <2>2. rc' \in [Sides -> {0, 1}] /\ clean' \in BOOLEAN /\ pc' \in [Sides -> Calls]
    BY <1>1, <1>2, CallsAre DEF Functions
  <2> QED BY <1>1, <1>2, <2>1, <2>2 DEF Functions, handles, verbs, memory
<1>4. /\ pc'[s] = "ended" /\ phase'[s] = phase[s]
      /\ \/ rc'[s] = rc[s] /\ clean' = clean
         \/ rc'[s] = 1 /\ clean' = FALSE
      /\ ptr'[s] = ptr[s] /\ obj'[s] = obj[s]
      /\ IF sock[s] = "open" THEN sock'[s] \in {"closed", "reset"} ELSE sock'[s] = sock[s]
      /\ nread'[s] = nread[s] /\ props'[s] = props[s] /\ qp'[s] = qp[s] /\ rr'[s] = rr[s]
      /\ wr'[s] = wr[s] /\ cq'[s] = cq[s]
  BY <1>1, <1>2 DEF Functions, prog, handles, tcp, verbs, memory
<1>5. SideInv(s)'
  <2>1. PlaceOf(s)'
    <3>1. (rc'[s] = 0 => rc[s] = 0) /\ Size(phase[s])' = Size(phase[s])
      BY <1>4
    <3>2. /\ pc'[s] \in Over /\ pc'[s] \notin Early /\ pc'[s] \notin Working(s) /\ pc[s] \in Over
          /\ pc'[s] # "rr"
      BY <1>2, <1>4 DEF Creating, Early, Working, Syncing, Linking, Third, Fourth, Fifth, Over
    <3> QED BY <1>1, <1>4, <3>1, <3>2 DEF SideInv, PlaceOf, Working
  <2>2. HandlesOf(s)'
    BY <1>1, <1>2, <1>4 DEF SideInv, HandlesOf, PlaceOf, All, Held,
       Creating, Early, Working, Syncing, Linking, Third, Fourth, Fifth, Over
  <2>3. SocketOf(s)'
    BY <1>1, <1>2, <1>4 DEF SideInv, SocketOf, PlaceOf, Gone,
       Creating, Early, Working, Syncing, Linking, Third, Fourth, Fifth, Over
  <2>4. QpOf(s)'
    BY <1>1, <1>2, <1>4 DEF SideInv, QpOf, PlaceOf,
       Creating, Early, Working, Syncing, Linking, Third, Fourth, Fifth, Over
  <2>5. QueueOf(s)'
    BY <1>1, <1>2, <1>4 DEF SideInv, QueueOf, PlaceOf, Waits, Awaits, Polling, Load,
       Creating, Early, Working, Syncing, Linking, Third, Fourth, Fifth, Over
  <2> QED BY <2>1, <2>2, <2>3, <2>4, <2>5 DEF SideInv
<1>6. Untouched(Peer(s))
  BY <1>1, <1>2, Peers DEF Functions, Untouched, prog, handles, tcp, verbs, memory
<1> QED BY <1>1, <1>3, <1>5, <1>6, Peers, UntouchedKeeps DEF LocalInv

LEMMA LocalAcknowledge ==
  ASSUME LocalInv, NEW s \in Sides, Acknowledge(s)
  PROVE  LocalInv'
<1>1. Functions /\ SideInv(s)
  BY DEF LocalInv
<1>2. /\ wr[s] # "none"
      /\ wr' = [wr EXCEPT ![s] = "none"]
      /\ buf' = buf
      /\ cq' = [cq EXCEPT ![s] = IF Able(s) THEN <<"ok">> ELSE <<>>]
      /\ cq[s] = <<>> /\ rr[s] = 0
      /\ clean' \in BOOLEAN /\ (clean' => clean)
      /\ UNCHANGED <<prog, handles, tcp, props, qp, rr, seen>>
  <2>1. /\ wr[s] # "none" /\ cq' = Complete(s, "ok")
        /\ Append(<<>>, "ok") = <<"ok">>
    BY AppendIs DEF Acknowledge, memory
  <2>2. cq[s] = <<>> /\ rr[s] = 0
    BY <1>1, <2>1, LoadIs DEF SideInv, QueueOf
  <2>3. cq' = [cq EXCEPT ![s] = IF Able(s) THEN <<"ok">> ELSE <<>>]
    BY <1>1, <2>1, <2>2 DEF Complete, Functions
  <2> QED BY <1>1, <2>1, <2>2, <2>3 DEF Acknowledge, memory, Functions
<1>3. Functions'
  <2>2. cq' \in [Sides -> {<<>>, <<"ok">>, <<"bad">>}]
    BY <1>1, <1>2 DEF Functions
  <2>3. buf' \in [Sides -> Texts]
    BY <1>1, <1>2, Peers DEF Functions
  <2> QED BY <1>1, <1>2, <2>2, <2>3 DEF Functions, prog, handles, tcp, verbs, memory
<1>4. /\ pc'[s] = pc[s] /\ phase'[s] = phase[s] /\ rc'[s] = rc[s] /\ ptr'[s] = ptr[s]
      /\ obj'[s] = obj[s] /\ sock'[s] = sock[s] /\ nread'[s] = nread[s] /\ props'[s] = props[s]
      /\ qp'[s] = qp[s] /\ rr'[s] = rr[s] /\ wr'[s] = "none"
      /\ cq[s] = <<>> /\ rr[s] = 0 /\ cq'[s] = IF Able(s) THEN <<"ok">> ELSE <<>>
      /\ (clean' => clean)
  BY <1>1, <1>2 DEF Functions, prog, handles, tcp, verbs, memory
<1>5. SideInv(s)'
  <2>1. PlaceOf(s)'
    BY <1>1, <1>2, <1>4, SizeIs DEF SideInv, Functions, PlaceOf,
       Creating, Early, Working, Syncing, Linking, Third, Fourth, Fifth, Over
  <2>2. HandlesOf(s)'
    BY <1>1, <1>2, <1>4 DEF SideInv, HandlesOf, PlaceOf, All, Held,
       Creating, Early, Working, Syncing, Linking, Third, Fourth, Fifth, Over
  <2>3. SocketOf(s)'
    BY <1>1, <1>2, <1>4 DEF SideInv, SocketOf, PlaceOf, Gone,
       Creating, Early, Working, Syncing, Linking, Third, Fourth, Fifth, Over
  <2>4. QpOf(s)'
    BY <1>1, <1>2, <1>4 DEF SideInv, QpOf, PlaceOf,
       Creating, Early, Working, Syncing, Linking, Third, Fourth, Fifth, Over
  <2>5. QueueOf(s)'
    <3>1. pc[s] \in Working(s) => Able(s)
      BY <1>1 DEF SideInv, HandlesOf, Able, All
    <3>2. Waits(s)' <=> Waits(s)
      BY <1>4 DEF Waits, Awaits, Polling
    <3>3. Waits(s) => pc[s] \in Working(s)
      BY <1>1 DEF SideInv, PlaceOf, Waits, Awaits, Polling, Creating, Early, Working, Syncing,
        Linking, Third, Fourth, Fifth, Over
    <3>4. ~ Awaits(s) /\ (Awaits(s)' <=> Awaits(s))
      BY <1>1, <1>2, <1>4 DEF SideInv, QueueOf, Awaits
    <3>5. Len(<<>>) = 0 /\ Len(<<"ok">>) = 1
      OBVIOUS
    <3>6. Load(s)' = IF Able(s) THEN 1 ELSE 0
      BY <1>4, <3>5 DEF Load
    <3>7. Load(s) = 1
      BY <1>1, <1>2, <1>4, <3>5, LoadIs DEF Load
    <3>8. pc[s] \in Early \cup Working(s) => Waits(s)
      BY <1>1, <3>7 DEF SideInv, QueueOf
    <3> QED BY <1>1, <1>2, <1>4, <3>1, <3>2, <3>3, <3>4, <3>6, <3>8 DEF SideInv, QueueOf
  <2> QED BY <2>1, <2>2, <2>3, <2>4, <2>5 DEF SideInv
<1>6. Untouched(Peer(s))
  BY <1>1, <1>2, Peers DEF Functions, Untouched, Complete, prog, handles, tcp, verbs, memory
<1> QED BY <1>1, <1>3, <1>5, <1>6, Peers, UntouchedKeeps DEF LocalInv

LEMMA LocalBreak ==
  ASSUME LocalInv, NEW s \in Sides, Break(s)
  PROVE  LocalInv'
<1>1. Functions /\ SideInv(s)
  BY DEF LocalInv
<1>2. /\ wr[s] # "none"
      /\ wr' = [wr EXCEPT ![s] = "none"]
      /\ buf' = buf
      /\ cq' = [cq EXCEPT ![s] = IF Able(s) THEN <<"bad">> ELSE <<>>]
      /\ cq[s] = <<>> /\ rr[s] = 0
      /\ clean' \in BOOLEAN /\ (clean' => clean)
      /\ UNCHANGED <<prog, handles, tcp, props, qp, rr, seen>>
  <2>1. /\ wr[s] # "none" /\ cq' = Complete(s, "bad")
        /\ Append(<<>>, "bad") = <<"bad">>
    BY AppendIs DEF Break, memory
  <2>2. cq[s] = <<>> /\ rr[s] = 0
    BY <1>1, <2>1, LoadIs DEF SideInv, QueueOf
  <2>3. cq' = [cq EXCEPT ![s] = IF Able(s) THEN <<"bad">> ELSE <<>>]
    BY <1>1, <2>1, <2>2 DEF Complete, Functions
  <2> QED BY <1>1, <2>1, <2>2, <2>3 DEF Break, memory, Functions
<1>3. Functions'
  <2>2. cq' \in [Sides -> {<<>>, <<"ok">>, <<"bad">>}]
    BY <1>1, <1>2 DEF Functions
  <2>3. buf' \in [Sides -> Texts]
    BY <1>1, <1>2, Peers DEF Functions
  <2> QED BY <1>1, <1>2, <2>2, <2>3 DEF Functions, prog, handles, tcp, verbs, memory
<1>4. /\ pc'[s] = pc[s] /\ phase'[s] = phase[s] /\ rc'[s] = rc[s] /\ ptr'[s] = ptr[s]
      /\ obj'[s] = obj[s] /\ sock'[s] = sock[s] /\ nread'[s] = nread[s] /\ props'[s] = props[s]
      /\ qp'[s] = qp[s] /\ rr'[s] = rr[s] /\ wr'[s] = "none"
      /\ cq[s] = <<>> /\ rr[s] = 0 /\ cq'[s] = IF Able(s) THEN <<"bad">> ELSE <<>>
      /\ (clean' => clean)
  BY <1>1, <1>2 DEF Functions, prog, handles, tcp, verbs, memory
<1>5. SideInv(s)'
  <2>1. PlaceOf(s)'
    BY <1>1, <1>2, <1>4, SizeIs DEF SideInv, Functions, PlaceOf,
       Creating, Early, Working, Syncing, Linking, Third, Fourth, Fifth, Over
  <2>2. HandlesOf(s)'
    BY <1>1, <1>2, <1>4 DEF SideInv, HandlesOf, PlaceOf, All, Held,
       Creating, Early, Working, Syncing, Linking, Third, Fourth, Fifth, Over
  <2>3. SocketOf(s)'
    BY <1>1, <1>2, <1>4 DEF SideInv, SocketOf, PlaceOf, Gone,
       Creating, Early, Working, Syncing, Linking, Third, Fourth, Fifth, Over
  <2>4. QpOf(s)'
    BY <1>1, <1>2, <1>4 DEF SideInv, QpOf, PlaceOf,
       Creating, Early, Working, Syncing, Linking, Third, Fourth, Fifth, Over
  <2>5. QueueOf(s)'
    <3>1. pc[s] \in Working(s) => Able(s)
      BY <1>1 DEF SideInv, HandlesOf, Able, All
    <3>2. Waits(s)' <=> Waits(s)
      BY <1>4 DEF Waits, Awaits, Polling
    <3>3. Waits(s) => pc[s] \in Working(s)
      BY <1>1 DEF SideInv, PlaceOf, Waits, Awaits, Polling, Creating, Early, Working, Syncing,
        Linking, Third, Fourth, Fifth, Over
    <3>4. ~ Awaits(s) /\ (Awaits(s)' <=> Awaits(s))
      BY <1>1, <1>2, <1>4 DEF SideInv, QueueOf, Awaits
    <3>5. Len(<<>>) = 0 /\ Len(<<"bad">>) = 1
      OBVIOUS
    <3>6. Load(s)' = IF Able(s) THEN 1 ELSE 0
      BY <1>4, <3>5 DEF Load
    <3>7. Load(s) = 1
      BY <1>1, <1>2, <1>4, <3>5, LoadIs DEF Load
    <3>8. pc[s] \in Early \cup Working(s) => Waits(s)
      BY <1>1, <3>7 DEF SideInv, QueueOf
    <3> QED BY <1>1, <1>2, <1>4, <3>1, <3>2, <3>3, <3>4, <3>6, <3>8 DEF SideInv, QueueOf
  <2> QED BY <2>1, <2>2, <2>3, <2>4, <2>5 DEF SideInv
<1>6. Untouched(Peer(s))
  BY <1>1, <1>2, Peers DEF Functions, Untouched, Complete, prog, handles, tcp, verbs, memory
<1> QED BY <1>1, <1>3, <1>5, <1>6, Peers, UntouchedKeeps DEF LocalInv

LEMMA LocalDeliverRead ==
  ASSUME LocalInv, NEW s \in Sides, Deliver(s), wr[s] = "READ"
  PROVE  LocalInv'
<1>1. Functions /\ SideInv(s)
  BY DEF LocalInv
<1>2. /\ wr[s] # "none"
      /\ wr' = [wr EXCEPT ![s] = "none"]
      /\ buf' = [buf EXCEPT ![s] = buf[Peer(s)]]
      /\ cq' = [cq EXCEPT ![s] = IF Able(s) THEN <<"ok">> ELSE <<>>]
      /\ cq[s] = <<>> /\ rr[s] = 0
      /\ clean' \in BOOLEAN /\ (clean' => clean)
      /\ UNCHANGED <<prog, handles, tcp, props, qp, rr, seen>>
  <2>1. /\ wr[s] # "none" /\ cq' = Complete(s, "ok")
        /\ Append(<<>>, "ok") = <<"ok">>
    BY AppendIs DEF Deliver, memory
  <2>2. cq[s] = <<>> /\ rr[s] = 0
    BY <1>1, <2>1, LoadIs DEF SideInv, QueueOf
  <2>3. cq' = [cq EXCEPT ![s] = IF Able(s) THEN <<"ok">> ELSE <<>>]
    BY <1>1, <2>1, <2>2 DEF Complete, Functions
  <2> QED BY <1>1, <2>1, <2>2, <2>3 DEF Deliver, memory, Functions
<1>3. Functions'
  <2>2. cq' \in [Sides -> {<<>>, <<"ok">>, <<"bad">>}]
    BY <1>1, <1>2 DEF Functions
  <2>3. buf' \in [Sides -> Texts]
    BY <1>1, <1>2, Peers DEF Functions
  <2> QED BY <1>1, <1>2, <2>2, <2>3 DEF Functions, prog, handles, tcp, verbs, memory
<1>4. /\ pc'[s] = pc[s] /\ phase'[s] = phase[s] /\ rc'[s] = rc[s] /\ ptr'[s] = ptr[s]
      /\ obj'[s] = obj[s] /\ sock'[s] = sock[s] /\ nread'[s] = nread[s] /\ props'[s] = props[s]
      /\ qp'[s] = qp[s] /\ rr'[s] = rr[s] /\ wr'[s] = "none"
      /\ cq[s] = <<>> /\ rr[s] = 0 /\ cq'[s] = IF Able(s) THEN <<"ok">> ELSE <<>>
      /\ (clean' => clean)
  BY <1>1, <1>2 DEF Functions, prog, handles, tcp, verbs, memory
<1>5. SideInv(s)'
  <2>1. PlaceOf(s)'
    BY <1>1, <1>2, <1>4, SizeIs DEF SideInv, Functions, PlaceOf,
       Creating, Early, Working, Syncing, Linking, Third, Fourth, Fifth, Over
  <2>2. HandlesOf(s)'
    BY <1>1, <1>2, <1>4 DEF SideInv, HandlesOf, PlaceOf, All, Held,
       Creating, Early, Working, Syncing, Linking, Third, Fourth, Fifth, Over
  <2>3. SocketOf(s)'
    BY <1>1, <1>2, <1>4 DEF SideInv, SocketOf, PlaceOf, Gone,
       Creating, Early, Working, Syncing, Linking, Third, Fourth, Fifth, Over
  <2>4. QpOf(s)'
    BY <1>1, <1>2, <1>4 DEF SideInv, QpOf, PlaceOf,
       Creating, Early, Working, Syncing, Linking, Third, Fourth, Fifth, Over
  <2>5. QueueOf(s)'
    <3>1. pc[s] \in Working(s) => Able(s)
      BY <1>1 DEF SideInv, HandlesOf, Able, All
    <3>2. Waits(s)' <=> Waits(s)
      BY <1>4 DEF Waits, Awaits, Polling
    <3>3. Waits(s) => pc[s] \in Working(s)
      BY <1>1 DEF SideInv, PlaceOf, Waits, Awaits, Polling, Creating, Early, Working, Syncing,
        Linking, Third, Fourth, Fifth, Over
    <3>4. ~ Awaits(s) /\ (Awaits(s)' <=> Awaits(s))
      BY <1>1, <1>2, <1>4 DEF SideInv, QueueOf, Awaits
    <3>5. Len(<<>>) = 0 /\ Len(<<"ok">>) = 1
      OBVIOUS
    <3>6. Load(s)' = IF Able(s) THEN 1 ELSE 0
      BY <1>4, <3>5 DEF Load
    <3>7. Load(s) = 1
      BY <1>1, <1>2, <1>4, <3>5, LoadIs DEF Load
    <3>8. pc[s] \in Early \cup Working(s) => Waits(s)
      BY <1>1, <3>7 DEF SideInv, QueueOf
    <3> QED BY <1>1, <1>2, <1>4, <3>1, <3>2, <3>3, <3>4, <3>6, <3>8 DEF SideInv, QueueOf
  <2> QED BY <2>1, <2>2, <2>3, <2>4, <2>5 DEF SideInv
<1>6. Untouched(Peer(s))
  BY <1>1, <1>2, Peers DEF Functions, Untouched, Complete, prog, handles, tcp, verbs, memory
<1> QED BY <1>1, <1>3, <1>5, <1>6, Peers, UntouchedKeeps DEF LocalInv

LEMMA LocalDeliverWrite ==
  ASSUME LocalInv, NEW s \in Sides, Deliver(s), wr[s] = "WRITE"
  PROVE  LocalInv'
<1>1. Functions /\ SideInv(s)
  BY DEF LocalInv
<1>2. /\ wr[s] = "WRITE"
      /\ wr' = [wr EXCEPT ![s] = "landed"]
      /\ buf' = [buf EXCEPT ![Peer(s)] = buf[s]]
      /\ UNCHANGED <<prog, handles, tcp, props, qp, rr, cq, seen, clean>>
  BY DEF Deliver, memory
<1>3. Functions'
  <2>1. buf' \in [Sides -> Texts]
    BY <1>1, <1>2, Peers DEF Functions
  <2> QED BY <1>1, <1>2, <2>1 DEF Functions, prog, handles, tcp, verbs, memory
<1>4. /\ pc'[s] = pc[s] /\ phase'[s] = phase[s] /\ rc'[s] = rc[s] /\ ptr'[s] = ptr[s]
      /\ obj'[s] = obj[s] /\ sock'[s] = sock[s] /\ nread'[s] = nread[s] /\ props'[s] = props[s]
      /\ qp'[s] = qp[s] /\ rr'[s] = rr[s] /\ wr'[s] = "landed" /\ cq'[s] = cq[s]
      /\ clean' = clean
  BY <1>1, <1>2 DEF Functions, prog, handles, tcp, verbs, memory
<1>5. SideInv(s)'
  <2>1. PlaceOf(s)'
    BY <1>1, <1>2, <1>4, SizeIs DEF SideInv, Functions, PlaceOf,
       Creating, Early, Working, Syncing, Linking, Third, Fourth, Fifth, Over
  <2>2. HandlesOf(s)'
    BY <1>1, <1>2, <1>4 DEF SideInv, HandlesOf, PlaceOf, All, Held,
       Creating, Early, Working, Syncing, Linking, Third, Fourth, Fifth, Over
  <2>3. SocketOf(s)'
    BY <1>1, <1>2, <1>4 DEF SideInv, SocketOf, PlaceOf, Gone,
       Creating, Early, Working, Syncing, Linking, Third, Fourth, Fifth, Over
  <2>4. QpOf(s)'
    BY <1>1, <1>2, <1>4 DEF SideInv, QpOf, PlaceOf,
       Creating, Early, Working, Syncing, Linking, Third, Fourth, Fifth, Over
  <2>5. QueueOf(s)'
    BY <1>1, <1>2, <1>4 DEF SideInv, QueueOf, PlaceOf, Waits, Awaits, Polling, Load,
       Creating, Early, Working, Syncing, Linking, Third, Fourth, Fifth, Over
  <2> QED BY <2>1, <2>2, <2>3, <2>4, <2>5 DEF SideInv
<1>6. Untouched(Peer(s))
  BY <1>1, <1>2, Peers DEF Functions, Untouched, prog, handles, tcp, verbs, memory
<1> QED BY <1>1, <1>3, <1>5, <1>6, Peers, UntouchedKeeps DEF LocalInv

LEMMA LocalDeliverSend ==
  ASSUME LocalInv, NEW s \in Sides, Deliver(s), wr[s] = "SEND"
  PROVE  LocalInv'
<1> DEFINE p == Peer(s)
<1>0. p \in Sides /\ p # s
  BY Peers
<1> HIDE DEF p
<1>1. Functions /\ SideInv(s) /\ SideInv(p)
  BY <1>0 DEF LocalInv
<1>2. s = "server" /\ p = "client"
  BY <1>1, Peers DEF SideInv, QueueOf, p, Peer
<1>3. /\ rr[p] > 0 /\ rr' = [rr EXCEPT ![p] = @ - 1] /\ buf' = [buf EXCEPT ![p] = buf[s]]
      /\ wr' = [wr EXCEPT ![s] = "landed"] /\ cq' = Complete(p, "ok")
      /\ UNCHANGED <<prog, handles, tcp, props, qp, seen, clean>>
  BY DEF Deliver, p
<1>4. rr[p] = 1 /\ cq[p] = <<>> /\ wr[p] = "none"
  <2>1. rr[p] \in {0, 1} /\ Load(p) \in Nat /\ Len(cq[p]) \in {0, 1}
    BY <1>0, <1>1, LoadIs
  <2>2. rr[p] = 1
    BY <1>3, <2>1
  <2>3. Load(p) = 1
    <3>1. Load(p) <= 1
      BY <1>1 DEF SideInv, QueueOf
    <3>2. Load(p) >= 1
      <4>1. CASE wr[p] = "none"
        BY <2>1, <2>2, <4>1 DEF Load
      <4>2. CASE wr[p] # "none"
        BY <2>1, <2>2, <4>2 DEF Load
      <4> QED BY <4>1, <4>2
    <3> QED BY <2>1, <3>1, <3>2
  <2> QED BY <1>0, <1>1, <2>2, <2>3, LoadIs
<1>5. cq' = [cq EXCEPT ![p] = IF Able(p) THEN <<"ok">> ELSE <<>>]
  BY <1>1, <1>3, <1>4, AppendIs DEF Complete, Functions
<1>6. Functions'
  <2>1. /\ cq' \in [Sides -> {<<>>, <<"ok">>, <<"bad">>}] /\ rr' \in [Sides -> {0, 1}]
        /\ wr' \in [Sides -> {"none", "SEND", "READ", "WRITE", "landed"}] /\ buf' \in [Sides -> Texts]
    <3>1. cq' \in [Sides -> {<<>>, <<"ok">>, <<"bad">>}]
      BY <1>1, <1>5 DEF Functions
    <3>2. rr' \in [Sides -> {0, 1}]
      BY <1>0, <1>1, <1>3, <1>4 DEF Functions
    <3>3. wr' \in [Sides -> {"none", "SEND", "READ", "WRITE", "landed"}]
      BY <1>1, <1>3 DEF Functions
    <3>4. buf' \in [Sides -> Texts]
      BY <1>1, <1>3 DEF Functions
    <3> QED BY <3>1, <3>2, <3>3, <3>4
  <2> QED BY <1>1, <1>3, <2>1 DEF Functions, prog, handles, tcp
<1>7. \A t \in Sides :
        /\ pc'[t] = pc[t] /\ phase'[t] = phase[t] /\ rc'[t] = rc[t] /\ ptr'[t] = ptr[t] /\ obj'[t] = obj[t]
        /\ sock'[t] = sock[t] /\ nread'[t] = nread[t] /\ props'[t] = props[t] /\ qp'[t] = qp[t]
        /\ clean' = clean
  BY <1>3 DEF prog, handles, tcp
<1>8. /\ rr'[s] = rr[s] /\ cq'[s] = cq[s] /\ wr'[s] = "landed"
      /\ rr'[p] = 0 /\ wr'[p] = "none" /\ cq'[p] = IF Able(p) THEN <<"ok">> ELSE <<>>
  BY <1>0, <1>1, <1>3, <1>4, <1>5 DEF Functions
<1>9. SideInv(s)'
  <2>1. PlaceOf(s)'
    BY <1>1, <1>7 DEF SideInv, PlaceOf
  <2>2. HandlesOf(s)'
    BY <1>1, <1>7 DEF SideInv, HandlesOf
  <2>3. SocketOf(s)'
    BY <1>1, <1>7 DEF SideInv, SocketOf, Gone
  <2>4. QpOf(s)'
    BY <1>1, <1>7 DEF SideInv, QpOf
  <2>5. QueueOf(s)'
    <3>1. pc[s] # "pollR" /\ pc[s] # "pollW"
      BY <1>1, <1>2 DEF SideInv, PlaceOf, Creating, Early, Working, Syncing, Linking, Third, Fourth,
         Fifth, Over
    <3>2. Load(s)' = Load(s) /\ (Waits(s)' <=> Waits(s)) /\ (Awaits(s)' <=> Awaits(s)) /\ ~ Awaits(s)
      BY <1>2, <1>7, <1>8 DEF Load, Waits, Awaits, Polling
    <3> QED BY <1>1, <1>2, <1>7, <1>8, <3>1, <3>2 DEF SideInv, QueueOf
  <2> QED BY <2>1, <2>2, <2>3, <2>4, <2>5 DEF SideInv
<1>10. SideInv(p)'
  <2>1. PlaceOf(p)'
    BY <1>0, <1>1, <1>7 DEF SideInv, PlaceOf
  <2>2. HandlesOf(p)'
    BY <1>0, <1>1, <1>7 DEF SideInv, HandlesOf
  <2>3. SocketOf(p)'
    BY <1>0, <1>1, <1>7 DEF SideInv, SocketOf, Gone
  <2>4. QpOf(p)'
    BY <1>0, <1>1, <1>7 DEF SideInv, QpOf
  <2>5. QueueOf(p)'
    <3>1. pc[p] \in Working(p) => Able(p)
      BY <1>1 DEF SideInv, HandlesOf, Able, All
    <3>2. (Waits(p)' <=> Waits(p)) /\ (Awaits(p)' <=> Awaits(p))
      BY <1>0, <1>7 DEF Waits, Awaits, Polling
    <3>3. Waits(p) => pc[p] \in Working(p)
      BY <1>1, <1>2 DEF SideInv, PlaceOf, Waits, Awaits, Polling, Creating, Early, Working, Syncing,
         Linking, Third, Fourth, Fifth, Over
    <3>4. Len(<<>>) = 0 /\ Len(<<"ok">>) = 1
      OBVIOUS
    <3>5. Load(p)' = IF Able(p) THEN 1 ELSE 0
      BY <1>8, <3>4 DEF Load
    <3>6. Load(p) = 1
      BY <1>4, <3>4 DEF Load
    <3>7. pc[p] \in Early \cup Working(p) => Waits(p)
      BY <1>1, <3>6 DEF SideInv, QueueOf
    <3> QED BY <1>0, <1>1, <1>2, <1>7, <1>8, <3>1, <3>2, <3>3, <3>5, <3>7 DEF SideInv, QueueOf
  <2> QED BY <2>1, <2>2, <2>3, <2>4, <2>5 DEF SideInv
<1> QED BY <1>6, <1>9, <1>10, Peers DEF LocalInv, p

(* A side's invariant at the start.                                        *)
LEMMA LocalInit ==
  ASSUME Init
  PROVE  LocalInv
<1>1. Functions
  <2>1. <<>> \in Seq(Texts)
    OBVIOUS
  <2> QED BY <2>1, CallsAre DEF Init, Functions, Texts
<1>2. ASSUME NEW s \in Sides
      PROVE  SideInv(s)
  <2>1. /\ pc[s] = "start" /\ phase[s] = 1 /\ rc[s] = 1 /\ ptr[s] = {} /\ obj[s] = {} /\ sock[s] = "none"
        /\ nread[s] = 0 /\ props[s] = "none" /\ qp[s] = "none" /\ rr[s] = 0 /\ wr[s] = "none" /\ cq[s] = <<>>
    BY DEF Init
  <2>2. Size(1) >= 1 /\ Size(1) \in Nat /\ Len(<<>>) = 0
    BY SizeIs
  <2>3. PlaceOf(s)
    BY <2>1, <2>2 DEF PlaceOf, Creating, Early, Working, Syncing, Linking, Third, Fourth, Fifth,
      Over
  <2>4. HandlesOf(s)
    BY <2>1 DEF HandlesOf, Creating, Early, Working, Syncing, Linking, Third, Fourth, Fifth, Over
  <2>5. SocketOf(s)
    BY <2>1 DEF SocketOf, Creating, Early, Working, Syncing, Linking, Third, Fourth, Fifth, Over
  <2>6. QpOf(s)
    BY <2>1 DEF QpOf, Creating, Early, Working, Syncing, Linking, Third, Fourth, Fifth, Over
  <2>7. QueueOf(s)
    BY <2>1, <2>2 DEF QueueOf, Load, Waits, Awaits, Polling, Creating, Early, Working, Syncing,
       Linking, Third, Fourth, Fifth, Over
  <2> QED BY <2>3, <2>4, <2>5, <2>6, <2>7 DEF SideInv
<1> QED BY <1>1, <1>2 DEF LocalInv

LEMMA LocalStutter ==
  ASSUME LocalInv, UNCHANGED vars
  PROVE  LocalInv'
<1>1. Functions'
  BY DEF LocalInv, Functions, vars, prog, handles, tcp, verbs, memory
<1>2. ASSUME NEW s \in Sides
      PROVE  SideInv(s)'
  <2>1. Untouched(s)
    BY DEF Untouched, vars, prog, handles, tcp, verbs, memory
  <2> QED BY <2>1, UntouchedKeeps DEF LocalInv
<1> QED BY <1>1, <1>2 DEF LocalInv

LEMMA LocalGet ==
  ASSUME LocalInv, NEW s \in Sides, Get(s)
  PROVE  LocalInv'
<1>1. phase[s] \in {1, 2, 3, 4} /\ (s = "server" \/ s = "client")
  <2>1. Functions /\ PlaceOf(s) /\ pc[s] = "get"
    BY DEF LocalInv, SideInv, Get
  <2>2. phase[s] \in Nat /\ phase[s] >= 1 /\ phase[s] <= 4
    BY <2>1 DEF Functions, PlaceOf, Syncing
  <2> QED BY <2>2, Peers
<1>2. CASE phase' = phase
  BY <1>2, LocalGetShort
<1>3. CASE phase' # phase
  BY <1>1, <1>3, LocalGetOne, LocalGetTwoServer, LocalGetTwoClient, LocalGetThreeServer,
     LocalGetThreeClient, LocalGetFourServer, LocalGetFourClient
<1> QED BY <1>2, <1>3

LEMMA LocalPoll ==
  ASSUME LocalInv, NEW s \in Sides, Poll(s)
  PROVE  LocalInv'
<1>1. pc[s] \in {"poll", "pollR", "pollW"} /\ (s = "server" \/ s = "client")
  BY Peers DEF Poll, Polling
<1> QED BY <1>1, LocalPollBad, LocalPollServer, LocalPollClient, LocalPollRead, LocalPollWrite

LEMMA LocalModifyQp ==
  ASSUME LocalInv, NEW s \in Sides, ModifyQp(s)
  PROVE  LocalInv'
<1>1. pc[s] \in {"init", "rtr", "rts"}
  BY DEF ModifyQp
<1> QED BY <1>1, LocalModifyInit, LocalModifyRtr, LocalModifyRts

LEMMA LocalPostSend ==
  ASSUME LocalInv, NEW s \in Sides, PostSend(s)
  PROVE  LocalInv'
<1>1. pc[s] \in {"send", "read", "write"}
  BY DEF PostSend
<1> QED BY <1>1, LocalPostMessage, LocalPostRead, LocalPostWrite

LEMMA LocalMain ==
  ASSUME LocalInv, NEW s \in Sides, Main(s)
  PROVE  LocalInv'
<1>1. pc[s] \in {"fill", "show", "showR"} /\ (s = "server" \/ s = "client")
  BY Peers DEF Main
<1> QED BY <1>1, LocalMainFill, LocalMainShow, LocalMainEnd, LocalMainRead

LEMMA LocalDeliver ==
  ASSUME LocalInv, NEW s \in Sides, Deliver(s)
  PROVE  LocalInv'
<1>1. wr[s] \in {"SEND", "READ", "WRITE"}
  BY DEF Deliver
<1> QED BY <1>1, LocalDeliverSend, LocalDeliverRead, LocalDeliverWrite

LEMMA LocalNext ==
  ASSUME LocalInv, [Next]_vars
  PROVE  LocalInv'
<1>1. CASE Listen \/ Accept \/ Connect
  BY <1>1, LocalListen, LocalAccept, LocalConnect
<1>2. ASSUME NEW s \in Sides, Step(s)
      PROVE  LocalInv'
  BY <1>2, LocalObtain, LocalPut, LocalGet, LocalGetError, LocalModifyQp, LocalPostReceive,
    LocalPostSend,
     LocalPoll, LocalTimeout, LocalMain, LocalRelease, LocalEnd DEF Step
<1>3. ASSUME NEW s \in Sides, Fault(s)
      PROVE  LocalInv'
  BY <1>3, LocalCleanup, LocalKilled, LocalShortWrite, LocalCallFails, LocalBreak DEF Fault
<1>4. ASSUME NEW s \in Sides, Deliver(s) \/ Acknowledge(s)
      PROVE  LocalInv'
  BY <1>4, LocalDeliver, LocalAcknowledge
<1>5. CASE UNCHANGED vars
  BY <1>5, LocalStutter
<1> QED BY <1>1, <1>2, <1>3, <1>4, <1>5 DEF Next

(* Each call of main, connect_qp and resources_create is made with exactly *)
(* the handles, the socket, the state of the queue pair and the requests   *)
(* and completions that the calls before it leave, whatever the other side *)
(* and the network do.                                                     *)
THEOREM LocalInvHolds == Spec => []LocalInv
<1>1. Init => LocalInv
  BY LocalInit
<1>2. LocalInv /\ [Next]_vars => LocalInv'
  BY LocalNext
<1> QED BY <1>1, <1>2, PTL DEF Spec

(* The types, and the comment at 550 that a completion queue of one entry  *)
(* is enough: requests and completions of a side are never more than one.  *)
THEOREM TypeCorrect == Spec => []TypeOK
<1>1. LocalInv => TypeOK
  <2> SUFFICES ASSUME LocalInv
               PROVE  TypeOK
    OBVIOUS
  <2>1. Functions
    BY DEF LocalInv
  <2>2. \A s \in Sides : phase[s] \in 1 .. 5 /\ nread[s] \in 0 .. ConSize - 1
    <3> SUFFICES ASSUME NEW s \in Sides
                 PROVE  phase[s] \in 1 .. 5 /\ nread[s] \in 0 .. ConSize - 1
      OBVIOUS
    <3>1. phase[s] \in Nat /\ nread[s] \in Nat /\ PlaceOf(s)
      BY <2>1 DEF LocalInv, SideInv, Functions
    <3>2. Size(phase[s]) <= ConSize /\ Size(phase[s]) \in Nat
      BY <3>1, ConSizeAssumption DEF Size
    <3> QED BY <3>1, <3>2, ConSizeAssumption DEF PlaceOf
  <2>3. \A s \in Sides : Len(cq[s]) + rr[s] + (IF wr[s] = "none" THEN 0 ELSE 1) <= CqSize
    BY DEF LocalInv, SideInv, QueueOf, Load, CqSize
  <2>4. {<<>>, <<"ok">>, <<"bad">>} \subseteq Seq({"ok", "bad"})
    OBVIOUS
  <2>5. cq \in [Sides -> Seq({"ok", "bad"})]
    BY <2>1, <2>4 DEF Functions
  <2>6. phase \in [Sides -> 1 .. 5] /\ nread \in [Sides -> 0 .. ConSize - 1]
    BY <2>1, <2>2 DEF Functions
  <2>7. /\ rr \in [Sides -> 0 .. 1]
        /\ buf \in [Sides -> {"none", "zero", "MSG", "R", "W"}]
    <3>1. {0, 1} = 0 .. 1
      OBVIOUS
    <3> QED BY <2>1, <3>1 DEF Functions, Texts
  <2> QED BY <2>1, <2>3, <2>5, <2>6, <2>7 DEF TypeOK, Functions
<1> QED BY <1>1, LocalInvHolds, PTL

(* Nothing is released twice, memory is freed while the adapter may access *)
(* it only after a release has failed, and who returns 0 has released      *)
(* everything and closed its socket.                                       *)
THEOREM HandlesHold == Spec => []Handles
<1>1. LocalInv => Handles
  <2> SUFFICES ASSUME LocalInv, NEW s \in Sides
               PROVE  /\ ptr[s] \subseteq obj[s]
                      /\ "mr" \in obj[s] /\ clean => "buf" \in obj[s]
                      /\ pc[s] = "ended" /\ rc[s] = 0 => obj[s] = {} /\ Gone(s)
    BY DEF Handles
  <2>1. HandlesOf(s) /\ SocketOf(s)
    BY DEF LocalInv, SideInv
  <2> QED BY <2>1 DEF HandlesOf, SocketOf
<1> QED BY <1>1, LocalInvHolds, PTL

-----------------------------------------------------------------------------
(* The bytes on their way.                                                 *)
LEMMA TotalIs ==
  /\ Total(0) = 0 /\ Total(1) = ConSize /\ Total(2) = ConSize + 1 /\ Total(3) = ConSize + 2
  /\ Total(4) = ConSize + 3 /\ \A k \in 1 .. 4 : Total(k) = Total(k - 1) + Size(k)
BY ConSizeAssumption DEF Total, Size

LEMMA TotalNat ==
  \A k \in 0 .. 4 : Total(k) \in Nat
BY TotalIs, ConSizeAssumption

LEMMA BytesAre ==
  ASSUME LocalInv, NEW s \in Sides
  PROVE  /\ Came(s) \in Nat /\ Sent(s) \in Nat
         /\ phase[s] \in 1 .. 5 /\ nread[s] \in Nat /\ chan[s] \in Nat
<1>1. phase[s] \in Nat /\ nread[s] \in Nat /\ chan[s] \in Nat
  BY DEF LocalInv, Functions
<1>2. phase[s] >= 1 /\ phase[s] <= 5
  BY DEF LocalInv, SideInv, PlaceOf
<1>3. phase[s] - 1 \in 0 .. 4
  BY <1>1, <1>2
<1>4. (IF phase[s] # 5 /\ pc[s] \in {"get"} \cup Over THEN phase[s] ELSE phase[s] - 1) \in 0 .. 4
  BY <1>1, <1>2, <1>3
<1> QED BY <1>1, <1>2, <1>3, <1>4, TotalNat DEF Came, Sent

LEMMA BytesAreNext ==
  ASSUME LocalInv', NEW s \in Sides
  PROVE  /\ Came(s)' \in Nat /\ Sent(s)' \in Nat
         /\ phase'[s] \in 1 .. 5 /\ nread'[s] \in Nat /\ chan'[s] \in Nat
<1>1. phase'[s] \in Nat /\ nread'[s] \in Nat /\ chan'[s] \in Nat
  BY DEF LocalInv, Functions
<1>2. phase'[s] >= 1 /\ phase'[s] <= 5
  BY DEF LocalInv, SideInv, PlaceOf
<1>3. phase'[s] - 1 \in 0 .. 4
  BY <1>1, <1>2
<1>4. (IF phase'[s] # 5 /\ pc'[s] \in {"get"} \cup Over THEN phase'[s] ELSE phase'[s] - 1) \in 0 .. 4
  BY <1>1, <1>2, <1>3
<1> QED BY <1>1, <1>2, <1>3, <1>4, TotalNat DEF Came, Sent

(* Steps that take nothing from the sockets and put nothing into them,     *)
(* except that a side which closes its own drops what it has not read.     *)
Quiet ==
  \A t \in Sides :
    /\ phase'[t] = phase[t] /\ nread'[t] = nread[t] /\ props'[t] = props[t] /\ chan'[t] <= chan[t]
    /\ pc[t] \in {"get"} \cup Over => pc'[t] \in {"get"} \cup Over

LEMMA QuietSteps ==
  ASSUME LocalInv, NEW s \in Sides,
         \/ Listen \/ Accept \/ Connect \/ Obtain(s) \/ GetError(s) \/ ModifyQp(s) \/ PostReceive(s)
         \/ PostSend(s) \/ Poll(s) \/ Timeout(s) \/ Main(s) \/ Release(s) \/ End(s) \/ Cleanup(s)
         \/ Killed(s) \/ CallFails(s) \/ Break(s) \/ Deliver(s) \/ Acknowledge(s) \/ UNCHANGED vars
  PROVE  Quiet
<1>1. Functions /\ \A t \in Sides : chan[t] \in Nat
  BY DEF LocalInv, Functions
<1>2. CASE Listen
  BY <1>1, <1>2 DEF Listen, Go, Quiet, Functions, tcp, verbs, Over
<1>3. CASE Accept
  BY <1>1, <1>3 DEF Accept, Go, Quiet, Functions, tcp, verbs, Over
<1>4. CASE Connect
  BY <1>1, <1>4 DEF Connect, Go, Quiet, Functions, tcp, verbs, Over
<1>5. CASE Obtain(s)
  BY <1>1, <1>5, ThenIs DEF Obtain, Go, Quiet, Functions, tcp, verbs, Over, Creating
<1>6. CASE GetError(s)
  BY <1>1, <1>6 DEF GetError, Go, Quiet, Functions, tcp, verbs, Over
<1>7. CASE ModifyQp(s)
  BY <1>1, <1>7 DEF ModifyQp, Go, Quiet, Functions, tcp, verbs, Over
<1>8. CASE PostReceive(s)
  BY <1>1, <1>8 DEF PostReceive, Go, Quiet, Functions, tcp, verbs, Over
<1>9. CASE PostSend(s)
  BY <1>1, <1>9 DEF PostSend, Go, Quiet, Functions, tcp, verbs, Over
<1>10. CASE Poll(s)
  BY <1>1, <1>10 DEF Poll, Polling, Go, Quiet, Functions, tcp, verbs, Over
<1>11. CASE Timeout(s)
  BY <1>1, <1>11 DEF Timeout, Go, Quiet, Functions, tcp, verbs, Over
<1>12. CASE Main(s)
  BY <1>1, <1>12 DEF Main, Go, Quiet, Functions, tcp, verbs, Over
<1>13. CASE Release(s)
  BY <1>1, <1>13 DEF Release, Quiet, tcp
<1>14. CASE End(s)
  <2>1. /\ pc' = [pc EXCEPT ![s] = "ended"] /\ phase' = phase /\ nread' = nread /\ props' = props
        /\ chan' = chan \/ chan' = [chan EXCEPT ![s] = 0]
    BY <1>14 DEF End, Close, Go, tcp, verbs
  <2>2. \A t \in Sides : chan'[t] <= chan[t]
    <3>1. CASE chan' = chan
      BY <1>1, <3>1
    <3>2. CASE chan' = [chan EXCEPT ![s] = 0]
      BY <1>1, <3>2 DEF Functions
    <3> QED BY <2>1, <3>1, <3>2
  <2> QED BY <1>1, <2>1, <2>2 DEF Quiet, Functions, Over
<1>15. CASE Cleanup(s)
  BY <1>1, <1>15 DEF Cleanup, Close, GiveUp, Go, Quiet, Functions, verbs, Over
<1>16. CASE Killed(s)
  BY <1>1, <1>16 DEF Killed, Close, Go, Quiet, Functions, Over
<1>17. CASE CallFails(s)
  BY <1>1, <1>17 DEF CallFails, GiveUp, Go, Quiet, Functions, tcp, verbs, Over
<1>18. CASE Break(s)
  BY <1>1, <1>18 DEF Break, Quiet, prog, tcp
<1>19. CASE Deliver(s)
  BY <1>1, <1>19 DEF Deliver, Quiet, prog, tcp
<1>20. CASE Acknowledge(s)
  BY <1>1, <1>20 DEF Acknowledge, Quiet, prog, tcp
<1>21. CASE UNCHANGED vars
  BY <1>1, <1>21 DEF vars, Quiet, prog, tcp, verbs
<1> QED BY <1>2, <1>3, <1>4, <1>5, <1>6, <1>7, <1>8, <1>9, <1>10, <1>11, <1>12, <1>13, <1>14, <1>15,
  <1>16, <1>17, <1>18, <1>19, <1>20, <1>21

LEMMA BytesQuiet ==
  ASSUME LocalInv, LocalInv', BytesInv, Quiet
  PROVE  BytesInv'
<1> SUFFICES ASSUME InStep', NEW s \in Sides
             PROVE  (Came(s) <= Sent(Peer(s)))'
  BY DEF BytesInv
<1> DEFINE p == Peer(s)
<1>1. p \in Sides
  BY Peers
<1> HIDE DEF p
<1>2. InStep
  BY DEF InStep, Quiet
<1>3. Came(s) <= Sent(p) /\ Came(s) \in Nat /\ Sent(p) \in Nat /\ Came(s)' \in Nat /\ Sent(p)' \in Nat
  <2>1. Came(s)' \in Nat /\ Sent(p)' \in Nat
    BY <1>1, BytesAreNext
  <2> QED BY <1>1, <1>2, <2>1, BytesAre DEF BytesInv, p
<1>4. Came(s)' <= Came(s)
  <2>1. phase'[s] = phase[s] /\ nread'[s] = nread[s] /\ chan'[s] <= chan[s]
    BY DEF Quiet
  <2>2. chan[s] \in Nat /\ chan'[s] \in Nat /\ nread[s] \in Nat
    BY DEF LocalInv, Functions
  <2> DEFINE T == Total(phase[s] - 1)
  <2>3. T \in Nat
    BY TotalIs, BytesAre, ConSizeAssumption
  <2>4. Came(s) = T + nread[s] + chan[s] /\ Came(s)' = T + nread[s] + chan'[s]
    BY <2>1 DEF Came
  <2> HIDE DEF T
  <2> QED BY <2>1, <2>2, <2>3, <2>4
<1>5. Sent(p) <= Sent(p)'
  <2>1. phase'[p] = phase[p] /\ (pc[p] \in {"get"} \cup Over => pc'[p] \in {"get"} \cup Over)
    BY <1>1 DEF Quiet
  <2>2. phase[p] \in 1 .. 5
    BY <1>1, BytesAre
  <2>3. CASE phase[p] = 5
    BY <1>3, <2>1, <2>3 DEF Sent
  <2>4. CASE phase[p] # 5
    <3>1. phase[p] \in 1 .. 4
      BY <2>2, <2>4
    <3>2. Total(phase[p]) >= Total(phase[p] - 1)
      BY <3>1, TotalIs, ConSizeAssumption
    <3>3. Sent(p) = Total(phase[p]) \/ Sent(p) = Total(phase[p] - 1)
      BY <2>4 DEF Sent
    <3>4. Sent(p)' = Total(phase[p]) \/ (Sent(p)' = Total(phase[p] - 1) /\ Sent(p) = Total(phase[p] - 1))
      BY <2>1, <2>4 DEF Sent
    <3> QED BY <1>3, <3>2, <3>3, <3>4
  <2> QED BY <2>3, <2>4
<1> QED BY <1>3, <1>4, <1>5 DEF p

LEMMA BytesPut ==
  ASSUME LocalInv, LocalInv', BytesInv, NEW s \in Sides, Put(s)
  PROVE  BytesInv'
<1> SUFFICES ASSUME InStep'
             PROVE  \A t \in Sides : (Came(t) <= Sent(Peer(t)))'
  BY DEF BytesInv
<1> DEFINE p == Peer(s)
<1>0. p \in Sides /\ p # s /\ Peer(p) = s
  BY Peers
<1> HIDE DEF p
<1>1. Functions /\ PlaceOf(s) /\ pc[s] = "put"
  BY DEF LocalInv, SideInv, Put
<1>2. /\ pc' = [pc EXCEPT ![s] = "get"] /\ phase' = phase /\ nread' = nread
      /\ chan' = chan \/ chan' = [chan EXCEPT ![p] = @ + Size(phase[s])]
      /\ InStep
  BY DEF Put, Go, p, verbs, InStep
<1>3. phase[s] \in 1 .. 4
  <2>1. phase[s] <= 4
    BY <1>1 DEF PlaceOf, Syncing
  <2> QED BY <2>1, BytesAre
<1>4. /\ Came(s) <= Sent(p) /\ Came(p) <= Sent(s)
      /\ Came(s) \in Nat /\ Sent(p) \in Nat /\ Came(p) \in Nat /\ Sent(s) \in Nat
  BY <1>0, <1>2, BytesAre DEF BytesInv, p
<1>5. Came(s)' = Came(s) /\ Sent(p)' = Sent(p)
  <2>1. chan'[s] = chan[s] /\ pc'[p] = pc[p]
    BY <1>0, <1>1, <1>2 DEF Functions
  <2> QED BY <1>2, <2>1 DEF Came, Sent
<1>6. Sent(s)' = Sent(s) + Size(phase[s])
  <2>1. Sent(s) = Total(phase[s] - 1)
    BY <1>1 DEF Sent, Over
  <2>2. Sent(s)' = Total(phase[s])
    <3>1. phase[s] # 5 /\ pc'[s] = "get"
      BY <1>1, <1>2, <1>3 DEF Functions
    <3> QED BY <1>2, <3>1 DEF Sent
  <2> QED BY <1>3, <2>1, <2>2, TotalIs
<1>7. Came(p)' <= Came(p) + Size(phase[s])
  <2>1. chan'[p] = chan[p] \/ chan'[p] = chan[p] + Size(phase[s])
    BY <1>0, <1>1, <1>2 DEF Functions
  <2>2. Size(phase[s]) \in Nat /\ chan[p] \in Nat /\ nread[p] \in Nat
    BY <1>0, <1>1, SizeIs DEF Functions
  <2> DEFINE T == Total(phase[p] - 1)
  <2>3. T \in Nat
    BY <1>0, TotalNat, BytesAre
  <2>4. Came(p) = T + nread[p] + chan[p] /\ Came(p)' = T + nread[p] + chan'[p]
    BY <1>2 DEF Came
  <2> HIDE DEF T
  <2> QED BY <2>1, <2>2, <2>3, <2>4
<1>8. Size(phase[s]) \in Nat /\ Came(p)' \in Nat
  BY <1>0, <1>1, SizeIs, BytesAreNext DEF Functions
<1>9. Came(p)' <= Sent(s)' /\ Came(s)' <= Sent(p)'
  BY <1>4, <1>5, <1>6, <1>7, <1>8
<1> QED BY <1>0, <1>9, Peers DEF p

LEMMA BytesGet ==
  ASSUME LocalInv, LocalInv', BytesInv, NEW s \in Sides, Get(s)
  PROVE  /\ BytesInv' /\ \A t \in Sides : Came(t)' <= Came(t) /\ Sent(t)' = Sent(t)
         /\ InStep' = InStep
<1>1. Functions /\ PlaceOf(s) /\ QpOf(s)
  BY DEF LocalInv, SideInv
<1>2. PICK n \in Nat : GetWith(s, n)
  BY <1>1, GetIs
<1>3. phase[s] \in 1 .. 4 /\ pc[s] = "get"
  <2>1. phase[s] <= 4 /\ pc[s] = "get"
    BY <1>1, <1>2 DEF PlaceOf, Syncing, GetWith
  <2> QED BY <2>1, BytesAre
<1>4. InStep' = InStep
  <2>1. props' = props \/ (props[s] = "none" /\ \E v \in {"peer", "junk"} : props' = [props EXCEPT ![s] = v])
    <3>1. props' = props \/ (phase[s] = 1 /\ \E v \in {"peer", "junk"} : props' = [props EXCEPT ![s] = v])
      BY <1>2 DEF GetWith, Synced
    <3> QED BY <1>1, <3>1 DEF QpOf
  <2>2. CASE props' = props
    BY <2>2 DEF InStep
  <2>3. CASE props[s] = "none" /\ \E v \in {"peer", "junk"} : props' = [props EXCEPT ![s] = v]
    <3>1. PICK v \in {"peer", "junk"} : props' = [props EXCEPT ![s] = v]
      BY <2>3
    <3>2. \A t \in Sides : props'[t] = "unread" <=> props[t] = "unread"
      BY <1>1, <2>3, <3>1 DEF Functions
    <3> QED BY <3>2 DEF InStep
  <2> QED BY <2>1, <2>2, <2>3
<1>5. ASSUME NEW t \in Sides
      PROVE  Came(t)' <= Came(t) /\ Sent(t)' = Sent(t)
  <2>1. CASE t # s
    <3>1. /\ phase'[t] = phase[t] /\ nread'[t] = nread[t] /\ chan'[t] = chan[t] /\ pc'[t] = pc[t]
      <4>1. chan'[t] = chan[t]
        BY <1>1, <1>2, <2>1 DEF GetWith, Functions
      <4>2. /\ nread'[t] = nread[t] /\ phase'[t] = phase[t] /\ pc'[t] = pc[t]
        BY <1>1, <1>2, <2>1 DEF GetWith, Functions, Synced, Go, prog
      <4> QED BY <4>1, <4>2
    <3> QED BY <3>1, BytesAre DEF Came, Sent
  <2>2. CASE t = s
    <3>1. n \in Nat /\ chan[s] \in Nat /\ nread[s] \in Nat /\ n <= chan[s] /\ chan'[s] = chan[s] - n
      BY <1>1, <1>2 DEF GetWith, Functions
    <3> DEFINE T == Total(phase[s] - 1)
    <3>2. T \in Nat /\ Total(phase[s]) = T + Size(phase[s]) /\ Size(phase[s]) \in Nat
      <4>1. phase[s] - 1 \in 0 .. 4 /\ phase[s] \in Nat
        BY <1>3
      <4> QED BY <1>3, <4>1, TotalIs, TotalNat, SizeIs
    <3>3. Came(s) = T + nread[s] + chan[s] /\ Sent(s) = Total(phase[s])
      BY <1>3 DEF Came, Sent
    <3> HIDE DEF T
    <3>4. CASE nread[s] + n < Size(phase[s])
      <4>1. nread'[s] = nread[s] + n /\ phase' = phase /\ pc' = pc
        BY <1>1, <1>2, <3>4 DEF GetWith, Functions, prog
      <4>2. Came(s)' = T + (nread[s] + n) + (chan[s] - n)
        BY <3>1, <4>1 DEF Came, T
      <4>3. Sent(s)' = Sent(s)
        BY <4>1 DEF Sent
      <4> QED BY <2>2, <3>1, <3>2, <3>3, <4>2, <4>3
    <3>5. CASE ~ (nread[s] + n < Size(phase[s]))
      <4>1. nread'[s] = 0 /\ phase'[s] = phase[s] + 1 /\ pc'[s] = After(s, phase[s])
        BY <1>1, <1>2, <3>5 DEF GetWith, Functions, Synced, Go
      <4>2. phase'[s] - 1 = phase[s]
        BY <1>3, <4>1
      <4>3. Came(s)' = Total(phase[s]) + 0 + (chan[s] - n)
        BY <3>1, <4>1, <4>2 DEF Came
      <4>4. phase'[s] = 5 \/ pc'[s] \notin {"get"} \cup Over
        <5>1. phase[s] \in {1, 2, 3} \/ phase'[s] = 5
          BY <1>3, <4>1
        <5> QED BY <4>1, <5>1 DEF After, Over
      <4>5. Sent(s)' = Total(phase[s])
        BY <4>2, <4>4 DEF Sent
      <4> QED BY <2>2, <3>1, <3>2, <3>3, <3>5, <4>3, <4>5
    <3> QED BY <3>4, <3>5
  <2> QED BY <2>1, <2>2
<1>6. BytesInv'
  <2> SUFFICES ASSUME InStep', NEW t \in Sides
               PROVE  Came(t)' <= Sent(Peer(t))'
    BY DEF BytesInv
  <2>1. Peer(t) \in Sides
    BY Peers
  <2> QED BY <1>4, <1>5, <2>1, BytesAre, BytesAreNext DEF BytesInv
<1> QED BY <1>4, <1>5, <1>6

LEMMA BytesNext ==
  ASSUME LocalInv, LocalInv', BytesInv, [Next]_vars
  PROVE  BytesInv'
<1>1. ASSUME NEW s \in Sides, ShortWrite(s)
      PROVE  BytesInv'
  <2>1. props'[s] = "unread"
    BY <1>1 DEF ShortWrite, LocalInv, Functions
  <2> QED BY <2>1 DEF BytesInv, InStep
<1>2. "server" \in Sides
  BY DEF Sides
<1>3. CASE Listen \/ Accept \/ Connect \/ UNCHANGED vars
  BY <1>2, <1>3, QuietSteps, BytesQuiet
<1>4. ASSUME NEW s \in Sides, Step(s) \/ Fault(s) \/ Deliver(s) \/ Acknowledge(s)
      PROVE  BytesInv'
  BY <1>1, <1>4, QuietSteps, BytesQuiet, BytesPut, BytesGet DEF Step, Fault
<1> QED BY <1>3, <1>4 DEF Next

LEMMA BytesInit ==
  ASSUME Init
  PROVE  BytesInv
<1>1. \A s \in Sides : Came(s) = 0 /\ Sent(s) = 0
  BY TotalIs DEF Init, Came, Sent, Over
<1> QED BY <1>1, Peers DEF BytesInv

(* Unless a write came short, the bytes of the synchronisations that a     *)
(* side has passed in sock_sync_data, those it has read of the next one    *)
(* and those that wait in its socket are together no more than what the    *)
(* other side has written.                                                 *)
THEOREM BytesInvHolds == Spec => [](LocalInv /\ BytesInv)
<1>1. Init => LocalInv /\ BytesInv
  BY LocalInit, BytesInit
<1>2. LocalInv /\ BytesInv /\ [Next]_vars => (LocalInv /\ BytesInv)'
  BY LocalNext, BytesNext
<1> QED BY <1>1, <1>2, PTL DEF Spec

(* No byte comes before it is sent, and who has left a synchronisation has *)
(* read all its bytes.                                                     *)
LEMMA BarrierIs ==
  ASSUME LocalInv, BytesInv
  PROVE  Barrier
<1> SUFFICES ASSUME InStep, NEW s \in Sides
             PROVE  \/ phase[Peer(s)] >= phase[s]
                    \/ /\ phase[Peer(s)] = phase[s] - 1
                       /\ pc[Peer(s)] \in {"get", "destroy", "ended", "killed"}
  BY DEF Barrier
<1> DEFINE p == Peer(s)
<1>1. p \in Sides
  BY Peers
<1> HIDE DEF p
<1>2. Came(s) <= Sent(p) /\ Came(s) \in Nat /\ Sent(p) \in Nat
  BY <1>1, BytesAre DEF BytesInv, p
<1>3. phase[s] \in 1 .. 5 /\ phase[p] \in 1 .. 5 /\ nread[s] \in Nat /\ chan[s] \in Nat
  BY <1>1, BytesAre
<1>4. Came(s) >= Total(phase[s] - 1)
  <2>1. Total(phase[s] - 1) \in Nat
    BY <1>3, TotalNat
  <2> QED BY <1>3, <2>1 DEF Came
<1>5. \A j, k \in 0 .. 4 : Total(j) >= Total(k) => j >= k
  BY TotalIs, ConSizeAssumption
<1>6. Sent(p) >= Total(phase[s] - 1)
  BY <1>2, <1>3, <1>4, TotalNat
<1>7. CASE phase[p] # 5 /\ pc[p] \in {"get"} \cup Over
  <2>1. Sent(p) = Total(phase[p]) /\ phase[p] \in 0 .. 4 /\ phase[s] - 1 \in 0 .. 4
    BY <1>3, <1>7 DEF Sent
  <2>2. phase[p] >= phase[s] - 1
    BY <1>5, <1>6, <2>1
  <2> QED BY <1>3, <1>7, <2>2 DEF Over, p
<1>8. CASE ~ (phase[p] # 5 /\ pc[p] \in {"get"} \cup Over)
  <2>1. Sent(p) = Total(phase[p] - 1) /\ phase[p] - 1 \in 0 .. 4 /\ phase[s] - 1 \in 0 .. 4
    BY <1>3, <1>8 DEF Sent
  <2>2. phase[p] - 1 >= phase[s] - 1
    BY <1>5, <1>6, <2>1
  <2> QED BY <1>3, <2>2 DEF p
<1> QED BY <1>7, <1>8

(* A side leaves its kth synchronisation only after the other one has      *)
(* reached it, also when short reads let it take bytes of a later one.     *)
THEOREM BarrierHolds == Spec => []Barrier
BY BarrierIs, BytesInvHolds, PTL

-----------------------------------------------------------------------------
(* Who is connected, and what the buffers hold.                            *)
LEMMA CameQuiet ==
  ASSUME LocalInv, LocalInv', Quiet, NEW t \in Sides
  PROVE  Came(t)' <= Came(t)
<1>1. phase'[t] = phase[t] /\ nread'[t] = nread[t] /\ chan'[t] <= chan[t]
  BY DEF Quiet
<1>2. chan[t] \in Nat /\ chan'[t] \in Nat /\ nread[t] \in Nat
  BY BytesAre, BytesAreNext
<1> DEFINE T == Total(phase[t] - 1)
<1>3. T \in Nat
  BY TotalNat, BytesAre
<1>4. Came(t) = T + nread[t] + chan[t] /\ Came(t)' = T + nread[t] + chan'[t]
  BY <1>1 DEF Came
<1> HIDE DEF T
<1> QED BY <1>1, <1>2, <1>3, <1>4

(* Once both sides have each other's data they keep them.                  *)
LEMMA BothStays ==
  ASSUME LocalInv, [Next]_vars, Both
  PROVE  Both'
<1>1. Functions /\ \A s \in Sides : QpOf(s) /\ PlaceOf(s) /\ props[s] = "peer" /\ phase[s] # 1
  <2>1. \A s \in Sides : props[s] = "peer"
    BY Peers DEF Both, Sides
  <2> QED BY <2>1 DEF LocalInv, SideInv, QpOf
<1>2. CASE Quiet
  BY <1>2 DEF Quiet, Both, Sides
<1>3. ASSUME NEW s \in Sides, Put(s) \/ ShortWrite(s)
      PROVE  Both'
  <2>1. CASE Put(s)
    BY <2>1 DEF Put, verbs, Both
  <2>2. CASE ShortWrite(s)
    BY <1>1, <2>2 DEF ShortWrite
  <2> QED BY <1>3, <2>1, <2>2
<1>4. ASSUME NEW s \in Sides, Get(s)
      PROVE  Both'
  <2>1. PICK n \in Nat : GetWith(s, n)
    BY <1>1, <1>4, GetIs
  <2>2. props' = props
    BY <1>1, <2>1 DEF GetWith, Synced
  <2> QED BY <2>2 DEF Both
<1>5. "server" \in Sides
  BY DEF Sides
<1> QED BY <1>2, <1>3, <1>4, <1>5, QuietSteps DEF Next, Step, Fault

(* What a side has posted and what it has been told at each call.          *)
LEMMA QueueIs ==
  ASSUME LocalInv, NEW s \in Sides
  PROVE  /\ pc[s] \in Early \cup Working(s) /\ ~ Waits(s) => cq[s] = <<>> /\ rr[s] = 0 /\ wr[s] = "none"
         /\ wr[s] # "none" => cq[s] = <<>> /\ rr[s] = 0
         /\ cq[s] # <<>> => wr[s] = "none" /\ rr[s] = 0
         /\ Done(s) => cq[s] # <<>>
         /\ rr[s] \in {0, 1} /\ (rr[s] # 0 => cq[s] = <<>> /\ wr[s] = "none")
<1>1. Functions /\ QueueOf(s) /\ Load(s) \in Nat /\ Load(s) <= 1
  BY LoadIs DEF LocalInv, SideInv, QueueOf
<1>2. Load(s) = 0 \/ Load(s) = 1
  BY <1>1
<1>3. Done(s) => cq[s] # <<>>
  BY DEF Done
<1>4. pc[s] \in Early \cup Working(s) /\ ~ Waits(s) => Load(s) = 0
  BY <1>1 DEF QueueOf
<1> QED BY <1>1, <1>2, <1>3, <1>4, LoadIs

(* Steps after which nobody is further than before: a side fails, ends, or *)
(* only waits for the other one to connect.                                *)
Fades ==
  \A t \in Sides :
    /\ phase'[t] = phase[t] /\ buf'[t] = buf[t] /\ seen'[t] = seen[t] /\ props'[t] = props[t]
    /\ pc'[t] = pc[t] \/ pc'[t] \in Over \/ (pc[t] \in Early /\ pc'[t] \in {"accept", "list"})
    /\ wr'[t] \in {wr[t], "none"} /\ cq'[t] \in {cq[t], <<>>, <<"bad">>}

LEMMA FadesSteps ==
  ASSUME LocalInv, NEW s \in Sides,
         \/ Listen \/ Accept \/ Connect \/ GetError(s) \/ (Poll(s) /\ Head(cq[s]) # "ok") \/ Timeout(s)
         \/ Release(s) \/ End(s) \/ Cleanup(s) \/ Killed(s) \/ CallFails(s) \/ Break(s) \/ UNCHANGED vars
  PROVE  Fades
<1>1. Functions
  BY DEF LocalInv
<1>2. CASE Listen
  BY <1>1, <1>2 DEF Listen, Go, Fades, Functions, verbs, memory, Early
<1>3. CASE Accept
  BY <1>1, <1>3 DEF Accept, Go, Fades, Functions, verbs, memory, Early, Creating
<1>4. CASE Connect
  BY <1>1, <1>4 DEF Connect, Go, Fades, Functions, verbs, memory, Early, Creating
<1>5. CASE GetError(s)
  BY <1>1, <1>5 DEF GetError, Go, Fades, Functions, verbs, memory, Over
<1>6. CASE Poll(s) /\ Head(cq[s]) # "ok"
  <2>1. Tail(cq[s]) = <<>>
    BY <1>1, <1>6, TailIs DEF Poll
  <2> QED BY <1>1, <1>6, <2>1 DEF Poll, Go, Fades, Functions, memory, Over
<1>7. CASE Timeout(s)
  BY <1>1, <1>7 DEF Timeout, Go, Fades, Functions, verbs, memory, Over
<1>8. CASE Release(s)
  <2>1. cq' = cq \/ cq' = [cq EXCEPT ![s] = <<>>]
    BY <1>8 DEF Release
  <2>2. UNCHANGED <<pc, phase, props, wr, memory>>
    BY <1>8 DEF Release
  <2> QED BY <1>1, <2>1, <2>2 DEF Fades, Functions, memory
<1>9. CASE End(s)
  <2>1. pc' = [pc EXCEPT ![s] = "ended"] /\ UNCHANGED <<phase, verbs, memory>>
    BY <1>9 DEF End, Go
  <2> QED BY <1>1, <2>1 DEF Fades, Functions, verbs, memory, Over
<1>10. CASE Cleanup(s)
  BY <1>1, <1>10 DEF Cleanup, GiveUp, Go, Fades, Functions, verbs, memory, Over
<1>11. CASE Killed(s)
  BY <1>1, <1>11 DEF Killed, Go, Fades, Functions, memory, Over
<1>12. CASE CallFails(s)
  BY <1>1, <1>12 DEF CallFails, GiveUp, Go, Fades, Functions, verbs, memory, Over
<1>13. CASE Break(s)
  <2>1. cq[s] = <<>> /\ Append(<<>>, "bad") = <<"bad">>
    BY <1>13, QueueIs, AppendIs DEF Break
  <2>2. \A t \in Sides : cq'[t] \in {cq[t], <<"bad">>}
    BY <1>1, <1>13, <2>1 DEF Break, Complete, Functions
  <2> QED BY <1>1, <1>13, <2>2 DEF Break, Fades, Functions, prog, memory
<1>14. CASE UNCHANGED vars
  BY <1>14 DEF vars, Fades, prog, verbs, memory
<1> QED BY <1>2, <1>3, <1>4, <1>5, <1>6, <1>7, <1>8, <1>9, <1>10, <1>11, <1>12, <1>13, <1>14

LEMMA PlaceIs ==
  ASSUME LocalInv, NEW s \in Sides
  PROVE  /\ PlaceOf(s) /\ pc[s] \in Early \cup Working(s) \cup Over /\ phase[s] \in {1, 2, 3, 4, 5}
         /\ pc[s] \in Early => phase[s] = 1
         /\ pc[s] \in Linking => phase[s] = 2
         /\ pc[s] \in Syncing => phase[s] \in {1, 2, 3, 4}
         /\ pc[s] \in Third(s) => phase[s] = 3
         /\ pc[s] \in Fourth(s) => phase[s] = 4
         /\ pc[s] \in Fifth(s) => phase[s] = 5
         /\ phase[s] = 1 <=> props[s] = "none"
<1>1. PlaceOf(s) /\ QpOf(s) /\ Functions
  BY DEF LocalInv, SideInv
<1>2. phase[s] \in {1, 2, 3, 4, 5}
  BY BytesAre
<1>3. pc[s] \in Syncing => phase[s] # 5
  BY <1>1, <1>2 DEF PlaceOf
<1> QED BY <1>1, <1>2, <1>3 DEF PlaceOf, QpOf

LEMMA CompletionsAre ==
  <<"ok">> # <<"bad">> /\ <<"ok">> # <<>> /\ <<"bad">> # <<>> /\ "ok" # "bad"
<1>1. Len(<<>>) = 0 /\ Len(<<"ok">>) = 1 /\ Len(<<"bad">>) = 1
  OBVIOUS
<1>2. <<"ok">>[1] = "ok" /\ <<"bad">>[1] = "bad" /\ "ok" # "bad"
  OBVIOUS
<1> QED BY <1>1, <1>2

LEMMA DataFades ==
  ASSUME LocalInv, LocalInv', DataInv, Both => Both', Quiet, Fades
  PROVE  DataInv'
<1> DEFINE c == "client"
           v == "server"
<1>1. /\ Came(v)' <= Came(v) /\ Came(c)' <= Came(c) /\ InStep' = InStep
      /\ Came(v)' \in Nat /\ Came(c)' \in Nat /\ Came(v) \in Nat /\ Came(c) \in Nat
      /\ Total(2) \in Nat /\ Total(3) \in Nat
  <2>1. v \in Sides /\ c \in Sides
    BY DEF Sides
  <2>2. InStep' = InStep
    BY DEF Quiet, InStep
  <2> QED BY <2>1, <2>2, CameQuiet, TotalNat, BytesAre, BytesAreNext
<1>2. \A t \in {v, c} :
        /\ phase'[t] = phase[t] /\ buf'[t] = buf[t] /\ seen'[t] = seen[t] /\ props'[t] = props[t]
        /\ pc'[t] = pc[t] \/ pc'[t] \in Over \/ (pc[t] \in Early /\ pc'[t] \in {"accept", "list"})
        /\ wr'[t] \in {wr[t], "none"} /\ cq'[t] \in {cq[t], <<>>, <<"bad">>}
  BY DEF Fades, Sides
<1>0. \A t \in {v, c} : Done(t)' => Done(t)
  BY <1>2, CompletionsAre DEF Done
<1>3. LinkInv'
  BY <1>0, <1>2 DEF DataInv, LinkInv, Past, Sides, Creating, Early, Working, Syncing, Linking,
     Third, Fourth, Fifth, Over
<1>4. ServerBuf'
  BY <1>0, <1>1, <1>2 DEF DataInv, ServerBuf, Creating, Early, Working, Syncing, Linking,
     Third, Fourth, Fifth, Over
<1>5. ClientBuf'
  BY <1>0, <1>2 DEF DataInv, ClientBuf, Awaits, Creating, Early, Working, Syncing, Linking,
     Third, Fourth, Fifth, Over
<1>6. SeenInv'
  BY <1>2 DEF DataInv, SeenInv, Creating, Early, Working, Syncing, Linking,
     Third, Fourth, Fifth, Over
<1> QED BY <1>3, <1>4, <1>5, <1>6 DEF DataInv

LEMMA AppendTwo ==
  Append(<<"MSG">>, "R") = <<"MSG", "R">>
<1> DEFINE a == Append(<<"MSG">>, "R")
           b == <<"MSG", "R">>
<1>1. a \in Seq({"MSG", "R"}) /\ Len(a) = 2 /\ a[1] = "MSG" /\ a[2] = "R"
  OBVIOUS
<1>2. b \in Seq({"MSG", "R"}) /\ Len(b) = 2 /\ b[1] = "MSG" /\ b[2] = "R"
  OBVIOUS
<1> HIDE DEF a, b
<1>3. a = b
  <2>1. \A i \in 1 .. 2 : a[i] = b[i]
    BY <1>1, <1>2
  <2> QED BY <1>1, <1>2, <2>1, SeqEqual
<1> QED BY <1>3 DEF a, b

LEMMA DataObtainServer ==
  ASSUME LocalInv, LocalInv', BytesInv, BytesInv', DataInv, Both => Both',
         Obtain("server")
  PROVE  DataInv'
<1> DEFINE c == "client"
           v == "server"
<1>0. v \in Sides /\ c \in Sides /\ Peer(c) = v /\ Peer(v) = c
  BY DEF Sides, Peer
<1>1. /\ InStep' = InStep /\ Came(v)' <= Came(v) /\ Came(c)' <= Came(c)
      /\ Came(v)' \in Nat /\ Came(c)' \in Nat /\ Came(v) \in Nat /\ Came(c) \in Nat
      /\ Total(2) \in Nat /\ Total(3) \in Nat
  <2>1. Quiet
    BY <1>0, QuietSteps
  <2>2. InStep' = InStep
    BY <2>1 DEF Quiet, InStep
  <2> QED BY <1>0, <2>1, <2>2, CameQuiet, TotalNat, BytesAre, BytesAreNext
<1>2. /\ pc[v] \in Creating /\ (pc'[v] = "mr" => pc[v] = "buf") /\ (pc'[v] = "qp" => pc[v] = "mr")
      /\ pc'[v] \in Creating \cup {"put"} /\ (pc'[v] = "put" => pc[v] = "qp")
      /\ phase[v] = 1 /\ phase'[v] = 1 /\ wr'[v] = wr[v] /\ cq'[v] = cq[v]
      /\ \/ pc[v] # "buf" /\ buf'[v] = buf[v]
         \/ pc[v] = "buf" /\ pc'[v] = "mr" /\ buf'[v] = "MSG"
      /\ seen'[v] = seen[v] /\ pc'[c] = pc[c] /\ phase'[c] = phase[c] /\ wr'[c] = wr[c]
      /\ cq'[c] = cq[c] /\ buf'[c] = buf[c] /\ seen'[c] = seen[c]
  <2>1. Functions /\ pc["server"] \in Creating
    BY ThenIs DEF LocalInv, Obtain
  <2>2. phase["server"] = 1
    BY <1>0, <2>1, PlaceIs DEF Early
  <2> QED BY <1>0, <2>1, <2>2, ThenIs DEF Obtain, Go, Functions, memory, Creating
<1>3. LinkInv'
  <2>1. ~ Past(v)'
    BY <1>2 DEF Past, Creating, Early, Working, Syncing, Linking,
       Third, Fourth, Fifth, Over
  <2>2. /\ Past(c)' = Past(c) /\ Done(v)' = Done(v) /\ Done(c)' = Done(c)
        /\ wr'[v] = wr[v] /\ wr'[c] = wr[c]
    BY <1>2 DEF Past, Done
  <2> QED BY <2>1, <2>2 DEF DataInv, LinkInv, Sides
<1>4. ServerBuf'
  <2>1. ~ Both /\ wr[v] = "none" /\ cq[v] = <<>>
    <3>1. pc[v] \in Early /\ ~ Waits(v)
      BY <1>2 DEF Waits, Awaits, Polling, Creating, Early, Working, Syncing, Linking,
       Third, Fourth, Fifth, Over
    <3> QED BY <1>0, <1>2, <3>1, PlaceIs, QueueIs DEF Both
  <2>2. /\ wr[c] \notin {"READ", "WRITE", "landed"} /\ ~ Done(c) /\ ~ Past(c) /\ pc[c] # "pollW"
        /\ ~ (pc[c] \in Syncing /\ phase[c] = 4)
    <3>1. pc[c] = "pollW" \/ (pc[c] \in Syncing /\ phase[c] = 4) => Past(c)
      BY DEF Past, Fourth
    <3> QED BY <1>0, <2>1, <3>1 DEF DataInv, LinkInv
  <2>3. InStep => Came(c) <= Total(2) /\ Came(v) <= Total(3)
    <3> SUFFICES ASSUME InStep
                 PROVE  Came(c) <= Total(2) /\ Came(v) <= Total(3)
      OBVIOUS
    <3>1. Sent(v) = 0 /\ Came(c) <= Sent(v) /\ Came(v) <= Sent(c)
      <4>1. pc[v] \notin {"get"} \cup Over
        BY <1>2 DEF Creating, Over
      <4>2. Sent(v) = 0
        BY <1>2, <4>1, TotalIs DEF Sent
      <4> QED BY <1>0, <4>2 DEF BytesInv
    <3>2. Came(c) = 0
      BY <1>1, <3>1
    <3>3. phase[c] = 1
      <4>1. nread[c] \in Nat /\ chan[c] \in Nat /\ Total(phase[c] - 1) \in Nat
        BY <1>0, BytesAre, TotalNat
      <4>2. Total(phase[c] - 1) = 0
        BY <3>2, <4>1 DEF Came
      <4> QED BY <1>0, <4>2, PlaceIs, TotalIs, ConSizeAssumption
    <3>4. Sent(c) <= Total(1) /\ Sent(c) \in Nat
      <4>1. Sent(c) = Total(1) \/ Sent(c) = Total(0)
        BY <3>3 DEF Sent
      <4> QED BY <4>1, TotalIs, ConSizeAssumption
    <3> QED BY <1>1, <3>1, <3>2, <3>4, TotalIs, ConSizeAssumption
  <2>4. /\ wr'[c] = wr[c] /\ wr'[v] = "none" /\ Done(c)' = Done(c) /\ pc'[c] = pc[c] /\ phase'[c] = phase[c]
        /\ buf'[v] = buf[v] \/ buf'[v] = "MSG"
    BY <1>2, <2>1 DEF Done
  <2>5. /\ pc'[v] \in Working(v) \/ pc'[v] \in {"mr", "qp"} => buf'[v] = "MSG"
        /\ ~ (pc'[v] \in Syncing /\ phase'[v] >= 3)
    BY <1>2 DEF DataInv, ServerBuf, Creating, Early, Working, Syncing, Linking,
       Third, Fourth, Fifth, Over
  <2>6. /\ ~ (InStep' /\ Came(c)' > Total(2)) /\ ~ (InStep' /\ Came(v)' > Total(3))
    BY <1>1, <2>3
  <2>7. buf'[v] = "W" =>
          /\ wr'[c] \notin {"READ", "WRITE"}
          /\ pc'[c] = "pollW" \/ pc'[c] \in Over \/ (pc'[c] \in Syncing /\ phase'[c] = 4)
    BY <2>4 DEF DataInv, ServerBuf
  <2> QED BY <2>2, <2>4, <2>5, <2>6, <2>7 DEF ServerBuf
<1>5. ClientBuf'
  BY <1>0, <1>2, PlaceIs, QueueIs, CompletionsAre DEF DataInv, ClientBuf, Awaits, Done, Creating,
    Early, Working, Syncing, Linking,
       Third, Fourth, Fifth, Over, Waits, Polling
<1>6. SeenInv'
  BY <1>0, <1>2, PlaceIs, QueueIs, CompletionsAre DEF DataInv, SeenInv, Creating, Early, Working,
    Syncing, Linking,
       Third, Fourth, Fifth, Over, Waits, Polling
<1> QED BY <1>3, <1>4, <1>5, <1>6 DEF DataInv

LEMMA DataObtainClient ==
  ASSUME LocalInv, LocalInv', BytesInv, BytesInv', DataInv, Both => Both',
         Obtain("client")
  PROVE  DataInv'
<1> DEFINE c == "client"
           v == "server"
<1>0. v \in Sides /\ c \in Sides /\ Peer(c) = v /\ Peer(v) = c
  BY DEF Sides, Peer
<1>1. /\ InStep' = InStep /\ Came(v)' <= Came(v) /\ Came(c)' <= Came(c)
      /\ Came(v)' \in Nat /\ Came(c)' \in Nat /\ Came(v) \in Nat /\ Came(c) \in Nat
      /\ Total(2) \in Nat /\ Total(3) \in Nat
  <2>1. Quiet
    BY <1>0, QuietSteps
  <2>2. InStep' = InStep
    BY <2>1 DEF Quiet, InStep
  <2> QED BY <1>0, <2>1, <2>2, CameQuiet, TotalNat, BytesAre, BytesAreNext
<1>2. /\ pc[c] \in Creating /\ (pc'[c] = "mr" => pc[c] = "buf") /\ (pc'[c] = "qp" => pc[c] = "mr")
      /\ pc'[c] \in Creating \cup {"put"} /\ (pc'[c] = "put" => pc[c] = "qp")
      /\ phase[c] = 1 /\ phase'[c] = 1 /\ wr'[c] = wr[c] /\ cq'[c] = cq[c]
      /\ \/ pc[c] # "buf" /\ buf'[c] = buf[c]
         \/ pc[c] = "buf" /\ pc'[c] = "mr" /\ buf'[c] = "zero"
      /\ seen'[c] = seen[c] /\ pc'[v] = pc[v] /\ phase'[v] = phase[v] /\ wr'[v] = wr[v]
      /\ cq'[v] = cq[v] /\ buf'[v] = buf[v] /\ seen'[v] = seen[v]
  <2>1. Functions /\ pc["client"] \in Creating
    BY ThenIs DEF LocalInv, Obtain
  <2>2. phase["client"] = 1
    BY <1>0, <2>1, PlaceIs DEF Early
  <2> QED BY <1>0, <2>1, <2>2, ThenIs DEF Obtain, Go, Functions, memory, Creating
<1>3. LinkInv'
  <2>1. ~ Past(c)'
    BY <1>2 DEF Past, Creating, Early, Working, Syncing, Linking,
       Third, Fourth, Fifth, Over
  <2>2. /\ Past(v)' = Past(v) /\ Done(c)' = Done(c) /\ Done(v)' = Done(v)
        /\ wr'[c] = wr[c] /\ wr'[v] = wr[v]
    BY <1>2 DEF Past, Done
  <2> QED BY <2>1, <2>2 DEF DataInv, LinkInv, Sides
<1>4. ServerBuf'
  BY <1>0, <1>1, <1>2, PlaceIs, QueueIs, CompletionsAre DEF DataInv, ServerBuf, Done, Creating,
    Early, Working, Syncing, Linking,
       Third, Fourth, Fifth, Over, Waits, Polling
<1>5. ClientBuf'
  BY <1>0, <1>2, PlaceIs, QueueIs, CompletionsAre DEF DataInv, ClientBuf, Awaits, Done, Creating,
    Early, Working, Syncing, Linking,
       Third, Fourth, Fifth, Over, Waits, Polling
<1>6. SeenInv'
  BY <1>0, <1>2, PlaceIs, QueueIs, CompletionsAre DEF DataInv, SeenInv, Creating, Early, Working,
    Syncing, Linking,
       Third, Fourth, Fifth, Over, Waits, Polling
<1> QED BY <1>3, <1>4, <1>5, <1>6 DEF DataInv

LEMMA DataModifyQpServer ==
  ASSUME LocalInv, LocalInv', BytesInv, BytesInv', DataInv, Both => Both',
         ModifyQp("server")
  PROVE  DataInv'
<1> DEFINE c == "client"
           v == "server"
<1>0. v \in Sides /\ c \in Sides /\ Peer(c) = v /\ Peer(v) = c
  BY DEF Sides, Peer
<1>1. /\ InStep' = InStep /\ Came(v)' <= Came(v) /\ Came(c)' <= Came(c)
      /\ Came(v)' \in Nat /\ Came(c)' \in Nat /\ Came(v) \in Nat /\ Came(c) \in Nat
      /\ Total(2) \in Nat /\ Total(3) \in Nat
  <2>1. Quiet
    BY <1>0, QuietSteps
  <2>2. InStep' = InStep
    BY <2>1 DEF Quiet, InStep
  <2> QED BY <1>0, <2>1, <2>2, CameQuiet, TotalNat, BytesAre, BytesAreNext
<1>2. /\ pc[v] \in {"init", "rtr", "rts"} /\ phase[v] = 2 /\ pc'[v] = IF pc[v] = "init" THEN "rtr" ELSE IF pc[v] = "rtr" THEN "rts" ELSE "put"
      /\ phase'[v] = phase[v] /\ wr'[v] = wr[v] /\ cq'[v] = cq[v] /\ buf'[v] = buf[v]
      /\ seen'[v] = seen[v] /\ pc'[c] = pc[c] /\ phase'[c] = phase[c] /\ wr'[c] = wr[c]
      /\ cq'[c] = cq[c] /\ buf'[c] = buf[c] /\ seen'[c] = seen[c]
  <2>1. Functions /\ pc["server"] \in Linking
    BY DEF LocalInv, ModifyQp, Linking
  <2>2. phase["server"] = 2
    BY <1>0, <2>1, PlaceIs
  <2> QED BY <1>0, <2>1, <2>2 DEF ModifyQp, Go, Functions, memory
<1>3. LinkInv'
  BY <1>0, <1>2, PlaceIs, QueueIs, CompletionsAre DEF DataInv, LinkInv, Sides, Past, Done,
    Creating, Early, Working, Syncing, Linking,
       Third, Fourth, Fifth, Over, Waits, Polling
<1>4. ServerBuf'
  BY <1>0, <1>1, <1>2, PlaceIs, QueueIs, CompletionsAre DEF DataInv, ServerBuf, Done, Creating,
    Early, Working, Syncing, Linking,
       Third, Fourth, Fifth, Over, Waits, Polling
<1>5. ClientBuf'
  BY <1>0, <1>2, PlaceIs, QueueIs, CompletionsAre DEF DataInv, ClientBuf, Awaits, Done, Creating,
    Early, Working, Syncing, Linking,
       Third, Fourth, Fifth, Over, Waits, Polling
<1>6. SeenInv'
  BY <1>0, <1>2, PlaceIs, QueueIs, CompletionsAre DEF DataInv, SeenInv, Creating, Early, Working,
    Syncing, Linking,
       Third, Fourth, Fifth, Over, Waits, Polling
<1> QED BY <1>3, <1>4, <1>5, <1>6 DEF DataInv

LEMMA DataModifyQpClient ==
  ASSUME LocalInv, LocalInv', BytesInv, BytesInv', DataInv, Both => Both',
         ModifyQp("client")
  PROVE  DataInv'
<1> DEFINE c == "client"
           v == "server"
<1>0. v \in Sides /\ c \in Sides /\ Peer(c) = v /\ Peer(v) = c
  BY DEF Sides, Peer
<1>1. /\ InStep' = InStep /\ Came(v)' <= Came(v) /\ Came(c)' <= Came(c)
      /\ Came(v)' \in Nat /\ Came(c)' \in Nat /\ Came(v) \in Nat /\ Came(c) \in Nat
      /\ Total(2) \in Nat /\ Total(3) \in Nat
  <2>1. Quiet
    BY <1>0, QuietSteps
  <2>2. InStep' = InStep
    BY <2>1 DEF Quiet, InStep
  <2> QED BY <1>0, <2>1, <2>2, CameQuiet, TotalNat, BytesAre, BytesAreNext
<1>2. /\ pc[c] \in {"init", "rtr", "rts"} /\ phase[c] = 2 /\ pc'[c] = IF pc[c] = "init" THEN "rr" ELSE IF pc[c] = "rtr" THEN "rts" ELSE "put"
      /\ phase'[c] = phase[c] /\ wr'[c] = wr[c] /\ cq'[c] = cq[c] /\ buf'[c] = buf[c]
      /\ seen'[c] = seen[c] /\ pc'[v] = pc[v] /\ phase'[v] = phase[v] /\ wr'[v] = wr[v]
      /\ cq'[v] = cq[v] /\ buf'[v] = buf[v] /\ seen'[v] = seen[v]
  <2>1. Functions /\ pc["client"] \in Linking
    BY DEF LocalInv, ModifyQp, Linking
  <2>2. phase["client"] = 2
    BY <1>0, <2>1, PlaceIs
  <2> QED BY <1>0, <2>1, <2>2 DEF ModifyQp, Go, Functions, memory
<1>3. LinkInv'
  BY <1>0, <1>2, PlaceIs, QueueIs, CompletionsAre DEF DataInv, LinkInv, Sides, Past, Done,
    Creating, Early, Working, Syncing, Linking,
       Third, Fourth, Fifth, Over, Waits, Polling
<1>4. ServerBuf'
  BY <1>0, <1>1, <1>2, PlaceIs, QueueIs, CompletionsAre DEF DataInv, ServerBuf, Done, Creating,
    Early, Working, Syncing, Linking,
       Third, Fourth, Fifth, Over, Waits, Polling
<1>5. ClientBuf'
  BY <1>0, <1>2, PlaceIs, QueueIs, CompletionsAre DEF DataInv, ClientBuf, Awaits, Done, Creating,
    Early, Working, Syncing, Linking,
       Third, Fourth, Fifth, Over, Waits, Polling
<1>6. SeenInv'
  BY <1>0, <1>2, PlaceIs, QueueIs, CompletionsAre DEF DataInv, SeenInv, Creating, Early, Working,
    Syncing, Linking,
       Third, Fourth, Fifth, Over, Waits, Polling
<1> QED BY <1>3, <1>4, <1>5, <1>6 DEF DataInv

LEMMA DataPostReceive ==
  ASSUME LocalInv, LocalInv', BytesInv, BytesInv', DataInv, Both => Both',
         PostReceive("client")
  PROVE  DataInv'
<1> DEFINE c == "client"
           v == "server"
<1>0. v \in Sides /\ c \in Sides /\ Peer(c) = v /\ Peer(v) = c
  BY DEF Sides, Peer
<1>1. /\ InStep' = InStep /\ Came(v)' <= Came(v) /\ Came(c)' <= Came(c)
      /\ Came(v)' \in Nat /\ Came(c)' \in Nat /\ Came(v) \in Nat /\ Came(c) \in Nat
      /\ Total(2) \in Nat /\ Total(3) \in Nat
  <2>1. Quiet
    BY <1>0, QuietSteps
  <2>2. InStep' = InStep
    BY <2>1 DEF Quiet, InStep
  <2> QED BY <1>0, <2>1, <2>2, CameQuiet, TotalNat, BytesAre, BytesAreNext
<1>2. /\ pc[c] = "rr" /\ phase[c] = 2 /\ pc'[c] = "rtr" /\ phase'[c] = phase[c] /\ wr'[c] = wr[c]
      /\ cq'[c] = cq[c] /\ buf'[c] = buf[c] /\ seen'[c] = seen[c] /\ pc'[v] = pc[v]
      /\ phase'[v] = phase[v] /\ wr'[v] = wr[v] /\ cq'[v] = cq[v] /\ buf'[v] = buf[v]
      /\ seen'[v] = seen[v]
  <2>1. Functions /\ pc[c] \in Linking
    BY DEF LocalInv, PostReceive, Linking
  <2>2. phase[c] = 2
    BY <1>0, <2>1, PlaceIs
  <2> QED BY <1>0, <2>1, <2>2 DEF PostReceive, Go, Functions, memory
<1>3. LinkInv'
  BY <1>0, <1>2, PlaceIs, QueueIs, CompletionsAre DEF DataInv, LinkInv, Sides, Past, Done,
    Creating, Early, Working, Syncing, Linking,
       Third, Fourth, Fifth, Over, Waits, Polling
<1>4. ServerBuf'
  BY <1>0, <1>1, <1>2, PlaceIs, QueueIs, CompletionsAre DEF DataInv, ServerBuf, Done, Creating,
    Early, Working, Syncing, Linking,
       Third, Fourth, Fifth, Over, Waits, Polling
<1>5. ClientBuf'
  BY <1>0, <1>2, PlaceIs, QueueIs, CompletionsAre DEF DataInv, ClientBuf, Awaits, Done, Creating,
    Early, Working, Syncing, Linking,
       Third, Fourth, Fifth, Over, Waits, Polling
<1>6. SeenInv'
  BY <1>0, <1>2, PlaceIs, QueueIs, CompletionsAre DEF DataInv, SeenInv, Creating, Early, Working,
    Syncing, Linking,
       Third, Fourth, Fifth, Over, Waits, Polling
<1> QED BY <1>3, <1>4, <1>5, <1>6 DEF DataInv

LEMMA DataPostMessage ==
  ASSUME LocalInv, LocalInv', BytesInv, BytesInv', DataInv, Both => Both',
         PostSend("server"), pc["server"] = "send"
  PROVE  DataInv'
<1> DEFINE c == "client"
           v == "server"
<1>0. v \in Sides /\ c \in Sides /\ Peer(c) = v /\ Peer(v) = c
  BY DEF Sides, Peer
<1>1. /\ InStep' = InStep /\ Came(v)' <= Came(v) /\ Came(c)' <= Came(c)
      /\ Came(v)' \in Nat /\ Came(c)' \in Nat /\ Came(v) \in Nat /\ Came(c) \in Nat
      /\ Total(2) \in Nat /\ Total(3) \in Nat
  <2>1. Quiet
    BY <1>0, QuietSteps
  <2>2. InStep' = InStep
    BY <2>1 DEF Quiet, InStep
  <2> QED BY <1>0, <2>1, <2>2, CameQuiet, TotalNat, BytesAre, BytesAreNext
<1>2. /\ pc[v] = "send" /\ pc'[v] = "poll" /\ phase[v] = 3 /\ phase'[v] = phase[v]
      /\ wr'[v] = "SEND" /\ cq'[v] = cq[v] /\ buf'[v] = buf[v] /\ seen'[v] = seen[v]
      /\ pc'[c] = pc[c] /\ phase'[c] = phase[c] /\ wr'[c] = wr[c] /\ cq'[c] = cq[c]
      /\ buf'[c] = buf[c] /\ seen'[c] = seen[c]
  <2>1. Functions /\ PlaceOf("server")
    BY <1>0 DEF LocalInv, SideInv
  <2>2. phase["server"] = 3
    BY <1>0, PlaceIs DEF Third, Fourth
  <2> QED BY <1>0, <2>1, <2>2 DEF PostSend, Go, Functions, memory
<1>3. LinkInv'
  BY <1>0, <1>2, PlaceIs, QueueIs, CompletionsAre DEF DataInv, LinkInv, Sides, Past, Done,
    Creating, Early, Working, Syncing, Linking,
       Third, Fourth, Fifth, Over, Waits, Polling
<1>4. ServerBuf'
  BY <1>0, <1>1, <1>2, PlaceIs, QueueIs, CompletionsAre DEF DataInv, ServerBuf, Done, Creating,
    Early, Working, Syncing, Linking,
       Third, Fourth, Fifth, Over, Waits, Polling
<1>5. ClientBuf'
  BY <1>0, <1>2, PlaceIs, QueueIs, CompletionsAre DEF DataInv, ClientBuf, Awaits, Done, Creating,
    Early, Working, Syncing, Linking,
       Third, Fourth, Fifth, Over, Waits, Polling
<1>6. SeenInv'
  BY <1>0, <1>2, PlaceIs, QueueIs, CompletionsAre DEF DataInv, SeenInv, Creating, Early, Working,
    Syncing, Linking,
       Third, Fourth, Fifth, Over, Waits, Polling
<1> QED BY <1>3, <1>4, <1>5, <1>6 DEF DataInv

LEMMA DataPostRead ==
  ASSUME LocalInv, LocalInv', BytesInv, BytesInv', DataInv, Both => Both',
         PostSend("client"), pc["client"] = "read"
  PROVE  DataInv'
<1> DEFINE c == "client"
           v == "server"
<1>0. v \in Sides /\ c \in Sides /\ Peer(c) = v /\ Peer(v) = c
  BY DEF Sides, Peer
<1>1. /\ InStep' = InStep /\ Came(v)' <= Came(v) /\ Came(c)' <= Came(c)
      /\ Came(v)' \in Nat /\ Came(c)' \in Nat /\ Came(v) \in Nat /\ Came(c) \in Nat
      /\ Total(2) \in Nat /\ Total(3) \in Nat
  <2>1. Quiet
    BY <1>0, QuietSteps
  <2>2. InStep' = InStep
    BY <2>1 DEF Quiet, InStep
  <2> QED BY <1>0, <2>1, <2>2, CameQuiet, TotalNat, BytesAre, BytesAreNext
<1>2. /\ pc[c] = "read" /\ pc'[c] = "pollR" /\ phase[c] = 4 /\ phase'[c] = phase[c]
      /\ wr'[c] = "READ" /\ cq'[c] = cq[c] /\ buf'[c] = buf[c] /\ seen'[c] = seen[c]
      /\ pc'[v] = pc[v] /\ phase'[v] = phase[v] /\ wr'[v] = wr[v] /\ cq'[v] = cq[v]
      /\ buf'[v] = buf[v] /\ seen'[v] = seen[v]
  <2>1. Functions /\ PlaceOf("client")
    BY <1>0 DEF LocalInv, SideInv
  <2>2. phase["client"] = 4
    BY <1>0, PlaceIs DEF Third, Fourth
  <2> QED BY <1>0, <2>1, <2>2 DEF PostSend, Go, Functions, memory
<1>3. LinkInv'
  BY <1>0, <1>2, PlaceIs, QueueIs, CompletionsAre DEF DataInv, LinkInv, Sides, Past, Done,
    Creating, Early, Working, Syncing, Linking,
       Third, Fourth, Fifth, Over, Waits, Polling
<1>4. ServerBuf'
  BY <1>0, <1>1, <1>2, PlaceIs, QueueIs, CompletionsAre DEF DataInv, ServerBuf, Done, Creating,
    Early, Working, Syncing, Linking,
       Third, Fourth, Fifth, Over, Waits, Polling
<1>5. ClientBuf'
  BY <1>0, <1>2, PlaceIs, QueueIs, CompletionsAre DEF DataInv, ClientBuf, Awaits, Done, Creating,
    Early, Working, Syncing, Linking,
       Third, Fourth, Fifth, Over, Waits, Polling
<1>6. SeenInv'
  BY <1>0, <1>2, PlaceIs, QueueIs, CompletionsAre DEF DataInv, SeenInv, Creating, Early, Working,
    Syncing, Linking,
       Third, Fourth, Fifth, Over, Waits, Polling
<1> QED BY <1>3, <1>4, <1>5, <1>6 DEF DataInv

LEMMA DataPostWrite ==
  ASSUME LocalInv, LocalInv', BytesInv, BytesInv', DataInv, Both => Both',
         PostSend("client"), pc["client"] = "write"
  PROVE  DataInv'
<1> DEFINE c == "client"
           v == "server"
<1>0. v \in Sides /\ c \in Sides /\ Peer(c) = v /\ Peer(v) = c
  BY DEF Sides, Peer
<1>1. /\ InStep' = InStep /\ Came(v)' <= Came(v) /\ Came(c)' <= Came(c)
      /\ Came(v)' \in Nat /\ Came(c)' \in Nat /\ Came(v) \in Nat /\ Came(c) \in Nat
      /\ Total(2) \in Nat /\ Total(3) \in Nat
  <2>1. Quiet
    BY <1>0, QuietSteps
  <2>2. InStep' = InStep
    BY <2>1 DEF Quiet, InStep
  <2> QED BY <1>0, <2>1, <2>2, CameQuiet, TotalNat, BytesAre, BytesAreNext
<1>2. /\ pc[c] = "write" /\ pc'[c] = "pollW" /\ phase[c] = 4 /\ phase'[c] = phase[c]
      /\ wr'[c] = "WRITE" /\ cq'[c] = cq[c] /\ buf'[c] = buf[c] /\ seen'[c] = seen[c]
      /\ pc'[v] = pc[v] /\ phase'[v] = phase[v] /\ wr'[v] = wr[v] /\ cq'[v] = cq[v]
      /\ buf'[v] = buf[v] /\ seen'[v] = seen[v]
  <2>1. Functions /\ PlaceOf("client")
    BY <1>0 DEF LocalInv, SideInv
  <2>2. phase["client"] = 4
    BY <1>0, PlaceIs DEF Third, Fourth
  <2> QED BY <1>0, <2>1, <2>2 DEF PostSend, Go, Functions, memory
<1>3. LinkInv'
  BY <1>0, <1>2, PlaceIs, QueueIs, CompletionsAre DEF DataInv, LinkInv, Sides, Past, Done,
    Creating, Early, Working, Syncing, Linking,
       Third, Fourth, Fifth, Over, Waits, Polling
<1>4. ServerBuf'
  <2>1. buf[v] # "W" /\ ~ Done(c)
    BY <1>0, <1>2, PlaceIs, QueueIs DEF DataInv, ServerBuf, Waits, Awaits, Polling, Creating,
      Early, Working, Syncing, Linking,
       Third, Fourth, Fifth, Over
  <2>2. Done(c)' = Done(c)
    BY <1>2 DEF Done
  <2> QED BY <1>1, <1>2, <2>1, <2>2 DEF DataInv, ServerBuf, Creating, Early, Working, Syncing,
    Linking,
       Third, Fourth, Fifth, Over
<1>5. ClientBuf'
  BY <1>0, <1>2, PlaceIs, QueueIs, CompletionsAre DEF DataInv, ClientBuf, Awaits, Done, Creating,
    Early, Working, Syncing, Linking,
       Third, Fourth, Fifth, Over, Waits, Polling
<1>6. SeenInv'
  BY <1>0, <1>2, PlaceIs, QueueIs, CompletionsAre DEF DataInv, SeenInv, Creating, Early, Working,
    Syncing, Linking,
       Third, Fourth, Fifth, Over, Waits, Polling
<1> QED BY <1>3, <1>4, <1>5, <1>6 DEF DataInv

LEMMA DataPollServer ==
  ASSUME LocalInv, LocalInv', BytesInv, BytesInv', DataInv, Both => Both',
         Poll("server"), Head(cq["server"]) = "ok", pc["server"] = "poll"
  PROVE  DataInv'
<1> DEFINE c == "client"
           v == "server"
<1>0. v \in Sides /\ c \in Sides /\ Peer(c) = v /\ Peer(v) = c
  BY DEF Sides, Peer
<1>1. /\ InStep' = InStep /\ Came(v)' <= Came(v) /\ Came(c)' <= Came(c)
      /\ Came(v)' \in Nat /\ Came(c)' \in Nat /\ Came(v) \in Nat /\ Came(c) \in Nat
      /\ Total(2) \in Nat /\ Total(3) \in Nat
  <2>1. Quiet
    BY <1>0, QuietSteps
  <2>2. InStep' = InStep
    BY <2>1 DEF Quiet, InStep
  <2> QED BY <1>0, <2>1, <2>2, CameQuiet, TotalNat, BytesAre, BytesAreNext
<1>2. /\ pc[v] = "poll" /\ pc'[v] = "fill" /\ phase[v] = 3 /\ phase'[v] = phase[v] /\ wr'[v] = wr[v]
      /\ cq[v] = <<"ok">> /\ cq'[v] = <<>> /\ buf'[v] = buf[v] /\ seen'[v] = seen[v]
      /\ pc'[c] = pc[c] /\ phase'[c] = phase[c] /\ wr'[c] = wr[c] /\ cq'[c] = cq[c]
      /\ buf'[c] = buf[c] /\ seen'[c] = seen[c]
  <2>1. Functions /\ cq["server"] # <<>>
    BY <1>0 DEF LocalInv, Poll
  <2>2. phase["server"] = 3
    BY <1>0, PlaceIs DEF Third, Fourth
  <2>3. Tail(cq["server"]) = <<>> /\ cq["server"] = <<"ok">>
    BY <1>0, <2>1, TailIs
  <2> QED BY <1>0, <2>1, <2>2, <2>3 DEF Poll, AfterPoll, Go, Functions, memory
<1>3. LinkInv'
  BY <1>0, <1>2, PlaceIs, QueueIs, CompletionsAre DEF DataInv, LinkInv, Sides, Past, Done,
    Creating, Early, Working, Syncing, Linking,
       Third, Fourth, Fifth, Over, Waits, Polling
<1>4. ServerBuf'
  BY <1>0, <1>1, <1>2, PlaceIs, QueueIs, CompletionsAre DEF DataInv, ServerBuf, Done, Creating,
    Early, Working, Syncing, Linking,
       Third, Fourth, Fifth, Over, Waits, Polling
<1>5. ClientBuf'
  BY <1>0, <1>2, PlaceIs, QueueIs, CompletionsAre DEF DataInv, ClientBuf, Awaits, Done, Creating,
    Early, Working, Syncing, Linking,
       Third, Fourth, Fifth, Over, Waits, Polling
<1>6. SeenInv'
  BY <1>0, <1>2, PlaceIs, QueueIs, CompletionsAre DEF DataInv, SeenInv, Creating, Early, Working,
    Syncing, Linking,
       Third, Fourth, Fifth, Over, Waits, Polling
<1> QED BY <1>3, <1>4, <1>5, <1>6 DEF DataInv

LEMMA DataPollClient ==
  ASSUME LocalInv, LocalInv', BytesInv, BytesInv', DataInv, Both => Both',
         Poll("client"), Head(cq["client"]) = "ok", pc["client"] = "poll"
  PROVE  DataInv'
<1> DEFINE c == "client"
           v == "server"
<1>0. v \in Sides /\ c \in Sides /\ Peer(c) = v /\ Peer(v) = c
  BY DEF Sides, Peer
<1>1. /\ InStep' = InStep /\ Came(v)' <= Came(v) /\ Came(c)' <= Came(c)
      /\ Came(v)' \in Nat /\ Came(c)' \in Nat /\ Came(v) \in Nat /\ Came(c) \in Nat
      /\ Total(2) \in Nat /\ Total(3) \in Nat
  <2>1. Quiet
    BY <1>0, QuietSteps
  <2>2. InStep' = InStep
    BY <2>1 DEF Quiet, InStep
  <2> QED BY <1>0, <2>1, <2>2, CameQuiet, TotalNat, BytesAre, BytesAreNext
<1>2. /\ pc[c] = "poll" /\ pc'[c] = "show" /\ phase[c] = 3 /\ phase'[c] = phase[c] /\ wr'[c] = wr[c]
      /\ cq[c] = <<"ok">> /\ cq'[c] = <<>> /\ buf'[c] = buf[c] /\ seen'[c] = seen[c]
      /\ pc'[v] = pc[v] /\ phase'[v] = phase[v] /\ wr'[v] = wr[v] /\ cq'[v] = cq[v]
      /\ buf'[v] = buf[v] /\ seen'[v] = seen[v]
  <2>1. Functions /\ cq["client"] # <<>>
    BY <1>0 DEF LocalInv, Poll
  <2>2. phase["client"] = 3
    BY <1>0, PlaceIs DEF Third, Fourth
  <2>3. Tail(cq["client"]) = <<>> /\ cq["client"] = <<"ok">>
    BY <1>0, <2>1, TailIs
  <2> QED BY <1>0, <2>1, <2>2, <2>3 DEF Poll, AfterPoll, Go, Functions, memory
<1>3. LinkInv'
  BY <1>0, <1>2, PlaceIs, QueueIs, CompletionsAre DEF DataInv, LinkInv, Sides, Past, Done,
    Creating, Early, Working, Syncing, Linking,
       Third, Fourth, Fifth, Over, Waits, Polling
<1>4. ServerBuf'
  BY <1>0, <1>1, <1>2, PlaceIs, QueueIs, CompletionsAre DEF DataInv, ServerBuf, Done, Creating,
    Early, Working, Syncing, Linking,
       Third, Fourth, Fifth, Over, Waits, Polling
<1>5. ClientBuf'
  BY <1>0, <1>2, PlaceIs, QueueIs, CompletionsAre DEF DataInv, ClientBuf, Awaits, Done, Creating,
    Early, Working, Syncing, Linking,
       Third, Fourth, Fifth, Over, Waits, Polling
<1>6. SeenInv'
  BY <1>0, <1>2, PlaceIs, QueueIs, CompletionsAre DEF DataInv, SeenInv, Creating, Early, Working,
    Syncing, Linking,
       Third, Fourth, Fifth, Over, Waits, Polling
<1> QED BY <1>3, <1>4, <1>5, <1>6 DEF DataInv

LEMMA DataPollRead ==
  ASSUME LocalInv, LocalInv', BytesInv, BytesInv', DataInv, Both => Both',
         Poll("client"), Head(cq["client"]) = "ok", pc["client"] = "pollR"
  PROVE  DataInv'
<1> DEFINE c == "client"
           v == "server"
<1>0. v \in Sides /\ c \in Sides /\ Peer(c) = v /\ Peer(v) = c
  BY DEF Sides, Peer
<1>1. /\ InStep' = InStep /\ Came(v)' <= Came(v) /\ Came(c)' <= Came(c)
      /\ Came(v)' \in Nat /\ Came(c)' \in Nat /\ Came(v) \in Nat /\ Came(c) \in Nat
      /\ Total(2) \in Nat /\ Total(3) \in Nat
  <2>1. Quiet
    BY <1>0, QuietSteps
  <2>2. InStep' = InStep
    BY <2>1 DEF Quiet, InStep
  <2> QED BY <1>0, <2>1, <2>2, CameQuiet, TotalNat, BytesAre, BytesAreNext
<1>2. /\ pc[c] = "pollR" /\ pc'[c] = "showR" /\ phase[c] = 4 /\ phase'[c] = phase[c]
      /\ wr'[c] = wr[c] /\ cq[c] = <<"ok">> /\ cq'[c] = <<>> /\ buf'[c] = buf[c]
      /\ seen'[c] = seen[c] /\ pc'[v] = pc[v] /\ phase'[v] = phase[v] /\ wr'[v] = wr[v]
      /\ cq'[v] = cq[v] /\ buf'[v] = buf[v] /\ seen'[v] = seen[v]
  <2>1. Functions /\ cq["client"] # <<>>
    BY <1>0 DEF LocalInv, Poll
  <2>2. phase["client"] = 4
    BY <1>0, PlaceIs DEF Third, Fourth
  <2>3. Tail(cq["client"]) = <<>> /\ cq["client"] = <<"ok">>
    BY <1>0, <2>1, TailIs
  <2> QED BY <1>0, <2>1, <2>2, <2>3 DEF Poll, AfterPoll, Go, Functions, memory
<1>3. LinkInv'
  BY <1>0, <1>2, PlaceIs, QueueIs, CompletionsAre DEF DataInv, LinkInv, Sides, Past, Done,
    Creating, Early, Working, Syncing, Linking,
       Third, Fourth, Fifth, Over, Waits, Polling
<1>4. ServerBuf'
  BY <1>0, <1>1, <1>2, PlaceIs, QueueIs, CompletionsAre DEF DataInv, ServerBuf, Done, Creating,
    Early, Working, Syncing, Linking,
       Third, Fourth, Fifth, Over, Waits, Polling
<1>5. ClientBuf'
  BY <1>0, <1>2, PlaceIs, QueueIs, CompletionsAre DEF DataInv, ClientBuf, Awaits, Done, Creating,
    Early, Working, Syncing, Linking,
       Third, Fourth, Fifth, Over, Waits, Polling
<1>6. SeenInv'
  BY <1>0, <1>2, PlaceIs, QueueIs, CompletionsAre DEF DataInv, SeenInv, Creating, Early, Working,
    Syncing, Linking,
       Third, Fourth, Fifth, Over, Waits, Polling
<1> QED BY <1>3, <1>4, <1>5, <1>6 DEF DataInv

LEMMA DataPollWrite ==
  ASSUME LocalInv, LocalInv', BytesInv, BytesInv', DataInv, Both => Both',
         Poll("client"), Head(cq["client"]) = "ok", pc["client"] = "pollW"
  PROVE  DataInv'
<1> DEFINE c == "client"
           v == "server"
<1>0. v \in Sides /\ c \in Sides /\ Peer(c) = v /\ Peer(v) = c
  BY DEF Sides, Peer
<1>1. /\ InStep' = InStep /\ Came(v)' <= Came(v) /\ Came(c)' <= Came(c)
      /\ Came(v)' \in Nat /\ Came(c)' \in Nat /\ Came(v) \in Nat /\ Came(c) \in Nat
      /\ Total(2) \in Nat /\ Total(3) \in Nat
  <2>1. Quiet
    BY <1>0, QuietSteps
  <2>2. InStep' = InStep
    BY <2>1 DEF Quiet, InStep
  <2> QED BY <1>0, <2>1, <2>2, CameQuiet, TotalNat, BytesAre, BytesAreNext
<1>2. /\ pc[c] = "pollW" /\ pc'[c] = "put" /\ phase[c] = 4 /\ phase'[c] = phase[c] /\ wr'[c] = wr[c]
      /\ cq[c] = <<"ok">> /\ cq'[c] = <<>> /\ buf'[c] = buf[c] /\ seen'[c] = seen[c]
      /\ pc'[v] = pc[v] /\ phase'[v] = phase[v] /\ wr'[v] = wr[v] /\ cq'[v] = cq[v]
      /\ buf'[v] = buf[v] /\ seen'[v] = seen[v]
  <2>1. Functions /\ cq["client"] # <<>>
    BY <1>0 DEF LocalInv, Poll
  <2>2. phase["client"] = 4
    BY <1>0, PlaceIs DEF Third, Fourth
  <2>3. Tail(cq["client"]) = <<>> /\ cq["client"] = <<"ok">>
    BY <1>0, <2>1, TailIs
  <2> QED BY <1>0, <2>1, <2>2, <2>3 DEF Poll, AfterPoll, Go, Functions, memory
<1>3. LinkInv'
  BY <1>0, <1>2, PlaceIs, QueueIs, CompletionsAre DEF DataInv, LinkInv, Sides, Past, Done,
    Creating, Early, Working, Syncing, Linking,
       Third, Fourth, Fifth, Over, Waits, Polling
<1>4. ServerBuf'
  BY <1>0, <1>1, <1>2, PlaceIs, QueueIs, CompletionsAre DEF DataInv, ServerBuf, Done, Creating,
    Early, Working, Syncing, Linking,
       Third, Fourth, Fifth, Over, Waits, Polling
<1>5. ClientBuf'
  BY <1>0, <1>2, PlaceIs, QueueIs, CompletionsAre DEF DataInv, ClientBuf, Awaits, Done, Creating,
    Early, Working, Syncing, Linking,
       Third, Fourth, Fifth, Over, Waits, Polling
<1>6. SeenInv'
  BY <1>0, <1>2, PlaceIs, QueueIs, CompletionsAre DEF DataInv, SeenInv, Creating, Early, Working,
    Syncing, Linking,
       Third, Fourth, Fifth, Over, Waits, Polling
<1> QED BY <1>3, <1>4, <1>5, <1>6 DEF DataInv

LEMMA DataMainFill ==
  ASSUME LocalInv, LocalInv', BytesInv, BytesInv', DataInv, Both => Both',
         Main("server"), pc["server"] = "fill"
  PROVE  DataInv'
<1> DEFINE c == "client"
           v == "server"
<1>0. v \in Sides /\ c \in Sides /\ Peer(c) = v /\ Peer(v) = c
  BY DEF Sides, Peer
<1>1. /\ InStep' = InStep /\ Came(v)' <= Came(v) /\ Came(c)' <= Came(c)
      /\ Came(v)' \in Nat /\ Came(c)' \in Nat /\ Came(v) \in Nat /\ Came(c) \in Nat
      /\ Total(2) \in Nat /\ Total(3) \in Nat
  <2>1. Quiet
    BY <1>0, QuietSteps
  <2>2. InStep' = InStep
    BY <2>1 DEF Quiet, InStep
  <2> QED BY <1>0, <2>1, <2>2, CameQuiet, TotalNat, BytesAre, BytesAreNext
<1>2. /\ pc[v] = "fill" /\ pc'[v] = "put" /\ phase[v] = 3 /\ phase'[v] = phase[v] /\ wr'[v] = wr[v]
      /\ cq'[v] = cq[v] /\ buf'[v] = "R" /\ seen'[v] = seen[v] /\ pc'[c] = pc[c]
      /\ phase'[c] = phase[c] /\ wr'[c] = wr[c] /\ cq'[c] = cq[c] /\ buf'[c] = buf[c]
      /\ seen'[c] = seen[c]
  <2>1. Functions
    BY DEF LocalInv
  <2>2. phase["server"] = 3
    BY <1>0, PlaceIs DEF Third, Fourth, Fifth
  <2> QED BY <1>0, <2>1, <2>2 DEF Main, Go, Functions, verbs
<1>3. LinkInv'
  BY <1>0, <1>2, PlaceIs, QueueIs, CompletionsAre DEF DataInv, LinkInv, Sides, Past, Done,
    Creating, Early, Working, Syncing, Linking,
       Third, Fourth, Fifth, Over, Waits, Polling
<1>4. ServerBuf'
  <2>1. buf[v] = "MSG" /\ wr[v] = "none"
    BY <1>0, <1>2, PlaceIs, QueueIs DEF DataInv, ServerBuf, Waits, Awaits, Polling, Creating,
      Early, Working, Syncing, Linking,
       Third, Fourth, Fifth, Over
  <2>2. /\ ~ (InStep /\ Came(v) > Total(3)) /\ wr[c] # "landed" /\ ~ (pc[c] = "pollW" /\ Done(c))
        /\ ~ (pc[c] \in Syncing /\ phase[c] = 4)
    BY <2>1 DEF DataInv, ServerBuf
  <2>3. Done(c)' = Done(c)
    BY <1>2 DEF Done
  <2>4. /\ ~ (InStep' /\ Came(v)' > Total(3)) /\ wr'[c] # "landed" /\ ~ (pc'[c] = "pollW" /\ Done(c)')
        /\ ~ (pc'[c] \in Syncing /\ phase'[c] = 4)
    BY <1>1, <1>2, <2>2, <2>3
  <2>5. /\ pc'[v] \notin Third(v) /\ phase'[v] = 3 /\ pc'[v] \notin {"mr", "qp"} /\ wr'[v] = "none"
        /\ buf'[v] = "R"
    BY <1>2, <2>1 DEF Third
  <2> QED BY <2>4, <2>5 DEF ServerBuf
<1>5. ClientBuf'
  BY <1>0, <1>2, PlaceIs, QueueIs, CompletionsAre DEF DataInv, ClientBuf, Awaits, Done, Creating,
    Early, Working, Syncing, Linking,
       Third, Fourth, Fifth, Over, Waits, Polling
<1>6. SeenInv'
  BY <1>0, <1>2, PlaceIs, QueueIs, CompletionsAre DEF DataInv, SeenInv, Creating, Early, Working,
    Syncing, Linking,
       Third, Fourth, Fifth, Over, Waits, Polling
<1> QED BY <1>3, <1>4, <1>5, <1>6 DEF DataInv

LEMMA DataMainShow ==
  ASSUME LocalInv, LocalInv', BytesInv, BytesInv', DataInv, Both => Both',
         Main("client"), pc["client"] = "show"
  PROVE  DataInv'
<1> DEFINE c == "client"
           v == "server"
<1>0. v \in Sides /\ c \in Sides /\ Peer(c) = v /\ Peer(v) = c
  BY DEF Sides, Peer
<1>1. /\ InStep' = InStep /\ Came(v)' <= Came(v) /\ Came(c)' <= Came(c)
      /\ Came(v)' \in Nat /\ Came(c)' \in Nat /\ Came(v) \in Nat /\ Came(c) \in Nat
      /\ Total(2) \in Nat /\ Total(3) \in Nat
  <2>1. Quiet
    BY <1>0, QuietSteps
  <2>2. InStep' = InStep
    BY <2>1 DEF Quiet, InStep
  <2> QED BY <1>0, <2>1, <2>2, CameQuiet, TotalNat, BytesAre, BytesAreNext
<1>2. /\ pc[c] = "show" /\ pc'[c] = "put" /\ phase[c] = 3 /\ phase'[c] = phase[c] /\ wr'[c] = wr[c]
      /\ cq'[c] = cq[c] /\ buf'[c] = buf[c] /\ seen'[c] = Append(seen[c], buf[c]) /\ pc'[v] = pc[v]
      /\ phase'[v] = phase[v] /\ wr'[v] = wr[v] /\ cq'[v] = cq[v] /\ buf'[v] = buf[v]
      /\ seen'[v] = seen[v]
  <2>1. Functions
    BY DEF LocalInv
  <2>2. phase["client"] = 3
    BY <1>0, PlaceIs DEF Third, Fourth, Fifth
  <2> QED BY <1>0, <2>1, <2>2 DEF Main, Go, Functions, verbs
<1>3. LinkInv'
  BY <1>0, <1>2, PlaceIs, QueueIs, CompletionsAre DEF DataInv, LinkInv, Sides, Past, Done,
    Creating, Early, Working, Syncing, Linking,
       Third, Fourth, Fifth, Over, Waits, Polling
<1>4. ServerBuf'
  BY <1>0, <1>1, <1>2, PlaceIs, QueueIs, CompletionsAre DEF DataInv, ServerBuf, Done, Creating,
    Early, Working, Syncing, Linking,
       Third, Fourth, Fifth, Over, Waits, Polling
<1>5. ClientBuf'
  BY <1>0, <1>2, PlaceIs, QueueIs, CompletionsAre DEF DataInv, ClientBuf, Awaits, Done, Creating,
    Early, Working, Syncing, Linking,
       Third, Fourth, Fifth, Over, Waits, Polling
<1>6. SeenInv'
  <2>1. buf[c] = "MSG"
    BY <1>2 DEF DataInv, ClientBuf
  <2>2. seen[c] = <<>>
    BY <1>0, <1>2, PlaceIs DEF DataInv, SeenInv, Creating, Early, Working, Syncing, Linking,
       Third, Fourth, Fifth, Over
  <2>3. Append(<<>>, "MSG") = <<"MSG">>
    OBVIOUS
  <2> QED BY <1>0, <1>2, <2>1, <2>2, <2>3, PlaceIs DEF DataInv, SeenInv, Creating, Early, Working,
    Syncing, Linking,
       Third, Fourth, Fifth, Over
<1> QED BY <1>3, <1>4, <1>5, <1>6 DEF DataInv

LEMMA DataMainEnd ==
  ASSUME LocalInv, LocalInv', BytesInv, BytesInv', DataInv, Both => Both',
         Main("server"), pc["server"] = "show"
  PROVE  DataInv'
<1> DEFINE c == "client"
           v == "server"
<1>0. v \in Sides /\ c \in Sides /\ Peer(c) = v /\ Peer(v) = c
  BY DEF Sides, Peer
<1>1. /\ InStep' = InStep /\ Came(v)' <= Came(v) /\ Came(c)' <= Came(c)
      /\ Came(v)' \in Nat /\ Came(c)' \in Nat /\ Came(v) \in Nat /\ Came(c) \in Nat
      /\ Total(2) \in Nat /\ Total(3) \in Nat
  <2>1. Quiet
    BY <1>0, QuietSteps
  <2>2. InStep' = InStep
    BY <2>1 DEF Quiet, InStep
  <2> QED BY <1>0, <2>1, <2>2, CameQuiet, TotalNat, BytesAre, BytesAreNext
<1>2. /\ pc[v] = "show" /\ pc'[v] = "destroy" /\ phase[v] = 5 /\ phase'[v] = phase[v]
      /\ wr'[v] = wr[v] /\ cq'[v] = cq[v] /\ buf'[v] = buf[v] /\ seen'[v] = Append(seen[v], buf[v])
      /\ pc'[c] = pc[c] /\ phase'[c] = phase[c] /\ wr'[c] = wr[c] /\ cq'[c] = cq[c]
      /\ buf'[c] = buf[c] /\ seen'[c] = seen[c]
  <2>1. Functions
    BY DEF LocalInv
  <2>2. phase["server"] = 5
    BY <1>0, PlaceIs DEF Third, Fourth, Fifth
  <2> QED BY <1>0, <2>1, <2>2 DEF Main, Go, Functions, verbs
<1>3. LinkInv'
  BY <1>0, <1>2, PlaceIs, QueueIs, CompletionsAre DEF DataInv, LinkInv, Sides, Past, Done,
    Creating, Early, Working, Syncing, Linking,
       Third, Fourth, Fifth, Over, Waits, Polling
<1>4. ServerBuf'
  BY <1>0, <1>1, <1>2, PlaceIs, QueueIs, CompletionsAre DEF DataInv, ServerBuf, Done, Creating,
    Early, Working, Syncing, Linking,
       Third, Fourth, Fifth, Over, Waits, Polling
<1>5. ClientBuf'
  BY <1>0, <1>2, PlaceIs, QueueIs, CompletionsAre DEF DataInv, ClientBuf, Awaits, Done, Creating,
    Early, Working, Syncing, Linking,
       Third, Fourth, Fifth, Over, Waits, Polling
<1>6. SeenInv'
  <2>1. buf[v] = "W"
    <3>1. Past(v)
      BY <1>2 DEF Past
    <3>2. InStep
      BY <1>0, <3>1 DEF DataInv, LinkInv, Both, InStep, Sides
    <3>3. Came(v) > Total(3)
      <4>1. nread[v] \in Nat /\ chan[v] \in Nat /\ Total(4) > Total(3) /\ Total(4) \in Nat
        BY <1>0, BytesAre, TotalIs, TotalNat
      <4>2. Came(v) = Total(4) + nread[v] + chan[v]
        BY <1>2 DEF Came
      <4> QED BY <1>1, <4>1, <4>2
    <3> QED BY <3>2, <3>3 DEF DataInv, ServerBuf
  <2>2. seen[v] = <<>>
    BY <1>0, <1>2, PlaceIs DEF DataInv, SeenInv, Creating, Early, Working, Syncing, Linking,
       Third, Fourth, Fifth, Over
  <2>3. Append(<<>>, "W") = <<"W">>
    OBVIOUS
  <2> QED BY <1>0, <1>2, <2>1, <2>2, <2>3, PlaceIs DEF DataInv, SeenInv, Creating, Early, Working,
    Syncing, Linking,
       Third, Fourth, Fifth, Over
<1> QED BY <1>3, <1>4, <1>5, <1>6 DEF DataInv

LEMMA DataMainRead ==
  ASSUME LocalInv, LocalInv', BytesInv, BytesInv', DataInv, Both => Both',
         Main("client"), pc["client"] = "showR"
  PROVE  DataInv'
<1> DEFINE c == "client"
           v == "server"
<1>0. v \in Sides /\ c \in Sides /\ Peer(c) = v /\ Peer(v) = c
  BY DEF Sides, Peer
<1>1. /\ InStep' = InStep /\ Came(v)' <= Came(v) /\ Came(c)' <= Came(c)
      /\ Came(v)' \in Nat /\ Came(c)' \in Nat /\ Came(v) \in Nat /\ Came(c) \in Nat
      /\ Total(2) \in Nat /\ Total(3) \in Nat
  <2>1. Quiet
    BY <1>0, QuietSteps
  <2>2. InStep' = InStep
    BY <2>1 DEF Quiet, InStep
  <2> QED BY <1>0, <2>1, <2>2, CameQuiet, TotalNat, BytesAre, BytesAreNext
<1>2. /\ pc[c] = "showR" /\ pc'[c] = "write" /\ phase[c] = 4 /\ phase'[c] = phase[c]
      /\ wr'[c] = wr[c] /\ cq'[c] = cq[c] /\ buf'[c] = "W" /\ seen'[c] = Append(seen[c], buf[c])
      /\ pc'[v] = pc[v] /\ phase'[v] = phase[v] /\ wr'[v] = wr[v] /\ cq'[v] = cq[v]
      /\ buf'[v] = buf[v] /\ seen'[v] = seen[v]
  <2>1. Functions
    BY DEF LocalInv
  <2>2. phase["client"] = 4
    BY <1>0, PlaceIs DEF Third, Fourth, Fifth
  <2> QED BY <1>0, <2>1, <2>2 DEF Main, Go, Functions, verbs
<1>3. LinkInv'
  BY <1>0, <1>2, PlaceIs, QueueIs, CompletionsAre DEF DataInv, LinkInv, Sides, Past, Done,
    Creating, Early, Working, Syncing, Linking,
       Third, Fourth, Fifth, Over, Waits, Polling
<1>4. ServerBuf'
  BY <1>0, <1>1, <1>2, PlaceIs, QueueIs, CompletionsAre DEF DataInv, ServerBuf, Done, Creating,
    Early, Working, Syncing, Linking,
       Third, Fourth, Fifth, Over, Waits, Polling
<1>5. ClientBuf'
  BY <1>0, <1>2, PlaceIs, QueueIs, CompletionsAre DEF DataInv, ClientBuf, Awaits, Done, Creating,
    Early, Working, Syncing, Linking,
       Third, Fourth, Fifth, Over, Waits, Polling
<1>6. SeenInv'
  <2>1. buf[c] = "R"
    BY <1>2 DEF DataInv, ClientBuf
  <2>2. seen[c] = <<"MSG">>
    BY <1>0, <1>2, PlaceIs DEF DataInv, SeenInv, Creating, Early, Working, Syncing, Linking,
       Third, Fourth, Fifth, Over
  <2>3. Append(<<"MSG">>, "R") = <<"MSG", "R">>
    BY AppendTwo
  <2> QED BY <1>0, <1>2, <2>1, <2>2, <2>3, PlaceIs DEF DataInv, SeenInv, Creating, Early, Working,
    Syncing, Linking,
       Third, Fourth, Fifth, Over
<1> QED BY <1>3, <1>4, <1>5, <1>6 DEF DataInv

(* A client in its fourth phase: the server has sent its third byte.       *)
LEMMA Ahead ==
  ASSUME LocalInv, BytesInv, InStep, phase["client"] >= 4
  PROVE  /\ Came("client") > Total(2)
         /\ phase["server"] >= 4 \/ (phase["server"] = 3 /\ pc["server"] \in {"get"} \cup Over)
<1> DEFINE c == "client"
           v == "server"
<1>0. v \in Sides /\ c \in Sides /\ Peer(c) = v
  BY DEF Sides, Peer
<1>1. /\ phase[c] \in {4, 5} /\ phase[v] \in 1 .. 5 /\ nread[c] \in Nat /\ chan[c] \in Nat
      /\ Came(c) \in Nat /\ Sent(v) \in Nat /\ Came(c) <= Sent(v)
  <2>1. phase[c] \in {4, 5}
    BY <1>0, PlaceIs
  <2> QED BY <1>0, <2>1, BytesAre DEF BytesInv
<1>2. Came(c) >= Total(3)
  <2>1. Came(c) = Total(phase[c] - 1) + nread[c] + chan[c] /\ Total(phase[c] - 1) \in {Total(3), Total(4)}
    BY <1>1 DEF Came
  <2> QED BY <1>1, <2>1, TotalIs, ConSizeAssumption
<1>3. Sent(v) >= Total(3)
  BY <1>1, <1>2, TotalNat
<1>4. Came(c) > Total(2)
  BY <1>1, <1>2, TotalIs, ConSizeAssumption
<1>5. CASE phase[v] # 5 /\ pc[v] \in {"get"} \cup Over
  <2>1. Sent(v) = Total(phase[v])
    BY <1>5 DEF Sent
  <2>2. phase[v] # 1 /\ phase[v] # 2
    BY <1>3, <2>1, TotalIs, ConSizeAssumption
  <2> QED BY <1>1, <1>4, <1>5, <2>2
<1>6. CASE ~ (phase[v] # 5 /\ pc[v] \in {"get"} \cup Over)
  <2>1. Sent(v) = Total(phase[v] - 1)
    BY <1>6 DEF Sent
  <2>2. phase[v] # 1 /\ phase[v] # 2 /\ phase[v] # 3
    BY <1>3, <2>1, TotalIs, ConSizeAssumption
  <2> QED BY <1>1, <1>4, <2>2
<1> QED BY <1>5, <1>6

LEMMA DataPutServer ==
  ASSUME LocalInv, LocalInv', BytesInv, BytesInv', DataInv, Both => Both',
         Put("server")
  PROVE  DataInv'
<1> DEFINE c == "client"
           v == "server"
<1>0. v \in Sides /\ c \in Sides /\ Peer(c) = v /\ Peer(v) = c
  BY DEF Sides, Peer
<1>1. /\ InStep' = InStep /\ Came(v)' = Came(v) /\ (InStep' => Came(c)' <= Total(phase[v]))
      /\ Came(v)' \in Nat /\ Came(c)' \in Nat /\ Came(v) \in Nat /\ Came(c) \in Nat
      /\ Total(2) \in Nat /\ Total(3) \in Nat /\ phase[v] \in {1, 2, 3, 4} /\ pc[v] = "put"
      /\ pc' = [pc EXCEPT ![v] = "get"] /\ phase' = phase /\ verbs' = verbs /\ memory' = memory
  <2>1. /\ pc[v] = "put" /\ pc' = [pc EXCEPT ![v] = "get"] /\ UNCHANGED <<phase, nread, verbs, memory>>
        /\ chan' = chan \/ chan' = [chan EXCEPT ![c] = @ + Size(phase[v])]
        /\ Functions
    BY <1>0 DEF Put, Go, LocalInv
  <2>2. InStep' = InStep
    BY <2>1 DEF InStep, verbs
  <2>3. chan'[v] = chan[v]
    BY <1>0, <2>1 DEF Functions
  <2>4. Came(v)' = Came(v)
    BY <2>1, <2>3 DEF Came
  <2>5. phase[v] \in {1, 2, 3, 4}
    BY <1>0, <2>1, PlaceIs DEF Syncing
  <2>6. InStep' => Came(c)' <= Total(phase[v])
    <3>1. phase'[v] = phase[v] /\ phase'[v] # 5 /\ pc'[v] = "get"
      BY <1>0, <2>1, <2>5 DEF Functions
    <3>2. Sent(v)' = Total(phase[v])
      BY <3>1 DEF Sent
    <3> QED BY <1>0, <3>2 DEF BytesInv
  <2> QED BY <1>0, <2>1, <2>2, <2>4, <2>5, <2>6, TotalNat, BytesAre, BytesAreNext
<1>2. /\ pc[v] = "put" /\ pc'[v] = "get" /\ phase[v] \in {1, 2, 3, 4} /\ phase'[v] = phase[v]
      /\ wr'[v] = wr[v] /\ cq'[v] = cq[v] /\ buf'[v] = buf[v] /\ seen'[v] = seen[v]
      /\ pc'[c] = pc[c] /\ phase'[c] = phase[c] /\ wr'[c] = wr[c] /\ cq'[c] = cq[c]
      /\ buf'[c] = buf[c] /\ seen'[c] = seen[c]
  BY <1>0, <1>1 DEF LocalInv, Functions, verbs, memory
<1>3. LinkInv'
  BY <1>0, <1>2, PlaceIs, QueueIs, CompletionsAre DEF DataInv, LinkInv, Sides, Past, Done,
    Creating, Early, Working, Syncing, Linking,
       Third, Fourth, Fifth, Over, Waits, Polling
<1>4. ServerBuf'
  <2>1. InStep' /\ Came(c)' > Total(2) => phase[v] >= 3
    <3>1. Total(1) <= Total(2) /\ Total(2) <= Total(2) /\ Total(2) <= Total(2) /\ Total(1) \in Nat
      BY TotalIs, ConSizeAssumption
    <3> QED BY <1>1, <3>1
  <2>2. Done(c)' = Done(c)
    BY <1>2 DEF Done
  <2> QED BY <1>0, <1>1, <1>2, <2>1, <2>2, PlaceIs DEF DataInv, ServerBuf, Creating, Early,
    Working, Syncing, Linking,
       Third, Fourth, Fifth, Over
<1>5. ClientBuf'
  BY <1>0, <1>2, PlaceIs, QueueIs, CompletionsAre DEF DataInv, ClientBuf, Awaits, Done, Creating,
    Early, Working, Syncing, Linking,
       Third, Fourth, Fifth, Over, Waits, Polling
<1>6. SeenInv'
  BY <1>0, <1>2, PlaceIs, QueueIs, CompletionsAre DEF DataInv, SeenInv, Creating, Early, Working,
    Syncing, Linking,
       Third, Fourth, Fifth, Over, Waits, Polling
<1> QED BY <1>3, <1>4, <1>5, <1>6 DEF DataInv

LEMMA DataPutClient ==
  ASSUME LocalInv, LocalInv', BytesInv, BytesInv', DataInv, Both => Both',
         Put("client")
  PROVE  DataInv'
<1> DEFINE c == "client"
           v == "server"
<1>0. v \in Sides /\ c \in Sides /\ Peer(c) = v /\ Peer(v) = c
  BY DEF Sides, Peer
<1>1. /\ InStep' = InStep /\ Came(c)' = Came(c) /\ (InStep' => Came(v)' <= Total(phase[c]))
      /\ Came(v)' \in Nat /\ Came(c)' \in Nat /\ Came(v) \in Nat /\ Came(c) \in Nat
      /\ Total(2) \in Nat /\ Total(3) \in Nat /\ phase[c] \in {1, 2, 3, 4} /\ pc[c] = "put"
      /\ pc' = [pc EXCEPT ![c] = "get"] /\ phase' = phase /\ verbs' = verbs /\ memory' = memory
  <2>1. /\ pc[c] = "put" /\ pc' = [pc EXCEPT ![c] = "get"] /\ UNCHANGED <<phase, nread, verbs, memory>>
        /\ chan' = chan \/ chan' = [chan EXCEPT ![v] = @ + Size(phase[c])]
        /\ Functions
    BY <1>0 DEF Put, Go, LocalInv
  <2>2. InStep' = InStep
    BY <2>1 DEF InStep, verbs
  <2>3. chan'[c] = chan[c]
    BY <1>0, <2>1 DEF Functions
  <2>4. Came(c)' = Came(c)
    BY <2>1, <2>3 DEF Came
  <2>5. phase[c] \in {1, 2, 3, 4}
    BY <1>0, <2>1, PlaceIs DEF Syncing
  <2>6. InStep' => Came(v)' <= Total(phase[c])
    <3>1. phase'[c] = phase[c] /\ phase'[c] # 5 /\ pc'[c] = "get"
      BY <1>0, <2>1, <2>5 DEF Functions
    <3>2. Sent(c)' = Total(phase[c])
      BY <3>1 DEF Sent
    <3> QED BY <1>0, <3>2 DEF BytesInv
  <2> QED BY <1>0, <2>1, <2>2, <2>4, <2>5, <2>6, TotalNat, BytesAre, BytesAreNext
<1>2. /\ pc[c] = "put" /\ pc'[c] = "get" /\ phase[c] \in {1, 2, 3, 4} /\ phase'[c] = phase[c]
      /\ wr'[c] = wr[c] /\ cq'[c] = cq[c] /\ buf'[c] = buf[c] /\ seen'[c] = seen[c]
      /\ pc'[v] = pc[v] /\ phase'[v] = phase[v] /\ wr'[v] = wr[v] /\ cq'[v] = cq[v]
      /\ buf'[v] = buf[v] /\ seen'[v] = seen[v]
  BY <1>0, <1>1 DEF LocalInv, Functions, verbs, memory
<1>3. LinkInv'
  BY <1>0, <1>2, PlaceIs, QueueIs, CompletionsAre DEF DataInv, LinkInv, Sides, Past, Done,
    Creating, Early, Working, Syncing, Linking,
       Third, Fourth, Fifth, Over, Waits, Polling
<1>4. ServerBuf'
  <2>1. InStep' /\ Came(v)' > Total(3) => phase[c] = 4
    <3>1. Total(1) <= Total(3) /\ Total(2) <= Total(3) /\ Total(3) <= Total(3) /\ Total(1) \in Nat
      BY TotalIs, ConSizeAssumption
    <3> QED BY <1>1, <3>1
  <2>2. Done(c)' = Done(c)
    BY <1>2 DEF Done
  <2> QED BY <1>0, <1>1, <1>2, <2>1, <2>2, PlaceIs DEF DataInv, ServerBuf, Creating, Early,
    Working, Syncing, Linking,
       Third, Fourth, Fifth, Over
<1>5. ClientBuf'
  BY <1>0, <1>2, PlaceIs, QueueIs, CompletionsAre DEF DataInv, ClientBuf, Awaits, Done, Creating,
    Early, Working, Syncing, Linking,
       Third, Fourth, Fifth, Over, Waits, Polling
<1>6. SeenInv'
  BY <1>0, <1>2, PlaceIs, QueueIs, CompletionsAre DEF DataInv, SeenInv, Creating, Early, Working,
    Syncing, Linking,
       Third, Fourth, Fifth, Over, Waits, Polling
<1> QED BY <1>3, <1>4, <1>5, <1>6 DEF DataInv

LEMMA DataShortWriteServer ==
  ASSUME LocalInv, LocalInv', BytesInv, BytesInv', DataInv, Both => Both',
         ShortWrite("server")
  PROVE  DataInv'
<1> DEFINE c == "client"
           v == "server"
<1>0. v \in Sides /\ c \in Sides /\ Peer(c) = v /\ Peer(v) = c
  BY DEF Sides, Peer
<1>1. ~ InStep'
  BY <1>0 DEF LocalInv, Functions, ShortWrite, InStep
<1>2. /\ pc[v] = "put" /\ pc'[v] = "init" /\ phase[v] = 1 /\ phase'[v] = 2 /\ wr'[v] = wr[v]
      /\ cq'[v] = cq[v] /\ buf'[v] = buf[v] /\ seen'[v] = seen[v] /\ pc'[c] = pc[c]
      /\ phase'[c] = phase[c] /\ wr'[c] = wr[c] /\ cq'[c] = cq[c] /\ buf'[c] = buf[c]
      /\ seen'[c] = seen[c]
  BY <1>0 DEF LocalInv, Functions, ShortWrite, Go, memory
<1>3. LinkInv'
  BY <1>0, <1>2, PlaceIs, QueueIs, CompletionsAre DEF DataInv, LinkInv, Sides, Past, Done,
    Creating, Early, Working, Syncing, Linking,
       Third, Fourth, Fifth, Over, Waits, Polling
<1>4. ServerBuf'
  BY <1>0, <1>1, <1>2, PlaceIs, QueueIs, CompletionsAre DEF DataInv, ServerBuf, Done, Creating,
    Early, Working, Syncing, Linking,
       Third, Fourth, Fifth, Over, Waits, Polling
<1>5. ClientBuf'
  BY <1>0, <1>2, PlaceIs, QueueIs, CompletionsAre DEF DataInv, ClientBuf, Awaits, Done, Creating,
    Early, Working, Syncing, Linking,
       Third, Fourth, Fifth, Over, Waits, Polling
<1>6. SeenInv'
  BY <1>0, <1>2, PlaceIs, QueueIs, CompletionsAre DEF DataInv, SeenInv, Creating, Early, Working,
    Syncing, Linking,
       Third, Fourth, Fifth, Over, Waits, Polling
<1> QED BY <1>3, <1>4, <1>5, <1>6 DEF DataInv

LEMMA DataShortWriteClient ==
  ASSUME LocalInv, LocalInv', BytesInv, BytesInv', DataInv, Both => Both',
         ShortWrite("client")
  PROVE  DataInv'
<1> DEFINE c == "client"
           v == "server"
<1>0. v \in Sides /\ c \in Sides /\ Peer(c) = v /\ Peer(v) = c
  BY DEF Sides, Peer
<1>1. ~ InStep'
  BY <1>0 DEF LocalInv, Functions, ShortWrite, InStep
<1>2. /\ pc[c] = "put" /\ pc'[c] = "init" /\ phase[c] = 1 /\ phase'[c] = 2 /\ wr'[c] = wr[c]
      /\ cq'[c] = cq[c] /\ buf'[c] = buf[c] /\ seen'[c] = seen[c] /\ pc'[v] = pc[v]
      /\ phase'[v] = phase[v] /\ wr'[v] = wr[v] /\ cq'[v] = cq[v] /\ buf'[v] = buf[v]
      /\ seen'[v] = seen[v]
  BY <1>0 DEF LocalInv, Functions, ShortWrite, Go, memory
<1>3. LinkInv'
  BY <1>0, <1>2, PlaceIs, QueueIs, CompletionsAre DEF DataInv, LinkInv, Sides, Past, Done,
    Creating, Early, Working, Syncing, Linking,
       Third, Fourth, Fifth, Over, Waits, Polling
<1>4. ServerBuf'
  BY <1>0, <1>1, <1>2, PlaceIs, QueueIs, CompletionsAre DEF DataInv, ServerBuf, Done, Creating,
    Early, Working, Syncing, Linking,
       Third, Fourth, Fifth, Over, Waits, Polling
<1>5. ClientBuf'
  BY <1>0, <1>2, PlaceIs, QueueIs, CompletionsAre DEF DataInv, ClientBuf, Awaits, Done, Creating,
    Early, Working, Syncing, Linking,
       Third, Fourth, Fifth, Over, Waits, Polling
<1>6. SeenInv'
  BY <1>0, <1>2, PlaceIs, QueueIs, CompletionsAre DEF DataInv, SeenInv, Creating, Early, Working,
    Syncing, Linking,
       Third, Fourth, Fifth, Over, Waits, Polling
<1> QED BY <1>3, <1>4, <1>5, <1>6 DEF DataInv

LEMMA DataGetServer ==
  ASSUME LocalInv, LocalInv', BytesInv, BytesInv', DataInv, Both => Both',
         Get("server")
  PROVE  DataInv'
<1> DEFINE c == "client"
           v == "server"
<1>0. v \in Sides /\ c \in Sides /\ Peer(c) = v /\ Peer(v) = c
  BY DEF Sides, Peer
<1>1. /\ InStep' = InStep /\ Came(v)' <= Came(v) /\ Came(c)' <= Came(c)
      /\ Came(v)' \in Nat /\ Came(c)' \in Nat /\ Came(v) \in Nat /\ Came(c) \in Nat
      /\ Total(2) \in Nat /\ Total(3) \in Nat
  BY <1>0, BytesGet, TotalNat, BytesAre, BytesAreNext
<1>2. /\ pc[v] = "get"
      /\ \/ phase'[v] = phase[v] /\ pc'[v] = "get"
         \/ phase[v] = 1 /\ phase'[v] = 2 /\ pc'[v] = "init"
         \/ phase[v] = 2 /\ phase'[v] = 3 /\ pc'[v] = "send"
         \/ phase[v] = 3 /\ phase'[v] = 4 /\ pc'[v] = "put"
         \/ phase[v] = 4 /\ phase'[v] = 5 /\ pc'[v] = "show"
      /\ wr'[v] = wr[v] /\ cq'[v] = cq[v] /\ buf'[v] = buf[v] /\ seen'[v] = seen[v]
      /\ pc'[c] = pc[c] /\ phase'[c] = phase[c] /\ wr'[c] = wr[c] /\ cq'[c] = cq[c]
      /\ buf'[c] = buf[c] /\ seen'[c] = seen[c]
  <2>1. Functions
    BY DEF LocalInv
  <2>2. PICK n \in Nat : GetWith(v, n)
    BY <1>0, <2>1, GetIs
  <2>3. pc[v] = "get" /\ phase[v] \in {1, 2, 3, 4}
    BY <1>0, <2>2, PlaceIs DEF GetWith, Syncing
  <2>4. UNCHANGED <<wr, cq, memory>>
    BY <2>2 DEF GetWith
  <2>5. \/ pc' = pc /\ phase' = phase
        \/ pc' = [pc EXCEPT ![v] = After(v, phase[v])] /\ phase' = [phase EXCEPT ![v] = @ + 1]
    BY <2>2 DEF GetWith, Synced, Go, prog
  <2>6. pc'[c] = pc[c] /\ phase'[c] = phase[c]
    BY <1>0, <2>1, <2>5 DEF Functions
  <2>7. \/ phase'[v] = phase[v] /\ pc'[v] = pc[v]
        \/ phase'[v] = phase[v] + 1 /\ pc'[v] = After(v, phase[v])
    BY <1>0, <2>1, <2>5 DEF Functions
  <2>8. /\ After(v, 1) = "init" /\ After(v, 2) = "send" /\ After(v, 3) = "put" /\ After(v, 4) = "show"
    BY DEF After
  <2> QED BY <2>3, <2>4, <2>6, <2>7, <2>8 DEF memory
<1>3. LinkInv'
  BY <1>0, <1>2, PlaceIs, QueueIs, CompletionsAre DEF DataInv, LinkInv, Sides, Past, Done,
    Creating, Early, Working, Syncing, Linking,
       Third, Fourth, Fifth, Over, Waits, Polling
<1>4. ServerBuf'
  BY <1>0, <1>1, <1>2, PlaceIs, QueueIs, CompletionsAre DEF DataInv, ServerBuf, Done, Creating,
    Early, Working, Syncing, Linking,
       Third, Fourth, Fifth, Over, Waits, Polling
<1>5. ClientBuf'
  BY <1>0, <1>2, PlaceIs, QueueIs, CompletionsAre DEF DataInv, ClientBuf, Awaits, Done, Creating,
    Early, Working, Syncing, Linking,
       Third, Fourth, Fifth, Over, Waits, Polling
<1>6. SeenInv'
  BY <1>0, <1>2, PlaceIs, QueueIs, CompletionsAre DEF DataInv, SeenInv, Creating, Early, Working,
    Syncing, Linking,
       Third, Fourth, Fifth, Over, Waits, Polling
<1> QED BY <1>3, <1>4, <1>5, <1>6 DEF DataInv

LEMMA DataGetClient ==
  ASSUME LocalInv, LocalInv', BytesInv, BytesInv', DataInv, Both => Both',
         Get("client")
  PROVE  DataInv'
<1> DEFINE c == "client"
           v == "server"
<1>0. v \in Sides /\ c \in Sides /\ Peer(c) = v /\ Peer(v) = c
  BY DEF Sides, Peer
<1>1. /\ InStep' = InStep /\ Came(v)' <= Came(v) /\ Came(c)' <= Came(c)
      /\ Came(v)' \in Nat /\ Came(c)' \in Nat /\ Came(v) \in Nat /\ Came(c) \in Nat
      /\ Total(2) \in Nat /\ Total(3) \in Nat
  BY <1>0, BytesGet, TotalNat, BytesAre, BytesAreNext
<1>2. /\ pc[c] = "get"
      /\ \/ phase'[c] = phase[c] /\ pc'[c] = "get"
         \/ phase[c] = 1 /\ phase'[c] = 2 /\ pc'[c] = "init"
         \/ phase[c] = 2 /\ phase'[c] = 3 /\ pc'[c] = "poll"
         \/ phase[c] = 3 /\ phase'[c] = 4 /\ pc'[c] = "read"
         \/ phase[c] = 4 /\ phase'[c] = 5 /\ pc'[c] = "destroy"
      /\ wr'[c] = wr[c] /\ cq'[c] = cq[c] /\ buf'[c] = buf[c] /\ seen'[c] = seen[c]
      /\ pc'[v] = pc[v] /\ phase'[v] = phase[v] /\ wr'[v] = wr[v] /\ cq'[v] = cq[v]
      /\ buf'[v] = buf[v] /\ seen'[v] = seen[v]
  <2>1. Functions
    BY DEF LocalInv
  <2>2. PICK n \in Nat : GetWith(c, n)
    BY <1>0, <2>1, GetIs
  <2>3. pc[c] = "get" /\ phase[c] \in {1, 2, 3, 4}
    BY <1>0, <2>2, PlaceIs DEF GetWith, Syncing
  <2>4. UNCHANGED <<wr, cq, memory>>
    BY <2>2 DEF GetWith
  <2>5. \/ pc' = pc /\ phase' = phase
        \/ pc' = [pc EXCEPT ![c] = After(c, phase[c])] /\ phase' = [phase EXCEPT ![c] = @ + 1]
    BY <2>2 DEF GetWith, Synced, Go, prog
  <2>6. pc'[v] = pc[v] /\ phase'[v] = phase[v]
    BY <1>0, <2>1, <2>5 DEF Functions
  <2>7. \/ phase'[c] = phase[c] /\ pc'[c] = pc[c]
        \/ phase'[c] = phase[c] + 1 /\ pc'[c] = After(c, phase[c])
    BY <1>0, <2>1, <2>5 DEF Functions
  <2>8. /\ After(c, 1) = "init" /\ After(c, 2) = "poll" /\ After(c, 3) = "read" /\ After(c, 4) = "destroy"
    BY DEF After
  <2> QED BY <2>3, <2>4, <2>6, <2>7, <2>8 DEF memory
<1>3. LinkInv'
  BY <1>0, <1>2, PlaceIs, QueueIs, CompletionsAre DEF DataInv, LinkInv, Sides, Past, Done,
    Creating, Early, Working, Syncing, Linking,
       Third, Fourth, Fifth, Over, Waits, Polling
<1>4. ServerBuf'
  BY <1>0, <1>1, <1>2, PlaceIs, QueueIs, CompletionsAre DEF DataInv, ServerBuf, Done, Creating,
    Early, Working, Syncing, Linking,
       Third, Fourth, Fifth, Over, Waits, Polling
<1>5. ClientBuf'
  BY <1>0, <1>2, PlaceIs, QueueIs, CompletionsAre DEF DataInv, ClientBuf, Awaits, Done, Creating,
    Early, Working, Syncing, Linking,
       Third, Fourth, Fifth, Over, Waits, Polling
<1>6. SeenInv'
  BY <1>0, <1>2, PlaceIs, QueueIs, CompletionsAre DEF DataInv, SeenInv, Creating, Early, Working,
    Syncing, Linking,
       Third, Fourth, Fifth, Over, Waits, Polling
<1> QED BY <1>3, <1>4, <1>5, <1>6 DEF DataInv

LEMMA DataDeliverSend ==
  ASSUME LocalInv, LocalInv', BytesInv, BytesInv', DataInv, Both => Both',
         Deliver("server"), wr["server"] = "SEND"
  PROVE  DataInv'
<1> DEFINE c == "client"
           v == "server"
<1>0. v \in Sides /\ c \in Sides /\ Peer(c) = v /\ Peer(v) = c
  BY DEF Sides, Peer
<1>1. /\ InStep' = InStep /\ Came(v)' <= Came(v) /\ Came(c)' <= Came(c)
      /\ Came(v)' \in Nat /\ Came(c)' \in Nat /\ Came(v) \in Nat /\ Came(c) \in Nat
      /\ Total(2) \in Nat /\ Total(3) \in Nat
  <2>1. Quiet
    BY <1>0, QuietSteps
  <2>2. InStep' = InStep
    BY <2>1 DEF Quiet, InStep
  <2> QED BY <1>0, <2>1, <2>2, CameQuiet, TotalNat, BytesAre, BytesAreNext
<1>2. /\ pc'[v] = pc[v] /\ phase'[v] = phase[v] /\ wr[v] = "SEND" /\ wr'[v] = "landed"
      /\ cq'[v] = cq[v] /\ buf'[v] = buf[v] /\ seen'[v] = seen[v] /\ pc'[c] = pc[c]
      /\ phase'[c] = phase[c] /\ wr'[c] = wr[c] /\ (pc[c] \in Over \/ Awaits(c))
      /\ buf'[c] = buf[v] /\ Both /\ wr[c] = "none" /\ rr[c] # 0 /\ cq[c] = <<>> /\ cq'[c] \in {<<>>, <<"ok">>}
      /\ seen'[c] = seen[c]
  <2>1. Functions
    BY DEF LocalInv
  <2>2. /\ rr[c] > 0 /\ buf' = [buf EXCEPT ![c] = buf[v]] /\ wr' = [wr EXCEPT ![v] = "landed"]
        /\ cq' = Complete(c, "ok") /\ Both /\ UNCHANGED <<prog, seen>>
    BY <1>0 DEF Deliver, Reach, Both
  <2>3. rr[c] # 0 /\ cq[c] = <<>> /\ wr[c] = "none"
    BY <1>0, <2>2, QueueIs
  <2>4. cq'[v] = cq[v] /\ cq'[c] \in {<<>>, <<"ok">>}
    BY <1>0, <2>1, <2>2, <2>3, AppendIs DEF Complete, Functions
  <2>5. pc[c] \in Over \/ Awaits(c)
    <3>1. pc[c] \in Over \/ Waits(c)
      BY <1>0, <2>3, PlaceIs, QueueIs
    <3>2. pc[c] # "pollR" /\ pc[c] # "pollW"
      BY <1>0, <2>3 DEF LocalInv, SideInv, QueueOf
    <3> QED BY <3>1, <3>2 DEF Waits, Awaits, Polling
  <2> QED BY <1>0, <2>1, <2>2, <2>3, <2>4, <2>5 DEF Functions, prog
<1>3. LinkInv'
  BY <1>0, <1>2, PlaceIs, QueueIs, CompletionsAre DEF DataInv, LinkInv, Sides, Past, Done,
    Creating, Early, Working, Syncing, Linking,
       Third, Fourth, Fifth, Over, Waits, Polling
<1>4. ServerBuf'
  <2>1. pc[c] # "pollW"
    BY <1>2 DEF Awaits, Syncing, Over
  <2> QED BY <1>1, <1>2, <2>1 DEF DataInv, ServerBuf
<1>5. ClientBuf'
  <2>1. pc[c] \notin {"pollR", "showR", "write"}
    BY <1>2 DEF Awaits, Syncing, Over
  <2>2. buf'[c] = "MSG"
    BY <1>2 DEF DataInv, ServerBuf
  <2> QED BY <1>2, <2>1, <2>2 DEF ClientBuf
<1>6. SeenInv'
  BY <1>0, <1>2, PlaceIs, QueueIs, CompletionsAre DEF DataInv, SeenInv, Creating, Early, Working,
    Syncing, Linking,
       Third, Fourth, Fifth, Over, Waits, Polling
<1> QED BY <1>3, <1>4, <1>5, <1>6 DEF DataInv

LEMMA DataDeliverWrite ==
  ASSUME LocalInv, LocalInv', BytesInv, BytesInv', DataInv, Both => Both',
         Deliver("client"), wr["client"] = "WRITE"
  PROVE  DataInv'
<1> DEFINE c == "client"
           v == "server"
<1>0. v \in Sides /\ c \in Sides /\ Peer(c) = v /\ Peer(v) = c
  BY DEF Sides, Peer
<1>1. /\ InStep' = InStep /\ Came(v)' <= Came(v) /\ Came(c)' <= Came(c)
      /\ Came(v)' \in Nat /\ Came(c)' \in Nat /\ Came(v) \in Nat /\ Came(c) \in Nat
      /\ Total(2) \in Nat /\ Total(3) \in Nat
  <2>1. Quiet
    BY <1>0, QuietSteps
  <2>2. InStep' = InStep
    BY <2>1 DEF Quiet, InStep
  <2> QED BY <1>0, <2>1, <2>2, CameQuiet, TotalNat, BytesAre, BytesAreNext
<1>2. /\ pc'[c] = pc[c] /\ phase'[c] = phase[c] /\ wr[c] = "WRITE" /\ wr'[c] = "landed" /\ Both
      /\ cq'[c] = cq[c] /\ buf'[c] = buf[c] /\ seen'[c] = seen[c] /\ pc'[v] = pc[v]
      /\ phase'[v] = phase[v] /\ wr'[v] = wr[v] /\ cq'[v] = cq[v] /\ buf'[v] = "W"
      /\ seen'[v] = seen[v]
  <2>1. Functions
    BY DEF LocalInv
  <2>2. /\ buf' = [buf EXCEPT ![v] = buf[c]] /\ wr' = [wr EXCEPT ![c] = "landed"]
        /\ Both /\ UNCHANGED <<prog, seen, cq>>
    BY <1>0 DEF Deliver, Reach, Both
  <2>3. buf[c] = "W"
    BY DEF DataInv, ClientBuf
  <2> QED BY <1>0, <2>1, <2>2, <2>3 DEF Functions, prog
<1>3. LinkInv'
  BY <1>0, <1>2, PlaceIs, QueueIs, CompletionsAre DEF DataInv, LinkInv, Sides, Past, Done,
    Creating, Early, Working, Syncing, Linking,
       Third, Fourth, Fifth, Over, Waits, Polling
<1>4. ServerBuf'
  <2>1. phase[c] >= 4 /\ InStep
    BY <1>0, <1>2 DEF DataInv, ClientBuf, Both, InStep, Sides
  <2>2. Came(c) > Total(2) /\ (phase[v] >= 4 \/ (phase[v] = 3 /\ pc[v] \in {"get"} \cup Over))
    BY <2>1, Ahead
  <2>3. /\ wr'[v] # "SEND" /\ pc'[v] \notin {"mr", "qp"} /\ pc'[v] \notin Third(v)
        /\ ~ (phase'[v] <= 2)
    <3>1. wr[v] # "SEND"
      BY <2>1, <2>2 DEF DataInv, ServerBuf
    <3>2. phase[v] \in {3, 4, 5}
      BY <1>0, <2>2, PlaceIs
    <3>3. pc[v] \notin {"mr", "qp"}
      BY <1>0, <3>2, PlaceIs DEF Early, Creating
    <3>4. pc[v] \notin Third(v)
      BY <1>0, <2>2, PlaceIs DEF Third, Over
    <3> QED BY <1>2, <3>1, <3>2, <3>3, <3>4
  <2>4. pc[c] = "pollW" \/ pc[c] \in Over
    <3>1. pc[c] \in Over \/ Waits(c)
      BY <1>0, <1>2, PlaceIs, QueueIs
    <3>2. ~ Awaits(c) /\ pc[c] # "pollR"
      BY <1>0, <1>2 DEF LocalInv, SideInv, QueueOf
    <3> QED BY <3>1, <3>2 DEF Waits, Awaits, Polling
  <2> QED BY <1>2, <2>3, <2>4 DEF ServerBuf
<1>5. ClientBuf'
  BY <1>0, <1>2, PlaceIs, QueueIs, CompletionsAre DEF DataInv, ClientBuf, Awaits, Done, Creating,
    Early, Working, Syncing, Linking,
       Third, Fourth, Fifth, Over, Waits, Polling
<1>6. SeenInv'
  BY <1>0, <1>2, PlaceIs, QueueIs, CompletionsAre DEF DataInv, SeenInv, Creating, Early, Working,
    Syncing, Linking,
       Third, Fourth, Fifth, Over, Waits, Polling
<1> QED BY <1>3, <1>4, <1>5, <1>6 DEF DataInv

LEMMA DataDeliverRead ==
  ASSUME LocalInv, LocalInv', BytesInv, BytesInv', DataInv, Both => Both',
         Deliver("client"), wr["client"] = "READ"
  PROVE  DataInv'
<1> DEFINE c == "client"
           v == "server"
<1>0. v \in Sides /\ c \in Sides /\ Peer(c) = v /\ Peer(v) = c
  BY DEF Sides, Peer
<1>1. /\ InStep' = InStep /\ Came(v)' <= Came(v) /\ Came(c)' <= Came(c)
      /\ Came(v)' \in Nat /\ Came(c)' \in Nat /\ Came(v) \in Nat /\ Came(c) \in Nat
      /\ Total(2) \in Nat /\ Total(3) \in Nat
  <2>1. Quiet
    BY <1>0, QuietSteps
  <2>2. InStep' = InStep
    BY <2>1 DEF Quiet, InStep
  <2> QED BY <1>0, <2>1, <2>2, CameQuiet, TotalNat, BytesAre, BytesAreNext
<1>2. /\ pc'[c] = pc[c] /\ phase'[c] = phase[c]
      /\ wr[c] = "READ" /\ wr'[c] = "none" /\ Both /\ (pc[c] = "pollR" \/ pc[c] \in Over) /\ ~ Awaits(c)
      /\ cq'[c] = <<"ok">> /\ buf'[c] = "R" /\ seen'[c] = seen[c] /\ pc'[v] = pc[v]
      /\ phase'[v] = phase[v] /\ wr'[v] = wr[v] /\ cq'[v] = cq[v] /\ buf'[v] = buf[v]
      /\ seen'[v] = seen[v]
  <2>1. Functions
    BY DEF LocalInv
  <2>2. /\ buf' = [buf EXCEPT ![c] = buf[v]] /\ wr' = [wr EXCEPT ![c] = "none"] /\ Able(c)
        /\ cq' = Complete(c, "ok") /\ Both /\ UNCHANGED <<prog, seen>>
    BY <1>0 DEF Deliver, Reach, Both
  <2>3. cq[c] = <<>>
    BY <1>0, QueueIs
  <2>4. cq'[v] = cq[v] /\ cq'[c] = <<"ok">>
    BY <1>0, <2>1, <2>2, <2>3, AppendIs DEF Complete, Functions
  <2>5. buf[v] = "R"
    <3>1. phase[c] >= 4 /\ InStep
      BY <2>2 DEF DataInv, ClientBuf, Both, InStep, Sides
    <3>2. Came(c) > Total(2)
      BY <3>1, Ahead
    <3> QED BY <3>1, <3>2 DEF DataInv, ServerBuf
  <2>6. (pc[c] = "pollR" \/ pc[c] \in Over) /\ ~ Awaits(c)
    <3>1. pc[c] \in Over \/ Waits(c)
      BY <1>0, PlaceIs, QueueIs
    <3>2. ~ Awaits(c) /\ pc[c] # "pollW"
      BY <1>0 DEF LocalInv, SideInv, QueueOf
    <3> QED BY <3>1, <3>2 DEF Waits, Awaits, Polling
  <2> QED BY <1>0, <2>1, <2>2, <2>4, <2>5, <2>6 DEF Functions, prog
<1>3. LinkInv'
  BY <1>0, <1>2, PlaceIs, QueueIs, CompletionsAre DEF DataInv, LinkInv, Sides, Past, Done,
    Creating, Early, Working, Syncing, Linking,
       Third, Fourth, Fifth, Over, Waits, Polling
<1>4. ServerBuf'
  BY <1>0, <1>1, <1>2, PlaceIs, QueueIs, CompletionsAre DEF DataInv, ServerBuf, Done, Creating,
    Early, Working, Syncing, Linking,
       Third, Fourth, Fifth, Over, Waits, Polling
<1>5. ClientBuf'
  BY <1>0, <1>2, PlaceIs, QueueIs, CompletionsAre DEF DataInv, ClientBuf, Awaits, Done, Creating,
    Early, Working, Syncing, Linking,
       Third, Fourth, Fifth, Over, Waits, Polling
<1>6. SeenInv'
  BY <1>0, <1>2, PlaceIs, QueueIs, CompletionsAre DEF DataInv, SeenInv, Creating, Early, Working,
    Syncing, Linking,
       Third, Fourth, Fifth, Over, Waits, Polling
<1> QED BY <1>3, <1>4, <1>5, <1>6 DEF DataInv

LEMMA DataAcknowledgeServer ==
  ASSUME LocalInv, LocalInv', BytesInv, BytesInv', DataInv, Both => Both',
         Acknowledge("server")
  PROVE  DataInv'
<1> DEFINE c == "client"
           v == "server"
<1>0. v \in Sides /\ c \in Sides /\ Peer(c) = v /\ Peer(v) = c
  BY DEF Sides, Peer
<1>1. /\ InStep' = InStep /\ Came(v)' <= Came(v) /\ Came(c)' <= Came(c)
      /\ Came(v)' \in Nat /\ Came(c)' \in Nat /\ Came(v) \in Nat /\ Came(c) \in Nat
      /\ Total(2) \in Nat /\ Total(3) \in Nat
  <2>1. Quiet
    BY <1>0, QuietSteps
  <2>2. InStep' = InStep
    BY <2>1 DEF Quiet, InStep
  <2> QED BY <1>0, <2>1, <2>2, CameQuiet, TotalNat, BytesAre, BytesAreNext
<1>2. /\ pc'[v] = pc[v] /\ phase'[v] = phase[v] /\ wr[v] = "landed" /\ wr'[v] = "none" /\ Both
      /\ cq[v] = <<>> /\ cq'[v] \in {<<>>, <<"ok">>} /\ buf'[v] = buf[v] /\ seen'[v] = seen[v]
      /\ pc'[c] = pc[c] /\ phase'[c] = phase[c] /\ wr'[c] = wr[c] /\ cq'[c] = cq[c]
      /\ buf'[c] = buf[c] /\ seen'[c] = seen[c]
  <2>1. Functions
    BY DEF LocalInv
  <2>2. /\ wr[v] = "landed" /\ wr' = [wr EXCEPT ![v] = "none"] /\ cq' = Complete(v, "ok")
        /\ UNCHANGED <<prog, memory>>
    BY DEF Acknowledge
  <2>3. cq[v] = <<>>
    BY <1>0, <2>2, QueueIs
  <2>4. cq'[c] = cq[c] /\ cq'[v] \in {<<>>, <<"ok">>}
    BY <1>0, <2>1, <2>2, <2>3, AppendIs DEF Complete, Functions
  <2>5. Both
    BY <1>0, <2>2 DEF DataInv, LinkInv
  <2>6. (~ Awaits(c) /\ pc[c] # "pollR") \/ v = v
    BY <1>0, <2>2 DEF LocalInv, SideInv, QueueOf
  <2> QED BY <1>0, <2>1, <2>2, <2>3, <2>4, <2>5, <2>6 DEF Functions, prog, memory
<1>3. LinkInv'
  BY <1>0, <1>2, PlaceIs, QueueIs, CompletionsAre DEF DataInv, LinkInv, Sides, Past, Done,
    Creating, Early, Working, Syncing, Linking,
       Third, Fourth, Fifth, Over, Waits, Polling
<1>4. ServerBuf'
  BY <1>0, <1>1, <1>2, PlaceIs, QueueIs, CompletionsAre DEF DataInv, ServerBuf, Done, Creating,
    Early, Working, Syncing, Linking,
       Third, Fourth, Fifth, Over, Waits, Polling
<1>5. ClientBuf'
  BY <1>0, <1>2, PlaceIs, QueueIs, CompletionsAre DEF DataInv, ClientBuf, Awaits, Done, Creating,
    Early, Working, Syncing, Linking,
       Third, Fourth, Fifth, Over, Waits, Polling
<1>6. SeenInv'
  BY <1>0, <1>2, PlaceIs, QueueIs, CompletionsAre DEF DataInv, SeenInv, Creating, Early, Working,
    Syncing, Linking,
       Third, Fourth, Fifth, Over, Waits, Polling
<1> QED BY <1>3, <1>4, <1>5, <1>6 DEF DataInv

LEMMA DataAcknowledgeClient ==
  ASSUME LocalInv, LocalInv', BytesInv, BytesInv', DataInv, Both => Both',
         Acknowledge("client")
  PROVE  DataInv'
<1> DEFINE c == "client"
           v == "server"
<1>0. v \in Sides /\ c \in Sides /\ Peer(c) = v /\ Peer(v) = c
  BY DEF Sides, Peer
<1>1. /\ InStep' = InStep /\ Came(v)' <= Came(v) /\ Came(c)' <= Came(c)
      /\ Came(v)' \in Nat /\ Came(c)' \in Nat /\ Came(v) \in Nat /\ Came(c) \in Nat
      /\ Total(2) \in Nat /\ Total(3) \in Nat
  <2>1. Quiet
    BY <1>0, QuietSteps
  <2>2. InStep' = InStep
    BY <2>1 DEF Quiet, InStep
  <2> QED BY <1>0, <2>1, <2>2, CameQuiet, TotalNat, BytesAre, BytesAreNext
<1>2. /\ pc'[c] = pc[c] /\ phase'[c] = phase[c]
      /\ wr[c] = "landed" /\ wr'[c] = "none" /\ Both /\ ~ Awaits(c) /\ pc[c] # "pollR"
      /\ cq[c] = <<>> /\ cq'[c] \in {<<>>, <<"ok">>} /\ buf'[c] = buf[c] /\ seen'[c] = seen[c]
      /\ pc'[v] = pc[v] /\ phase'[v] = phase[v] /\ wr'[v] = wr[v] /\ cq'[v] = cq[v]
      /\ buf'[v] = buf[v] /\ seen'[v] = seen[v]
  <2>1. Functions
    BY DEF LocalInv
  <2>2. /\ wr[c] = "landed" /\ wr' = [wr EXCEPT ![c] = "none"] /\ cq' = Complete(c, "ok")
        /\ UNCHANGED <<prog, memory>>
    BY DEF Acknowledge
  <2>3. cq[c] = <<>>
    BY <1>0, <2>2, QueueIs
  <2>4. cq'[v] = cq[v] /\ cq'[c] \in {<<>>, <<"ok">>}
    BY <1>0, <2>1, <2>2, <2>3, AppendIs DEF Complete, Functions
  <2>5. Both
    BY <1>0, <2>2 DEF DataInv, LinkInv
  <2>6. (~ Awaits(c) /\ pc[c] # "pollR") \/ c = v
    BY <1>0, <2>2 DEF LocalInv, SideInv, QueueOf
  <2> QED BY <1>0, <2>1, <2>2, <2>3, <2>4, <2>5, <2>6 DEF Functions, prog, memory
<1>3. LinkInv'
  BY <1>0, <1>2, PlaceIs, QueueIs, CompletionsAre DEF DataInv, LinkInv, Sides, Past, Done,
    Creating, Early, Working, Syncing, Linking,
       Third, Fourth, Fifth, Over, Waits, Polling
<1>4. ServerBuf'
  BY <1>0, <1>1, <1>2, PlaceIs, QueueIs, CompletionsAre DEF DataInv, ServerBuf, Done, Creating,
    Early, Working, Syncing, Linking,
       Third, Fourth, Fifth, Over, Waits, Polling
<1>5. ClientBuf'
  BY <1>0, <1>2, PlaceIs, QueueIs, CompletionsAre DEF DataInv, ClientBuf, Awaits, Done, Creating,
    Early, Working, Syncing, Linking,
       Third, Fourth, Fifth, Over, Waits, Polling
<1>6. SeenInv'
  BY <1>0, <1>2, PlaceIs, QueueIs, CompletionsAre DEF DataInv, SeenInv, Creating, Early, Working,
    Syncing, Linking,
       Third, Fourth, Fifth, Over, Waits, Polling
<1> QED BY <1>3, <1>4, <1>5, <1>6 DEF DataInv

LEMMA DataObtain ==
  ASSUME LocalInv, LocalInv', BytesInv, BytesInv', DataInv, Both => Both', NEW s \in Sides, Obtain(s)
  PROVE  DataInv'
BY Peers, DataObtainServer, DataObtainClient

LEMMA DataPut ==
  ASSUME LocalInv, LocalInv', BytesInv, BytesInv', DataInv, Both => Both', NEW s \in Sides,
         Put(s) \/ ShortWrite(s)
  PROVE  DataInv'
BY Peers, DataPutServer, DataPutClient, DataShortWriteServer, DataShortWriteClient

LEMMA DataGet ==
  ASSUME LocalInv, LocalInv', BytesInv, BytesInv', DataInv, Both => Both', NEW s \in Sides, Get(s)
  PROVE  DataInv'
BY Peers, DataGetServer, DataGetClient

LEMMA DataLinking ==
  ASSUME LocalInv, LocalInv', BytesInv, BytesInv', DataInv, Both => Both', NEW s \in Sides,
         ModifyQp(s) \/ PostReceive(s)
  PROVE  DataInv'
<1>1. PostReceive(s) => s = "client"
  BY DEF PostReceive, LocalInv, SideInv, PlaceOf
<1> QED BY <1>1, Peers, DataModifyQpServer, DataModifyQpClient, DataPostReceive

(* Which side makes which call.                                            *)
LEMMA CallsOfASide ==
  ASSUME LocalInv, NEW s \in Sides
  PROVE  /\ pc[s] \in {"send", "fill"} => s = "server"
         /\ pc[s] \in {"read", "write", "pollR", "pollW", "showR"} => s = "client"
         /\ wr[s] = "SEND" => s = "server"
         /\ wr[s] \in {"READ", "WRITE"} => s = "client"
<1>1. PlaceOf(s) /\ QueueOf(s)
  BY DEF LocalInv, SideInv
<1>2. pc[s] \in Early \cup Working(s) \cup Over
  BY <1>1 DEF PlaceOf
<1>3. /\ pc[s] \in {"send", "fill"} => s = "server"
      /\ pc[s] \in {"read", "write", "pollR", "pollW", "showR"} => s = "client"
  BY <1>2, Peers DEF Creating, Early, Working, Syncing, Linking, Third, Fourth, Fifth, Over
<1> QED BY <1>1, <1>3, Peers DEF QueueOf

LEMMA DataPostSend ==
  ASSUME LocalInv, LocalInv', BytesInv, BytesInv', DataInv, Both => Both', NEW s \in Sides, PostSend(s)
  PROVE  DataInv'
<1>1. pc[s] \in {"send", "read", "write"}
  BY DEF PostSend
<1> QED BY <1>1, CallsOfASide, DataPostMessage, DataPostRead, DataPostWrite

LEMMA DataPoll ==
  ASSUME LocalInv, LocalInv', BytesInv, BytesInv', DataInv, Both => Both', NEW s \in Sides, Poll(s)
  PROVE  DataInv'
<1>1. CASE Head(cq[s]) # "ok"
  BY <1>1, QuietSteps, FadesSteps, DataFades
<1>2. CASE Head(cq[s]) = "ok"
  <2>1. pc[s] \in {"poll", "pollR", "pollW"}
    BY DEF Poll, Polling
  <2> QED BY <1>2, <2>1, CallsOfASide, Peers, DataPollServer, DataPollClient, DataPollRead,
    DataPollWrite
<1> QED BY <1>1, <1>2

LEMMA DataMain ==
  ASSUME LocalInv, LocalInv', BytesInv, BytesInv', DataInv, Both => Both', NEW s \in Sides, Main(s)
  PROVE  DataInv'
<1>1. pc[s] \in {"fill", "show", "showR"}
  BY DEF Main
<1> QED BY <1>1, CallsOfASide, Peers, DataMainFill, DataMainShow, DataMainEnd, DataMainRead

LEMMA DataAdapter ==
  ASSUME LocalInv, LocalInv', BytesInv, BytesInv', DataInv, Both => Both', NEW s \in Sides,
         Deliver(s) \/ Acknowledge(s)
  PROVE  DataInv'
<1>1. Deliver(s) => wr[s] \in {"SEND", "READ", "WRITE"}
  BY DEF Deliver
<1> QED BY <1>1, CallsOfASide, Peers, DataDeliverSend, DataDeliverWrite, DataDeliverRead,
  DataAcknowledgeServer, DataAcknowledgeClient

LEMMA DataNext ==
  ASSUME LocalInv, LocalInv', BytesInv, BytesInv', DataInv, [Next]_vars
  PROVE  DataInv'
<1>1. Both => Both'
  BY BothStays
<1>2. "server" \in Sides
  BY DEF Sides
<1>3. CASE Listen \/ Accept \/ Connect \/ UNCHANGED vars
  BY <1>1, <1>2, <1>3, QuietSteps, FadesSteps, DataFades
<1>4. ASSUME NEW s \in Sides, Step(s)
      PROVE  DataInv'
  <2>1. CASE GetError(s) \/ Timeout(s) \/ Release(s) \/ End(s)
    BY <1>1, <2>1, QuietSteps, FadesSteps, DataFades
  <2> QED BY <1>1, <1>4, <2>1, DataObtain, DataPut, DataGet, DataLinking, DataPostSend, DataPoll,
    DataMain
    DEF Step
<1>5. ASSUME NEW s \in Sides, Fault(s)
      PROVE  DataInv'
  <2>1. CASE Cleanup(s) \/ Killed(s) \/ CallFails(s) \/ Break(s)
    BY <1>1, <2>1, QuietSteps, FadesSteps, DataFades
  <2> QED BY <1>1, <1>5, <2>1, DataPut DEF Fault
<1>6. ASSUME NEW s \in Sides, Deliver(s) \/ Acknowledge(s)
      PROVE  DataInv'
  BY <1>1, <1>6, DataAdapter
<1> QED BY <1>3, <1>4, <1>5, <1>6 DEF Next

LEMMA DataInit ==
  ASSUME Init
  PROVE  DataInv
<1> DEFINE c == "client"
           v == "server"
<1>1. \A t \in {v, c} : /\ pc[t] = "start" /\ phase[t] = 1 /\ nread[t] = 0 /\ chan[t] = 0 /\ wr[t] = "none"
                        /\ cq[t] = <<>> /\ buf[t] = "none" /\ seen[t] = <<>>
  BY DEF Init, Sides
<1>2. \A t \in {v, c} : Came(t) = 0 /\ ~ Done(t)
  <2>1. \A t \in {v, c} : phase[t] - 1 = 0
    BY <1>1
  <2>2. \A t \in {v, c} : Total(phase[t] - 1) = 0
    BY <2>1, TotalIs
  <2>3. \A t \in {v, c} : Came(t) = 0
    BY <1>1, <2>2 DEF Came
  <2>4. \A t \in {v, c} : ~ Done(t)
    BY <1>1, CompletionsAre DEF Done
  <2> QED BY <2>3, <2>4
<1>3. ~ (0 > Total(2)) /\ ~ (0 > Total(3))
  BY TotalIs, ConSizeAssumption
<1>4. LinkInv
  BY <1>1, <1>2 DEF LinkInv, Past, Sides, Fourth, Syncing
<1>5. ServerBuf
  BY <1>1, <1>2, <1>3 DEF ServerBuf, Working, Linking, Syncing, Third, Fourth, Fifth
<1>6. ClientBuf
  BY <1>1, <1>2 DEF ClientBuf, Awaits, Syncing
<1>7. SeenInv
  BY <1>1 DEF SeenInv, Early, Linking, Third, Syncing
<1> QED BY <1>4, <1>5, <1>6, <1>7 DEF DataInv

(* A request is carried out only between two sides that have each other's  *)
(* connection data, and at each call of main the two buffers hold what the *)
(* sequence has put there so far.                                          *)
THEOREM DataInvHolds == Spec => [](LocalInv /\ BytesInv /\ DataInv)
<1>1. Init => LocalInv /\ BytesInv /\ DataInv
  BY LocalInit, BytesInit, DataInit
<1>2. LocalInv /\ BytesInv /\ DataInv /\ [Next]_vars => (LocalInv /\ BytesInv /\ DataInv)'
  BY LocalNext, BytesNext, DataNext
<1> QED BY <1>1, <1>2, PTL DEF Spec

(* Whatever fails or comes short, a side prints only what the other one    *)
(* put there for it: the client the message, then the data the server has  *)
(* prepared; the server what the client wrote.                             *)
THEOREM ContentsHold == Spec => []Contents
<1>1. DataInv => Contents
  <2>1. /\ IsPrefix(<<>>, <<"MSG", "R">>) /\ IsPrefix(<<"MSG">>, <<"MSG", "R">>)
        /\ IsPrefix(<<"MSG", "R">>, <<"MSG", "R">>) /\ IsPrefix(<<>>, <<"W">>) /\ IsPrefix(<<"W">>, <<"W">>)
    BY DEF IsPrefix
  <2> QED BY <2>1 DEF DataInv, SeenInv, Contents
<1> QED BY <1>1, DataInvHolds, PTL

-----------------------------------------------------------------------------
(* As long as nothing has failed of its own accord.                        *)
LEMMA CleanIs ==
  ASSUME LocalInv, BytesInv, CleanInv, clean, NEW s \in Sides
  PROVE  /\ CleanOf(s) /\ CleanOf(Peer(s)) /\ Ready /\ InStep
         /\ Came(s) <= Sent(Peer(s)) /\ Came(s) >= Total(phase[s] - 1)
<1>1. Peer(s) \in Sides
  BY Peers
<1>2. CleanOf(s) /\ CleanOf(Peer(s)) /\ Ready
  BY <1>1 DEF CleanInv
<1>3. InStep
  <2> SUFFICES ASSUME NEW t \in Sides
               PROVE  props[t] # "unread"
    BY DEF InStep
  <2>1. CleanOf(t) /\ phase[t] \in {1, 2, 3, 4, 5} /\ (phase[t] = 1 <=> props[t] = "none")
    BY PlaceIs DEF CleanInv
  <2>2. CASE phase[t] = 1
    BY <2>1, <2>2
  <2>3. CASE phase[t] >= 2
    BY <2>1, <2>3 DEF CleanOf
  <2> QED BY <2>1, <2>2, <2>3
<1>4. Came(s) >= Total(phase[s] - 1)
  <2>1. nread[s] \in Nat /\ chan[s] \in Nat /\ Total(phase[s] - 1) \in Nat
    BY BytesAre, TotalNat
  <2> QED BY <2>1 DEF Came
<1> QED BY <1>1, <1>2, <1>3, <1>4 DEF BytesInv

(* A side that waits for an answer or writes to its socket: the other one  *)
(* is not past it, and has not gone.                                       *)
LEMMA NotPast ==
  ASSUME LocalInv, BytesInv, CleanInv, clean, NEW s \in Sides,
         pc[s] \in Syncing \cup {"poll", "pollR", "pollW"}, pc[s] # "get"
  PROVE  /\ phase[s] \in {1, 2, 3, 4} /\ phase[Peer(s)] <= phase[s]
         /\ pc[Peer(s)] \notin Over /\ ~ Gone(Peer(s)) /\ sock[Peer(s)] # "closed"
<1> DEFINE p == Peer(s)
<1>0. p \in Sides /\ Peer(p) = s
  BY Peers
<1> HIDE DEF p
<1>1. CleanOf(p) /\ Came(p) <= Sent(s) /\ Came(p) >= Total(phase[p] - 1)
  BY <1>0, CleanIs
<1>2. phase[s] \in {1, 2, 3, 4} /\ phase[p] \in {1, 2, 3, 4, 5} /\ Came(p) \in Nat /\ Sent(s) \in Nat
  <2>1. pc[s] \in {"poll", "pollR", "pollW"} => pc[s] \in Third(s) \cup Fourth(s)
    <3>1. pc[s] \in Early \cup Working(s) \cup Over
      BY PlaceIs
    <3> QED BY <3>1 DEF Third, Fourth, Fifth, Working, Linking, Syncing, Early, Creating, Over
  <2> QED BY <1>0, <2>1, PlaceIs, BytesAre
<1>3. Sent(s) = Total(phase[s] - 1)
  BY DEF Sent, Syncing, Over
<1>4. phase[p] <= phase[s]
  <2>1. \A j, k \in 0 .. 4 : Total(j) >= Total(k) => j >= k
    BY TotalIs, ConSizeAssumption
  <2>2. phase[p] - 1 \in 0 .. 4 /\ phase[s] - 1 \in 0 .. 4
    BY <1>2
  <2>3. Total(phase[s] - 1) >= Total(phase[p] - 1)
    BY <1>1, <1>2, <1>3, <2>2, TotalNat
  <2>4. phase[s] - 1 >= phase[p] - 1
    BY <2>1, <2>2, <2>3
  <2> QED BY <1>2, <2>4
<1>5. pc[p] \notin Over
  BY <1>1, <1>2, <1>4 DEF CleanOf
<1>6. ~ Gone(p)
  <2>1. SocketOf(p) /\ pc[p] \in Early \cup Working(p)
    BY <1>0, <1>5, PlaceIs DEF LocalInv, SideInv
  <2> QED BY <2>1 DEF SocketOf, Early, Gone
<1> QED BY <1>2, <1>4, <1>5, <1>6 DEF p, Gone

(* A request finds the other side connected, and the message finds its     *)
(* receive request: nothing breaks but the network.                        *)
LEMMA Reaches ==
  ASSUME LocalInv, BytesInv, CleanInv, clean, NEW s \in Sides, wr[s] # "none"
  PROVE  /\ Reach(s) /\ (wr[s] = "SEND" => rr[Peer(s)] = 1)
         /\ pc[s] \notin Over /\ pc[Peer(s)] \notin Over
<1> DEFINE p == Peer(s)
<1>0. p \in Sides /\ Peer(p) = s /\ p # s
  BY Peers
<1> HIDE DEF p
<1>1. CleanOf(s) /\ CleanOf(p) /\ Ready /\ InStep
  BY <1>0, CleanIs DEF p
<1>2. pc[s] \in {"poll", "pollR", "pollW"} /\ pc[s] \notin Over
  <2>1. pc[s] \in Early \cup Working(s)
    BY <1>1, PlaceIs DEF CleanOf
  <2>2. Waits(s) /\ ~ Awaits(s)
    BY <2>1, QueueIs DEF LocalInv, SideInv, QueueOf
  <2> QED BY <2>2 DEF Waits, Polling, Over
<1>3. phase[s] \in {1, 2, 3, 4} /\ phase[p] <= phase[s] /\ pc[p] \notin Over
  BY <1>2, NotPast DEF p
<1>4. phase[s] \in {3, 4}
  <2>1. pc[s] \in Third(s) \cup Fourth(s)
    <3>1. pc[s] \in Early \cup Working(s) \cup Over
      BY PlaceIs
    <3> QED BY <1>2, <3>1 DEF Third, Fourth, Fifth, Working, Linking, Syncing, Early, Creating, Over
  <2> QED BY <2>1, PlaceIs
<1>5. phase[p] >= 3 \/ (phase[p] = 2 /\ pc[p] = "get")
  <2>1. Barrier
    BY BarrierIs
  <2>2. \/ phase[p] >= phase[s]
        \/ phase[p] = phase[s] - 1 /\ pc[p] \in {"get", "destroy", "ended", "killed"}
    BY <1>1, <2>1 DEF Barrier, p
  <2> QED BY <1>0, <1>3, <1>4, <2>2, PlaceIs DEF Over
<1>6. pc[p] \in Working(p) \ Linking /\ phase[p] >= 2
  BY <1>0, <1>3, <1>5, PlaceIs DEF Linking, Syncing
<1>7. qp[p] = "RTS" /\ obj[p] = All /\ props[p] = "peer" /\ props[s] = "peer"
  <2>1. QpOf(p) /\ HandlesOf(p)
    BY <1>0 DEF LocalInv, SideInv
  <2> QED BY <1>1, <1>4, <1>6, <2>1 DEF QpOf, HandlesOf, CleanOf
<1>8. Reach(s)
  BY <1>7 DEF Reach, All, p
<1>9. ASSUME wr[s] = "SEND"
      PROVE  rr[p] = 1
  <2>1. s = "server" /\ p = "client"
    BY <1>0, <1>9, CallsOfASide, Peers DEF Sides
  <2>2. Receptive
    BY <1>1, <1>9, <2>1 DEF Ready, Unsent
  <2>3. pc[p] \notin Early \cup {"init", "rr"} /\ phase[p] # 1
    BY <1>0, <1>5, <1>6, PlaceIs DEF Linking
  <2> QED BY <2>1, <2>2, <2>3 DEF Receptive
<1> QED BY <1>2, <1>3, <1>8, <1>9 DEF p

(* clean is never set again.                                               *)
LEMMA CleanBefore ==
  ASSUME LocalInv, [Next]_vars, clean'
  PROVE  clean
<1>1. ASSUME NEW s \in Sides, Get(s)
      PROVE  clean
  <2>1. PICK n \in Nat : GetWith(s, n)
    BY <1>1, GetIs DEF LocalInv
  <2> QED BY <2>1 DEF GetWith
<1>2. ASSUME NEW s \in Sides, Step(s)
      PROVE  clean
  <2>1. CASE Obtain(s) \/ Put(s) \/ GetError(s) \/ ModifyQp(s) \/ PostReceive(s) \/ PostSend(s) \/ Poll(s) \/ Main(s)
    BY <2>1 DEF Obtain, Put, GetError, ModifyQp, PostReceive, PostSend, Poll, Main
  <2>2. CASE Timeout(s) \/ Release(s) \/ End(s)
    BY <2>2 DEF Timeout, Release, End
  <2> QED BY <1>1, <1>2, <2>1, <2>2 DEF Step
<1>3. ASSUME NEW s \in Sides, Fault(s)
      PROVE  clean
  BY <1>3 DEF Fault, Cleanup, Killed, ShortWrite, CallFails, GiveUp, Break
<1>4. ASSUME NEW s \in Sides, Deliver(s) \/ Acknowledge(s)
      PROVE  clean
  BY <1>4 DEF Deliver, Acknowledge
<1>5. CASE Listen \/ Accept \/ Connect \/ UNCHANGED vars
  BY <1>5 DEF Listen, Accept, Connect, vars
<1> QED BY <1>2, <1>3, <1>4, <1>5 DEF Next

(* What is the end of a side happens only when something has failed of its *)
(* own accord.                                                             *)
LEMMA NoFailure ==
  ASSUME LocalInv, BytesInv, CleanInv, clean, clean', NEW s \in Sides,
         \/ GetError(s) \/ Timeout(s) \/ (Poll(s) /\ Head(cq[s]) # "ok")
         \/ Cleanup(s) \/ Killed(s) \/ ShortWrite(s) \/ CallFails(s) \/ Break(s)
  PROVE  FALSE
<1> DEFINE p == Peer(s)
<1>0. p \in Sides /\ Peer(p) = s /\ p # s
  BY Peers
<1> HIDE DEF p
<1>1. CleanOf(s) /\ CleanOf(p) /\ Ready /\ Functions
  BY <1>0, CleanIs DEF p, LocalInv
<1>2. CASE Cleanup(s) \/ ShortWrite(s) \/ CallFails(s)
  BY <1>2 DEF Cleanup, ShortWrite, CallFails, GiveUp
<1>3. CASE GetError(s)
  BY <1>1, <1>3 DEF GetError, CleanOf, p
<1>4. CASE Poll(s) /\ Head(cq[s]) # "ok"
  <2>1. cq[s] = <<"ok">>
    BY <1>1, <1>4 DEF Poll, CleanOf, Functions
  <2> QED BY <1>4, <2>1
<1>5. CASE Killed(s)
  <2>1. pc[s] = "put" /\ Gone(p)
    BY <1>5 DEF Killed, p
  <2> QED BY <2>1, NotPast DEF p, Syncing
<1>6. CASE Break(s)
  <2>1. wr[s] # "none" /\ (~ Reach(s) \/ (wr[s] = "SEND" /\ rr[p] = 0))
    BY <1>6 DEF Break, p
  <2>2. Reach(s) /\ (wr[s] = "SEND" => rr[p] = 1)
    BY <2>1, Reaches DEF p
  <2> QED BY <2>1, <2>2
<1>7. CASE Timeout(s)
  <2>1. Polling(s) /\ cq[s] = <<>> /\ Hopeless(s)
    BY <1>7 DEF Timeout
  <2>2. pc[s] \in {"poll", "pollR", "pollW"}
    BY <2>1 DEF Polling
  <2>3. wr[s] = "none" /\ wr[p] = "none" /\ (pc[p] \in {"ended", "killed"} \/ (pc[p] = "get" /\ chan[p] = 0))
    BY <2>1 DEF Hopeless, p
  <2>4. pc[p] = "get" /\ chan[p] = 0
    BY <2>2, <2>3, NotPast DEF Over, p
  <2>5. rr[s] = 1
    <3>1. Waits(s)
      BY <2>1 DEF Waits
    <3>2. Load(s) = 1
      BY <3>1 DEF LocalInv, SideInv, QueueOf
    <3> QED BY <1>1, <2>1, <2>3, <3>2, LoadIs
  <2>6. s = "client" /\ p = "server" /\ Unsent
    <3>1. s # "server"
      BY <2>5 DEF LocalInv, SideInv, QueueOf
    <3>2. s = "client" /\ p = "server"
      BY <3>1, Peers DEF p, Peer
    <3> QED BY <1>1, <2>5, <3>2 DEF Ready
  <2>7. pc[s] = "poll" /\ phase[s] = 3
    <3>1. pc[s] = "poll"
      BY <2>2, <2>5 DEF LocalInv, SideInv, QueueOf
    <3> QED BY <2>6, <3>1, PlaceIs DEF Third
  <2>8. phase[p] \in {1, 2}
    <3>1. phase[p] <= 2
      BY <2>3, <2>4, <2>6 DEF Unsent
    <3> QED BY <1>0, <3>1, PlaceIs
  <2>9. Came(p) = Sent(s)
    BY <1>0, <1>1, <2>2, NotPast DEF CleanOf, p
  <2>10. Sent(s) = Total(2)
    <3>1. Sent(s) = Total(phase[s] - 1)
      BY <2>7 DEF Sent, Over
    <3>2. phase[s] - 1 = 2
      BY <2>7
    <3> QED BY <3>1, <3>2
  <2>11. Came(p) = Total(phase[p] - 1)
    <3>1. nread[p] = 0 /\ Total(phase[p] - 1) \in Nat
      BY <1>0, <1>1, BytesAre, TotalNat DEF CleanOf
    <3> QED BY <2>4, <3>1 DEF Came
  <2>12. Total(phase[p] - 1) \in {Total(0), Total(1)}
    BY <2>8
  <2> QED BY <2>9, <2>10, <2>11, <2>12, TotalIs, ConSizeAssumption
<1> QED BY <1>2, <1>3, <1>4, <1>5, <1>6, <1>7

(* Steps that neither write to a socket nor read from one or close it.     *)
CalmOf(t) ==
  /\ phase'[t] = phase[t] /\ nread'[t] = nread[t] /\ chan'[t] = chan[t] /\ props'[t] = props[t]
  /\ sock'[t] = sock[t] \/ (sock[t] = "none" /\ sock'[t] = "open")
  /\ cq'[t] # <<"bad">>
  /\ phase[t] = 5 \/ pc'[t] = pc[t] \/ (pc[t] \notin {"get"} \cup Over /\ pc'[t] \notin {"get"} \cup Over)
  /\ pc'[t] \in Over => /\ pc'[t] # "killed" /\ phase[t] = 5 /\ rc'[t] = 0
                        /\ cq'[t] = <<>> /\ rr'[t] = 0 /\ wr'[t] = "none"

LEMMA CalmKeeps ==
  ASSUME CleanInv, clean, \A t \in Sides : CalmOf(t), NEW s \in Sides
  PROVE  CleanOf(s)'
<1>1. CleanOf(s) /\ CalmOf(s) /\ CalmOf(Peer(s)) /\ Peer(s) \in Sides
  BY Peers DEF CleanInv
<1>2. Came(s)' = Came(s)
  BY <1>1 DEF Came, CalmOf
<1>3. Sent(Peer(s))' = Sent(Peer(s))
  BY <1>1 DEF Sent, CalmOf
<1>4. Gone(s)' <=> Gone(s)
  BY <1>1 DEF Gone, CalmOf
<1>5. ~ Gone(s)' => Came(s)' = Sent(Peer(s))'
  BY <1>1, <1>2, <1>3, <1>4 DEF CleanOf
<1>6. /\ nread'[s] = 0 /\ sock'[s] # "reset" /\ cq'[s] # <<"bad">>
      /\ phase'[s] >= 2 => props'[s] = "peer"
  BY <1>1 DEF CleanOf, CalmOf
<1>7. pc'[s] \in Over => /\ pc'[s] # "killed" /\ phase'[s] = 5 /\ rc'[s] = 0
                         /\ cq'[s] = <<>> /\ rr'[s] = 0 /\ wr'[s] = "none"
  BY <1>1 DEF CalmOf
<1> QED BY <1>5, <1>6, <1>7 DEF CleanOf

LEMMA CalmSteps ==
  ASSUME LocalInv, LocalInv', CleanInv, clean, clean', NEW s \in Sides,
         \/ Listen \/ Accept \/ Connect \/ Obtain(s) \/ ModifyQp(s) \/ PostReceive(s) \/ PostSend(s)
         \/ (Poll(s) /\ Head(cq[s]) = "ok") \/ Main(s) \/ Release(s) \/ Deliver(s) \/ Acknowledge(s)
         \/ UNCHANGED vars,
         NEW t \in Sides
  PROVE  CalmOf(t)
<1>1. /\ Functions /\ CleanOf(s) /\ CleanOf(t) /\ "server" \in Sides /\ "client" \in Sides
  BY DEF LocalInv, CleanInv, Sides
<1>2. CASE Listen
  BY <1>1, <1>2 DEF Listen, Go, CalmOf, CleanOf, Functions, handles, tcp, verbs, Over
<1>3. CASE Accept
  <2>1. sock["server"] = "none"
    BY <1>1, <1>3 DEF Accept, LocalInv, SideInv, SocketOf
  <2> QED BY <1>1, <1>3, <2>1 DEF Accept, Go, CalmOf, CleanOf, Functions, handles, tcp, verbs, Over
<1>4. CASE Connect
  <2>1. sock["client"] = "none"
    BY <1>1, <1>4 DEF Connect, LocalInv, SideInv, SocketOf
  <2> QED BY <1>1, <1>4, <2>1 DEF Connect, Go, CalmOf, CleanOf, Functions, handles, tcp, verbs, Over
<1>5. CASE Obtain(s)
  <2>1. /\ pc[s] \in Creating /\ Then[pc[s]] \notin {"get"} \cup Over /\ pc[s] \notin {"get"} \cup Over
        /\ pc' = [pc EXCEPT ![s] = Then[pc[s]]]
        /\ UNCHANGED <<phase, rc, tcp, props, rr, wr, cq>>
    BY <1>5, ThenIs DEF Obtain, Go, Creating, Over
  <2>2. pc'[t] = pc[t] \/ (pc[t] \notin {"get"} \cup Over /\ pc'[t] \notin {"get"} \cup Over)
    BY <1>1, <2>1 DEF Functions
  <2> QED BY <1>1, <2>1, <2>2 DEF CalmOf, CleanOf, tcp
<1>6. CASE ModifyQp(s)
  <2>1. /\ pc[s] \in {"init", "rtr", "rts"} /\ \E q \in {"rr", "rtr", "rts", "put"} : pc' = [pc EXCEPT ![s] = q]
        /\ UNCHANGED <<phase, rc, tcp, props, rr, wr, cq>>
    BY <1>6 DEF ModifyQp, Go
  <2>2. pc'[t] = pc[t] \/ (pc[t] \notin {"get"} \cup Over /\ pc'[t] \notin {"get"} \cup Over)
    BY <1>1, <2>1 DEF Functions, Over
  <2> QED BY <1>1, <2>1, <2>2 DEF CalmOf, CleanOf, tcp
<1>7. CASE PostReceive(s)
  BY <1>1, <1>7 DEF PostReceive, Go, CalmOf, CleanOf, Functions, handles, tcp, verbs, Over
<1>8. CASE PostSend(s)
  <2>1. /\ pc[s] \in {"send", "read", "write"} /\ \E q \in {"poll", "pollR", "pollW"} : pc' = [pc EXCEPT ![s] = q]
        /\ \E r \in {"SEND", "READ", "WRITE"} : wr' = [wr EXCEPT ![s] = r]
        /\ UNCHANGED <<phase, rc, tcp, props, rr, cq>>
    BY <1>8 DEF PostSend, Go
  <2>2. \/ pc'[t] = pc[t] /\ wr'[t] = wr[t]
        \/ pc[t] \notin {"get"} \cup Over /\ pc'[t] \notin {"get"} \cup Over
    BY <1>1, <2>1 DEF Functions, Over
  <2> QED BY <1>1, <2>1, <2>2 DEF CalmOf, CleanOf, tcp
<1>9. CASE Poll(s) /\ Head(cq[s]) = "ok"
  <2>1. Tail(cq[s]) = <<>> /\ <<>> # <<"bad">>
    BY <1>1, <1>9, TailIs, CompletionsAre DEF Poll
  <2>2. AfterPoll(s) \notin {"get"} \cup Over /\ pc[s] \notin {"get"} \cup Over
    BY <1>9 DEF Poll, Polling, AfterPoll, Over
  <2>3. /\ pc' = [pc EXCEPT ![s] = AfterPoll(s)] /\ cq' = [cq EXCEPT ![s] = Tail(@)]
        /\ UNCHANGED <<phase, rc, tcp, props, rr, wr>>
    BY <1>9 DEF Poll, Go
  <2>4. pc'[t] = pc[t] \/ (pc[t] \notin {"get"} \cup Over /\ pc'[t] \notin {"get"} \cup Over)
    BY <1>1, <2>2, <2>3 DEF Functions
  <2>5. cq'[t] # <<"bad">> /\ (pc'[t] \in Over => pc'[t] = pc[t] /\ cq'[t] = cq[t])
    BY <1>1, <2>1, <2>2, <2>3 DEF Functions, CleanOf
  <2> QED BY <1>1, <2>3, <2>4, <2>5 DEF CalmOf, CleanOf, tcp
<1>10. CASE Main(s)
  <2>1. CASE pc[s] = "show" /\ s = "server"
    <3>1. phase[s] = 5
      <4>1. pc[s] \in Fifth(s)
        BY <2>1 DEF Fifth
      <4> QED BY <4>1, PlaceIs
    <3>2. cq[s] = <<>> /\ rr[s] = 0 /\ wr[s] = "none"
      <4>1. pc[s] \in Working(s) /\ ~ Waits(s)
        BY <2>1 DEF Working, Fifth, Waits, Awaits, Polling, Syncing
      <4> QED BY <4>1, QueueIs
    <3>3. /\ pc' = [pc EXCEPT ![s] = "destroy"] /\ rc' = [rc EXCEPT ![s] = 0]
          /\ UNCHANGED <<phase, tcp, verbs>>
      BY <1>10, <2>1 DEF Main, Go
    <3> QED BY <1>1, <3>1, <3>2, <3>3 DEF CalmOf, CleanOf, Functions, tcp, verbs, Over
  <2>2. CASE ~ (pc[s] = "show" /\ s = "server")
    <3>1. /\ pc[s] \in {"fill", "show", "showR"}
          /\ \E p \in {"put", "write"} : pc' = [pc EXCEPT ![s] = p]
          /\ UNCHANGED <<phase, rc, tcp, verbs>>
      BY <1>10, <2>2 DEF Main, Go
    <3> QED BY <1>1, <3>1 DEF CalmOf, CleanOf, Functions, tcp, verbs, Over
  <2> QED BY <2>1, <2>2
<1>11. CASE Release(s)
  <2>1. pc[s] = "destroy" /\ cq[s] = <<>> /\ rr[s] = 0 /\ wr[s] = "none" /\ rc[s] = 0
    BY <1>1, <1>11 DEF Release, CleanOf, Over
  <2>2. obj[s] = ptr[s] /\ ptr[s] \subseteq All /\ ptr[s] # {}
    BY <1>11, <2>1 DEF Release, LocalInv, SideInv, HandlesOf, Over
  <2>3. Free(s, First(s))
    BY <2>2, FirstIs
  <2>4. UNCHANGED <<pc, phase, rc, tcp, props, wr>>
    BY <1>11, <2>3 DEF Release
  <2>5. /\ cq' = cq \/ cq' = [cq EXCEPT ![s] = <<>>]
        /\ rr' = rr \/ rr' = [rr EXCEPT ![s] = 0]
    BY <1>11 DEF Release
  <2>6. cq'[t] = cq[t] /\ rr'[t] = rr[t]
    BY <1>1, <2>1, <2>5 DEF Functions
  <2> QED BY <1>1, <2>4, <2>6 DEF CalmOf, CleanOf, tcp
<1>12. CASE Acknowledge(s)
  <2>1. cq[s] = <<>> /\ Append(<<>>, "ok") = <<"ok">> /\ pc[s] \notin Over
    BY <1>1, <1>12, QueueIs, AppendIs DEF Acknowledge, CleanOf
  <2>2. cq'[t] # <<"bad">> /\ (t # s => cq'[t] = cq[t] /\ wr'[t] = wr[t])
    BY <1>1, <1>12, <2>1, CompletionsAre DEF Acknowledge, Complete, Functions, CleanOf
  <2>3. UNCHANGED <<prog, tcp, props, rr>>
    BY <1>12 DEF Acknowledge
  <2> QED BY <1>1, <2>1, <2>2, <2>3 DEF CalmOf, CleanOf, prog, tcp
<1>13. CASE Deliver(s)
  <2> DEFINE p == Peer(s)
  <2>1. p \in Sides /\ p # s /\ pc[s] \notin Over
    BY <1>1, <1>13, Peers DEF Deliver, CleanOf
  <2> HIDE DEF p
  <2>2. UNCHANGED <<prog, tcp, props>>
    BY <1>13 DEF Deliver
  <2>3. wr'[t] = wr[t] \/ t = s
    BY <1>1, <1>13 DEF Deliver, Functions
  <2>4. CASE wr[s] = "SEND"
    <3>1. cq[p] = <<>> /\ rr[p] # 0 /\ Append(<<>>, "ok") = <<"ok">> /\ pc[p] \notin Over
      BY <1>1, <1>13, <2>1, <2>4, QueueIs, AppendIs DEF Deliver, CleanInv, CleanOf, p
    <3>2. rr' = [rr EXCEPT ![p] = @ - 1] /\ cq' = Complete(p, "ok")
      BY <1>13, <2>4 DEF Deliver, p
    <3>3. cq'[t] # <<"bad">> /\ (t # p => cq'[t] = cq[t])
      BY <1>1, <2>1, <3>1, <3>2, CompletionsAre DEF Complete, Functions, CleanOf
    <3>4. t # p => rr'[t] = rr[t]
      BY <1>1, <3>2 DEF Functions
    <3> QED BY <1>1, <2>1, <2>2, <2>3, <3>1, <3>3, <3>4 DEF CalmOf, CleanOf, prog, tcp
  <2>5. CASE wr[s] = "WRITE"
    <3>1. rr' = rr /\ cq' = cq
      BY <1>13, <2>5 DEF Deliver
    <3> QED BY <1>1, <2>1, <2>2, <2>3, <3>1 DEF CalmOf, CleanOf, prog, tcp
  <2>6. CASE wr[s] = "READ"
    <3>1. rr' = rr /\ cq' = Complete(s, "ok")
      BY <1>13, <2>6 DEF Deliver
    <3>2. cq[s] = <<>> /\ Append(<<>>, "ok") = <<"ok">>
      BY <2>6, QueueIs, AppendIs
    <3>3. cq'[t] # <<"bad">> /\ (t # s => cq'[t] = cq[t])
      BY <1>1, <3>1, <3>2, CompletionsAre DEF Complete, Functions, CleanOf
    <3> QED BY <1>1, <2>1, <2>2, <2>3, <3>1, <3>3 DEF CalmOf, CleanOf, prog, tcp
  <2> QED BY <1>13, <2>4, <2>5, <2>6 DEF Deliver
<1>14. CASE UNCHANGED vars
  BY <1>1, <1>14 DEF vars, CalmOf, CleanOf, prog, tcp, verbs
<1> QED BY <1>2, <1>3, <1>4, <1>5, <1>6, <1>7, <1>8, <1>9, <1>10, <1>11, <1>12, <1>13, <1>14

LEMMA CleanPut ==
  ASSUME LocalInv, LocalInv', BytesInv, CleanInv, clean, NEW s \in Sides, Put(s), NEW t \in Sides
  PROVE  CleanOf(t)'
<1> DEFINE p == Peer(s)
           z == Size(phase[s])
<1>0. p \in Sides /\ p # s /\ Peer(p) = s /\ (t = s \/ t = p)
  BY Peers
<1> HIDE DEF p
<1>1. Functions /\ CleanOf(s) /\ CleanOf(p) /\ CleanOf(t) /\ pc[s] = "put"
  BY <1>0 DEF LocalInv, CleanInv, Put
<1>2. phase[s] \in {1, 2, 3, 4} /\ ~ Gone(p)
  BY <1>1, NotPast DEF Syncing, p
<1>3. /\ pc' = [pc EXCEPT ![s] = "get"] /\ chan' = [chan EXCEPT ![p] = @ + Size(phase[s])]
      /\ UNCHANGED <<phase, rc, sock, nread, verbs>>
  BY <1>2 DEF Put, Go, p
<1>4. Came(s)' = Came(s) /\ Sent(p)' = Sent(p)
  <2>1. chan'[s] = chan[s] /\ pc'[p] = pc[p]
    BY <1>0, <1>1, <1>3 DEF Functions
  <2> QED BY <1>3, <2>1 DEF Came, Sent
<1>5. z \in Nat /\ chan[p] \in Nat /\ nread[p] \in Nat /\ Total(phase[p] - 1) \in Nat
  BY <1>0, <1>2, BytesAre, TotalNat, SizeIs
<1>6. Sent(s)' = Sent(s) + z
  <2>1. Sent(s) = Total(phase[s] - 1)
    BY <1>1 DEF Sent, Over
  <2>2. Sent(s)' = Total(phase[s])
    <3>1. phase[s] # 5 /\ pc'[s] = "get"
      BY <1>1, <1>2, <1>3 DEF Functions
    <3> QED BY <1>3, <3>1 DEF Sent
  <2>3. phase[s] \in 1 .. 4
    BY <1>2
  <2> QED BY <2>1, <2>2, <2>3, TotalIs
<1>7. Came(p)' = Came(p) + z
  <2>1. chan'[p] = chan[p] + z
    BY <1>0, <1>1, <1>3 DEF Functions
  <2> DEFINE T == Total(phase[p] - 1)
  <2>2. Came(p) = T + nread[p] + chan[p] /\ Came(p)' = T + nread[p] + chan'[p]
    BY <1>3 DEF Came
  <2> HIDE DEF T, z
  <2> QED BY <1>5, <2>1, <2>2 DEF T
<1>8. ~ Gone(t)' => Came(t)' = Sent(Peer(t))'
  <2>1. Gone(t)' <=> Gone(t)
    BY <1>3 DEF Gone
  <2> QED BY <1>0, <1>1, <1>4, <1>6, <1>7, <2>1 DEF CleanOf, p
<1>9. pc'[t] \in Over => pc'[t] = pc[t]
  BY <1>1, <1>3 DEF Functions, Over
<1> QED BY <1>1, <1>3, <1>8, <1>9 DEF CleanOf, verbs

LEMMA CleanGet ==
  ASSUME LocalInv, LocalInv', BytesInv, CleanInv, clean, clean', NEW s \in Sides, Get(s), NEW t \in Sides
  PROVE  CleanOf(t)'
<1> DEFINE p == Peer(s)
<1>0. p \in Sides /\ p # s /\ Peer(p) = s /\ (t = s \/ t = p) /\ Peer(t) \in Sides
  BY Peers
<1> HIDE DEF p
<1>1. /\ Functions /\ CleanOf(s) /\ CleanOf(p) /\ CleanOf(t) /\ pc[s] = "get" /\ props[p] # "unread"
      /\ phase[s] \in {1, 2, 3, 4}
  <2>1. pc[s] = "get" /\ InStep /\ CleanOf(s) /\ CleanOf(p) /\ CleanOf(t)
    BY <1>0, CleanIs DEF Get, p
  <2> QED BY <1>0, <2>1, PlaceIs DEF LocalInv, InStep, Syncing
<1>2. PICK n \in Nat : GetWith(s, n)
  BY <1>1, GetIs
<1>3. n = Size(phase[s]) /\ nread[s] = 0 /\ Size(phase[s]) \in Nat /\ chan[s] \in Nat /\ n <= chan[s]
  <2>1. nread[s] = 0 /\ ~ (nread[s] + n < Size(phase[s])) /\ n <= Size(phase[s]) /\ n <= chan[s]
    BY <1>1, <1>2 DEF GetWith, CleanOf
  <2>2. Size(phase[s]) \in Nat /\ chan[s] \in Nat
    BY <1>1, BytesAre, SizeIs
  <2> QED BY <1>2, <2>1, <2>2
<1>4. /\ Synced(s, TRUE) /\ chan' = [chan EXCEPT ![s] = @ - n]
      /\ UNCHANGED <<handles, sock, qp, rr, wr, cq, memory>>
  <2>1. ~ (nread[s] + n < Size(phase[s]))
    BY <1>3
  <2>2. (n = Size(phase[s]) /\ nread[s] = 0 /\ props[Peer(s)] # "unread") = TRUE
    BY <1>1, <1>3 DEF p
  <2>3. Synced(s, n = Size(phase[s]) /\ nread[s] = 0 /\ props[Peer(s)] # "unread")
    BY <1>2, <2>1 DEF GetWith
  <2>4. chan' = [chan EXCEPT ![s] = @ - n] /\ UNCHANGED <<handles, sock, qp, rr, wr, cq, memory>>
    BY <1>2 DEF GetWith
  <2> QED BY <2>2, <2>3, <2>4
<1>5. /\ pc' = [pc EXCEPT ![s] = After(s, phase[s])] /\ phase' = [phase EXCEPT ![s] = @ + 1]
      /\ nread' = [nread EXCEPT ![s] = 0]
      /\ IF phase[s] = 1 THEN props' = [props EXCEPT ![s] = "peer"] ELSE props' = props
      /\ IF phase[s] = 4 /\ s = "client" THEN rc' = [rc EXCEPT ![s] = 0] ELSE rc' = rc
  BY <1>4 DEF Synced, Go
<1>6. Sent(Peer(t))' = Sent(Peer(t))
  BY <1>0, BytesGet
<1>7. Came(t)' = Came(t)
  <2>1. CASE t = p
    <3>1. phase'[p] = phase[p] /\ nread'[p] = nread[p] /\ chan'[p] = chan[p]
      BY <1>0, <1>1, <1>4, <1>5 DEF Functions
    <3> QED BY <2>1, <3>1 DEF Came
  <2>2. CASE t = s
    <3>1. phase'[s] = phase[s] + 1 /\ nread'[s] = 0 /\ chan'[s] = chan[s] - Size(phase[s])
      BY <1>0, <1>1, <1>3, <1>4, <1>5 DEF Functions
    <3>2. phase'[s] - 1 = phase[s] /\ phase[s] \in 1 .. 4
      BY <1>1, <3>1
    <3>3. Total(phase[s]) = Total(phase[s] - 1) + Size(phase[s]) /\ Total(phase[s] - 1) \in Nat
      BY <3>2, TotalIs, BytesAre, TotalNat
    <3>4. /\ Came(s) = Total(phase[s] - 1) + 0 + chan[s]
          /\ Came(s)' = Total(phase[s]) + 0 + (chan[s] - Size(phase[s]))
      BY <1>3, <3>1, <3>2 DEF Came
    <3> QED BY <1>3, <2>2, <3>3, <3>4
  <2> QED BY <1>0, <2>1, <2>2
<1>8. ~ Gone(t)' => Came(t)' = Sent(Peer(t))'
  <2>1. Gone(t)' <=> Gone(t)
    BY <1>4 DEF Gone
  <2> QED BY <1>1, <1>6, <1>7, <2>1 DEF CleanOf
<1>9. phase'[t] >= 2 => props'[t] = "peer"
  BY <1>0, <1>1, <1>5 DEF Functions, CleanOf
<1>10. pc'[t] \in Over => /\ pc'[t] # "killed" /\ phase'[t] = 5 /\ rc'[t] = 0
                          /\ cq[t] = <<>> /\ rr[t] = 0 /\ wr[t] = "none"
  <2>1. CASE t = p
    BY <1>0, <1>1, <1>5, <2>1 DEF Functions, CleanOf
  <2>2. CASE t = s
    <3> SUFFICES ASSUME pc'[s] \in Over
                 PROVE  /\ pc'[s] # "killed" /\ phase'[s] = 5 /\ rc'[s] = 0
                        /\ cq[s] = <<>> /\ rr[s] = 0 /\ wr[s] = "none"
      BY <2>2
    <3>1. After(s, phase[s]) \in Over
      BY <1>1, <1>5 DEF Functions
    <3>2. phase[s] = 4 /\ s = "client" /\ After(s, phase[s]) = "destroy"
      BY <1>1, <3>1, Peers DEF After, Over
    <3>3. pc[s] \in Working(s) /\ ~ Waits(s)
      BY <1>1, <3>2 DEF Working, Syncing, Waits, Awaits, Polling
    <3> QED BY <1>1, <1>5, <3>2, <3>3, QueueIs DEF Functions
  <2> QED BY <1>0, <2>1, <2>2
<1>11. nread'[t] = 0
  BY <1>1, <1>5 DEF Functions, CleanOf
<1> QED BY <1>1, <1>4, <1>8, <1>9, <1>10, <1>11 DEF CleanOf

(* A side that has finished the sequence has read all that was sent to it: *)
(* the other one is not reset.                                             *)
LEMMA CleanEnd ==
  ASSUME LocalInv, LocalInv', BytesInv, CleanInv, clean, clean', NEW s \in Sides, End(s), NEW t \in Sides
  PROVE  CleanOf(t)'
<1> DEFINE p == Peer(s)
<1>0. p \in Sides /\ p # s /\ Peer(p) = s /\ (t = s \/ t = p)
  BY Peers
<1> HIDE DEF p
<1>1. /\ Functions /\ CleanOf(s) /\ CleanOf(p) /\ CleanOf(t) /\ pc[s] = "destroy" /\ phase[s] = 5
      /\ rc[s] = 0 /\ cq[s] = <<>> /\ rr[s] = 0 /\ wr[s] = "none"
  BY <1>0 DEF LocalInv, CleanInv, CleanOf, End, Over
<1>2. sock[s] = "open"
  BY <1>1 DEF LocalInv, SideInv, SocketOf
<1>3. chan[s] = 0
  <2>1. Came(s) = Sent(p)
    BY <1>1, <1>2 DEF CleanOf, Gone, p
  <2>2. Sent(p) <= Total(4) /\ Sent(p) \in Nat
    <3>1. phase[p] \in {1, 2, 3, 4, 5} /\ Sent(p) \in Nat
      BY <1>0, PlaceIs, BytesAre
    <3>2. Sent(p) \in {Total(0), Total(1), Total(2), Total(3), Total(4)}
      <4>1. CASE phase[p] # 5 /\ pc[p] \in {"get"} \cup Over
        BY <3>1, <4>1 DEF Sent
      <4>2. CASE ~ (phase[p] # 5 /\ pc[p] \in {"get"} \cup Over)
        <5>1. Sent(p) = Total(phase[p] - 1) /\ phase[p] - 1 \in {0, 1, 2, 3, 4}
          BY <3>1, <4>2 DEF Sent
        <5> QED BY <5>1
      <4> QED BY <4>1, <4>2
    <3> QED BY <3>1, <3>2, TotalIs, ConSizeAssumption
  <2>3. Came(s) = Total(4) + 0 + chan[s] /\ chan[s] \in Nat
    <3>1. phase[s] - 1 = 4
      BY <1>1
    <3> QED BY <1>1, <3>1, BytesAre DEF Came, CleanOf
  <2> QED BY <2>1, <2>2, <2>3, TotalIs, ConSizeAssumption
<1>4. /\ pc' = [pc EXCEPT ![s] = "ended"] /\ sock' = [sock EXCEPT ![s] = "closed"]
      /\ chan' = [chan EXCEPT ![s] = 0] /\ nread' = nread /\ rc' = rc
      /\ UNCHANGED <<phase, verbs>>
  BY <1>1, <1>2, <1>3 DEF End, Close, Go
<1>5. ~ Gone(t)' => Came(t)' = Sent(Peer(t))'
  <2>1. CASE t = s
    BY <1>1, <1>4, <2>1 DEF Gone, Functions
  <2>2. CASE t = p
    <3>1. sock'[p] = sock[p] /\ chan'[p] = chan[p] /\ phase' = phase /\ nread' = nread
      BY <1>0, <1>1, <1>4 DEF Functions
    <3>2. Came(p)' = Came(p) /\ (Gone(p)' <=> Gone(p))
      BY <3>1 DEF Came, Gone
    <3>3. Sent(s)' = Sent(s)
      BY <1>1, <1>4 DEF Sent
    <3> QED BY <1>0, <1>1, <2>2, <3>2, <3>3 DEF CleanOf, p
  <2> QED BY <1>0, <2>1, <2>2
<1>6. sock'[t] # "reset" /\ (pc'[t] \in Over => pc'[t] # "killed" /\ pc[t] \in Over)
  BY <1>0, <1>1, <1>4 DEF Functions, CleanOf, Over
<1> QED BY <1>1, <1>4, <1>5, <1>6 DEF CleanOf, verbs

(* The server sends its message after the client's receive request is      *)
(* posted, and the request is there as long as the message has not come.   *)
LEMMA ReadyServer ==
  ASSUME LocalInv, CleanInv, clean,
         \/ Listen \/ Accept \/ Obtain("server") \/ Put("server") \/ Get("server") \/ ModifyQp("server")
         \/ PostSend("server") \/ Poll("server") \/ Main("server") \/ Release("server") \/ End("server")
         \/ Acknowledge("server")
  PROVE  Ready'
<1> DEFINE c == "client"
           v == "server"
<1>0. /\ Functions /\ Ready /\ v \in Sides /\ c \in Sides /\ v # c
  BY DEF LocalInv, CleanInv, Sides
<1> SUFFICES /\ pc'[c] = pc[c] /\ phase'[c] = phase[c] /\ rr'[c] = rr[c]
             /\ Unsent' <=> Unsent
  BY <1>0 DEF Ready, Receptive, Awaits
<1>1. CASE Listen
  BY <1>0, <1>1 DEF Listen, Go, Functions, verbs, Unsent
<1>2. CASE Accept
  BY <1>0, <1>2 DEF Accept, Go, Functions, verbs, Unsent
<1>3. CASE Obtain(v)
  <2>1. Then[pc[v]] # "send" /\ pc[v] # "send" /\ pc' = [pc EXCEPT ![v] = Then[pc[v]]]
    BY <1>3, ThenIs DEF Obtain, Go, Creating
  <2> QED BY <1>0, <1>3, <2>1 DEF Obtain, Functions, Unsent
<1>4. CASE Put(v)
  BY <1>0, <1>4 DEF Put, Go, Functions, verbs, Unsent
<1>5. CASE Get(v)
  <2>1. PICK n \in Nat : GetWith(v, n)
    BY <1>0, <1>5, GetIs
  <2>2. phase[v] \in {1, 2, 3, 4} /\ pc[v] = "get"
    BY <1>0, <1>5, PlaceIs DEF Get, Syncing
  <2>3. After(v, 1) = "init" /\ After(v, 2) = "send" /\ After(v, 3) = "put" /\ After(v, 4) = "show"
    BY DEF After
  <2>4. \/ pc' = pc /\ phase' = phase
        \/ pc' = [pc EXCEPT ![v] = After(v, phase[v])] /\ phase' = [phase EXCEPT ![v] = @ + 1]
    BY <2>1 DEF GetWith, Synced, Go, prog
  <2>5. rr' = rr /\ wr' = wr
    BY <2>1 DEF GetWith
  <2>6. CASE pc' = pc /\ phase' = phase
    BY <2>5, <2>6 DEF Unsent
  <2>7. CASE pc' = [pc EXCEPT ![v] = After(v, phase[v])] /\ phase' = [phase EXCEPT ![v] = @ + 1]
    <3>1. /\ pc'[v] = After(v, phase[v]) /\ phase'[v] = phase[v] + 1
          /\ pc'[c] = pc[c] /\ phase'[c] = phase[c]
      BY <1>0, <2>7 DEF Functions
    <3> QED BY <2>2, <2>3, <2>5, <3>1 DEF Unsent
  <2> QED BY <2>4, <2>6, <2>7
<1>6. CASE ModifyQp(v)
  BY <1>0, <1>6 DEF ModifyQp, Go, Functions, Unsent
<1>7. CASE PostSend(v)
  <2>1. pc[v] = "send"
    BY <1>0, <1>7, CallsOfASide DEF PostSend
  <2> QED BY <1>0, <1>7, <2>1 DEF PostSend, Go, Functions, Unsent
<1>8. CASE Poll(v)
  <2>1. pc[v] # "send" /\ AfterPoll(v) # "send"
    BY <1>8 DEF Poll, Polling, AfterPoll
  <2> QED BY <1>0, <1>8, <2>1 DEF Poll, Go, Functions, Unsent
<1>9. CASE Main(v)
  BY <1>0, <1>9 DEF Main, Go, Functions, verbs, Unsent
<1>10. CASE Release(v)
  <2>1. UNCHANGED <<pc, phase, wr>> /\ (rr' = rr \/ rr' = [rr EXCEPT ![v] = 0])
    BY <1>10 DEF Release
  <2>2. rr'[c] = rr[c]
    BY <1>0, <2>1 DEF Functions
  <2> QED BY <2>1, <2>2 DEF Unsent
<1>11. CASE End(v)
  BY <1>0, <1>11 DEF End, Go, Functions, verbs, Unsent
<1>12. CASE Acknowledge(v)
  BY <1>0, <1>12 DEF Acknowledge, Functions, prog, Unsent
<1> QED BY <1>1, <1>2, <1>3, <1>4, <1>5, <1>6, <1>7, <1>8, <1>9, <1>10, <1>11, <1>12

LEMMA ReadyClient ==
  ASSUME LocalInv, BytesInv, CleanInv, clean,
         \/ Connect \/ Obtain("client") \/ Put("client") \/ Get("client") \/ ModifyQp("client")
         \/ PostReceive("client") \/ PostSend("client") \/ Poll("client") \/ Main("client")
         \/ Release("client") \/ End("client") \/ Deliver("client") \/ Acknowledge("client")
  PROVE  Ready'
<1> DEFINE c == "client"
           v == "server"
<1>0. /\ Functions /\ Ready /\ v \in Sides /\ c \in Sides /\ v # c /\ Peer(c) = v /\ Peer(v) = c
  BY DEF LocalInv, CleanInv, Sides, Peer
<1>1. CASE PostReceive(c)
  <2>1. /\ pc[c] = "rr" /\ pc' = [pc EXCEPT ![c] = "rtr"] /\ rr' = [rr EXCEPT ![c] = 1]
        /\ phase' = phase /\ wr' = wr
    BY <1>1 DEF PostReceive, Go
  <2>2. phase[c] = 2
    BY <1>0, <2>1, PlaceIs DEF Linking
  <2>3. phase[v] <= 2
    <3>1. Came(v) <= Sent(c) /\ Came(v) >= Total(phase[v] - 1)
      BY <1>0, CleanIs
    <3>2. Sent(c) = Total(1)
      <4>1. Sent(c) = Total(phase[c] - 1) /\ phase[c] - 1 = 1
        BY <2>1, <2>2 DEF Sent, Over
      <4> QED BY <4>1
    <3>3. Total(1) >= Total(phase[v] - 1) /\ phase[v] \in {1, 2, 3, 4, 5}
      <4>1. Came(v) \in Nat /\ phase[v] \in {1, 2, 3, 4, 5}
        BY <1>0, BytesAre, PlaceIs
      <4>2. phase[v] - 1 \in 0 .. 4
        BY <4>1
      <4>3. Total(phase[v] - 1) \in Nat /\ Total(1) \in Nat
        BY <4>2, TotalNat
      <4> QED BY <3>1, <3>2, <4>1, <4>3
    <3>4. phase[v] - 1 \notin {2, 3, 4}
      BY <3>3, TotalIs, ConSizeAssumption
    <3> QED BY <3>3, <3>4
  <2>4. pc'[c] = "rtr" /\ rr'[c] = 1 /\ phase'[v] <= 2
    BY <1>0, <2>1, <2>3 DEF Functions
  <2> QED BY <2>4 DEF Ready, Receptive, Unsent, Awaits
<1>2. CASE ~ PostReceive(c)
  <2> SUFFICES /\ pc'[v] = pc[v] /\ phase'[v] = phase[v] /\ wr'[v] = wr[v]
               /\ rr'[c] = rr[c] \/ rr'[c] = 0
               /\ Receptive => Receptive'
    BY <1>0 DEF Ready, Unsent
  <2>1. CASE Connect
    <3>1. pc'[c] \in Early
      BY <1>0, <2>1 DEF Connect, Go, Functions, Early, Creating
    <3> QED BY <1>0, <2>1, <3>1 DEF Connect, Go, Functions, verbs, Receptive
  <2>2. CASE Obtain(c)
    <3>1. /\ pc[c] \in Creating /\ Then[pc[c]] \in Early \cup {"put"} /\ pc' = [pc EXCEPT ![c] = Then[pc[c]]]
          /\ UNCHANGED <<phase, wr, rr>>
      BY <2>2, ThenIs DEF Obtain, Go, Early, Creating
    <3>2. phase[c] = 1
      BY <1>0, <3>1, PlaceIs DEF Early
    <3> QED BY <1>0, <3>1, <3>2 DEF Functions, Receptive, Syncing
  <2>3. CASE Put(c)
    BY <1>0, <2>3 DEF Put, Go, Functions, verbs, Receptive, Awaits, Syncing, Early, Creating
  <2>4. CASE Get(c)
    <3>1. PICK n \in Nat : GetWith(c, n)
      BY <1>0, <2>4, GetIs
    <3>2. phase[c] \in {1, 2, 3, 4} /\ pc[c] = "get"
      BY <1>0, <2>4, PlaceIs DEF Get, Syncing
    <3>3. After(c, 1) = "init" /\ After(c, 2) = "poll"
      BY DEF After
    <3>4. \/ pc' = pc /\ phase' = phase
          \/ pc' = [pc EXCEPT ![c] = After(c, phase[c])] /\ phase' = [phase EXCEPT ![c] = @ + 1]
      BY <3>1 DEF GetWith, Synced, Go, prog
    <3>5. rr' = rr /\ wr' = wr
      BY <3>1 DEF GetWith
    <3>6. CASE pc' = pc /\ phase' = phase
      BY <3>5, <3>6 DEF Receptive, Awaits
    <3>7. CASE pc' = [pc EXCEPT ![c] = After(c, phase[c])] /\ phase' = [phase EXCEPT ![c] = @ + 1]
      <4>1. /\ pc'[c] = After(c, phase[c]) /\ phase'[c] = phase[c] + 1
            /\ pc'[v] = pc[v] /\ phase'[v] = phase[v]
        BY <1>0, <3>7 DEF Functions
      <4>2. Receptive => phase[c] \in {1, 2}
        BY <3>2 DEF Receptive, Awaits, Syncing, Early, Creating
      <4>3. CASE phase[c] = 1
        BY <3>3, <3>5, <4>1, <4>3 DEF Receptive
      <4>4. CASE phase[c] = 2
        BY <3>2, <3>3, <3>5, <4>1, <4>4 DEF Receptive, Awaits, Early, Creating
      <4> QED BY <3>5, <4>1, <4>2, <4>3, <4>4
    <3> QED BY <3>4, <3>6, <3>7
  <2>5. CASE ModifyQp(c)
    <3>1. phase[c] = 2
      BY <1>0, <2>5, PlaceIs DEF ModifyQp, Linking
    <3> QED BY <1>0, <2>5, <3>1 DEF ModifyQp, Go, Functions, Receptive, Awaits, Syncing, Early,
      Creating
  <2>6. CASE PostSend(c)
    BY <1>0, <2>6 DEF PostSend, Go, Functions, Receptive, Awaits, Syncing, Early, Creating
  <2>7. CASE Poll(c)
    <3>1. rr[c] = 0 /\ pc[c] \in {"poll", "pollR", "pollW"}
      BY <1>0, <2>7, QueueIs DEF Poll, Polling
    <3>2. ~ Receptive
      BY <3>1 DEF Receptive, Syncing, Early, Creating
    <3> QED BY <1>0, <2>7, <3>2 DEF Poll, Go, Functions
  <2>8. CASE Main(c)
    <3>1. ~ Receptive
      BY <2>8 DEF Main, Receptive, Awaits, Syncing, Early, Creating
    <3> QED BY <1>0, <2>8, <3>1 DEF Main, Go, Functions, verbs
  <2>9. CASE Release(c)
    <3>1. UNCHANGED <<pc, phase, wr>> /\ (rr' = rr \/ rr' = [rr EXCEPT ![c] = 0]) /\ pc[c] = "destroy"
      BY <2>9 DEF Release
    <3>2. ~ Receptive
      BY <3>1 DEF Receptive, Awaits, Syncing, Early, Creating
    <3>3. rr'[c] = rr[c] \/ rr'[c] = 0
      BY <1>0, <3>1 DEF Functions
    <3> QED BY <3>1, <3>2, <3>3
  <2>10. CASE End(c)
    <3>1. ~ Receptive
      BY <2>10 DEF End, Receptive, Awaits, Syncing, Early, Creating
    <3> QED BY <1>0, <2>10, <3>1 DEF End, Go, Functions, verbs
  <2>11. CASE Deliver(c)
    <3>1. wr[c] # "SEND"
      BY <1>0, CallsOfASide
    <3> QED BY <1>0, <2>11, <3>1 DEF Deliver, Functions, prog, Receptive, Awaits
  <2>12. CASE Acknowledge(c)
    BY <1>0, <2>12 DEF Acknowledge, Functions, prog, Receptive, Awaits
  <2> QED BY <1>2, <2>1, <2>2, <2>3, <2>4, <2>5, <2>6, <2>7, <2>8, <2>9, <2>10, <2>11, <2>12
<1> QED BY <1>1, <1>2

(* The message comes.                                                      *)
LEMMA ReadyDeliver ==
  ASSUME LocalInv, BytesInv, CleanInv, clean, Deliver("server")
  PROVE  Ready'
<1> DEFINE c == "client"
           v == "server"
<1>0. /\ Functions /\ v \in Sides /\ c \in Sides /\ v # c /\ Peer(v) = c
  BY DEF LocalInv, Sides, Peer
<1>1. wr[v] = "SEND"
  BY <1>0, CallsOfASide DEF Deliver
<1>2. pc[v] \notin Over
  BY <1>0, <1>1, Reaches
<1>3. pc[v] = "poll"
  <2>1. Waits(v)
    BY <1>0, <1>1, <1>2, PlaceIs, QueueIs
  <2>2. pc[v] \in {"poll", "pollR", "pollW"}
    BY <2>1 DEF Waits, Awaits, Polling
  <2> QED BY <1>0, <2>2, CallsOfASide
<1>4. phase[v] = 3
  <2>1. pc[v] \in Third(v)
    BY <1>3 DEF Third
  <2> QED BY <1>0, <2>1, PlaceIs
<1>5. /\ wr' = [wr EXCEPT ![v] = "landed"] /\ rr[c] > 0 /\ rr' = [rr EXCEPT ![c] = @ - 1]
      /\ pc' = pc /\ phase' = phase
  BY <1>0, <1>1 DEF Deliver, prog
<1>6. wr'[v] = "landed" /\ rr'[c] = 0
  <2>1. rr[c] \in {0, 1}
    BY <1>0 DEF Functions
  <2>2. rr[c] = 1
    BY <1>5, <2>1
  <2>3. rr'[c] = rr[c] - 1 /\ wr'[v] = "landed"
    BY <1>0, <1>5 DEF Functions
  <2> QED BY <2>2, <2>3
<1>7. ~ Unsent'
  BY <1>3, <1>4, <1>5, <1>6 DEF Unsent
<1> QED BY <1>6, <1>7 DEF Ready

LEMMA CleanNext ==
  ASSUME LocalInv, LocalInv', BytesInv, CleanInv, [Next]_vars
  PROVE  CleanInv'
<1> SUFFICES ASSUME clean'
             PROVE  Ready' /\ \A t \in Sides : CleanOf(t)'
  BY DEF CleanInv
<1>0. clean /\ "server" \in Sides
  BY CleanBefore DEF Sides
<1>1. CASE UNCHANGED vars
  <2>1. \A t \in Sides : CleanOf(t)'
    BY <1>0, <1>1, CalmSteps, CalmKeeps
  <2>2. Ready'
    BY <1>0, <1>1 DEF CleanInv, vars, prog, verbs, Ready, Receptive, Unsent, Awaits
  <2> QED BY <2>1, <2>2
<1>2. CASE Listen \/ Accept \/ Connect
  BY <1>0, <1>2, CalmSteps, CalmKeeps, ReadyServer, ReadyClient
<1>3. ASSUME NEW s \in Sides, Step(s)
      PROVE  Ready' /\ \A t \in Sides : CleanOf(t)'
  <2>1. ~ GetError(s) /\ ~ Timeout(s) /\ ~ (Poll(s) /\ Head(cq[s]) # "ok")
    BY <1>0, NoFailure
  <2>2. PostReceive(s) => s = "client"
    BY DEF PostReceive, LocalInv, SideInv, PlaceOf
  <2>3. Ready'
    BY <1>0, <1>3, <2>1, <2>2, Peers, ReadyServer, ReadyClient DEF Step
  <2>4. \A t \in Sides : CleanOf(t)'
    <3>1. CASE Put(s) \/ Get(s) \/ End(s)
      BY <1>0, <3>1, CleanPut, CleanGet, CleanEnd
    <3>2. CASE ~ (Put(s) \/ Get(s) \/ End(s))
      BY <1>0, <1>3, <2>1, <3>2, CalmSteps, CalmKeeps DEF Step
    <3> QED BY <3>1, <3>2
  <2> QED BY <2>3, <2>4
<1>4. ASSUME NEW s \in Sides, Fault(s)
      PROVE  FALSE
  BY <1>0, <1>4, NoFailure DEF Fault
<1>5. ASSUME NEW s \in Sides, Deliver(s) \/ Acknowledge(s)
      PROVE  Ready' /\ \A t \in Sides : CleanOf(t)'
  <2>1. Ready'
    BY <1>0, <1>5, Peers, ReadyServer, ReadyClient, ReadyDeliver
  <2> QED BY <1>0, <1>5, <2>1, CalmSteps, CalmKeeps
<1> QED BY <1>1, <1>2, <1>3, <1>4, <1>5 DEF Next

LEMMA CleanInit ==
  ASSUME Init
  PROVE  CleanInv
<1>1. \A s \in Sides : /\ pc[s] = "start" /\ phase[s] = 1 /\ nread[s] = 0 /\ chan[s] = 0 /\ sock[s] = "none"
                       /\ cq[s] = <<>> /\ rr[s] = 0
  BY DEF Init
<1>2. \A s \in Sides : Came(s) = 0 /\ Sent(s) = 0
  BY TotalIs DEF Init, Came, Sent, Over
<1>3. \A s \in Sides : CleanOf(s)
  BY <1>1, <1>2, Peers, CompletionsAre DEF CleanOf, Over
<1>4. Ready
  BY <1>1 DEF Ready, Receptive, Unsent, Early, Sides
<1> QED BY <1>3, <1>4 DEF CleanInv

(* While nothing has failed of its own accord, no byte that was sent is    *)
(* lost, the client's receive request is posted before the server sends    *)
(* its message, and a side leaves main's sequence only at its end.         *)
THEOREM CleanInvHolds == Spec => [](LocalInv /\ BytesInv /\ CleanInv)
<1>1. Init => LocalInv /\ BytesInv /\ CleanInv
  BY LocalInit, BytesInit, CleanInit
<1>2. LocalInv /\ BytesInv /\ CleanInv /\ [Next]_vars => (LocalInv /\ BytesInv /\ CleanInv)'
  BY LocalNext, BytesNext, CleanNext
<1> QED BY <1>1, <1>2, PTL DEF Spec

(* Once connected, nobody fails because of the other one's speed: when a   *)
(* side ends with 1, some call failed, timed out or came short of its own  *)
(* accord before.                                                          *)
THEOREM NoSpuriousFailureHolds == Spec => []NoSpuriousFailure
<1>1. CleanInv => NoSpuriousFailure
  BY DEF CleanInv, CleanOf, NoSpuriousFailure, Over
<1> QED BY <1>1, CleanInvHolds, PTL
=============================================================================
