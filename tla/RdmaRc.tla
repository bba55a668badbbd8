------------------------------- MODULE RdmaRc -------------------------------
(***************************************************************************)
(* The RDMA example (rdma_rc_example.c): a server and a client exchange    *)
(* addresses over a TCP socket, connect a pair of reliable queue pairs,    *)
(* the server sends a message, the client then reads and overwrites the    *)
(* server's memory, and four synchronisations over the socket keep the     *)
(* two in step.                                                            *)
(*                                                                         *)
(* A step is one call to the socket or verbs library.  Any call may fail,  *)
(* a wait for a completion may time out, and a read from the socket may    *)
(* return part of what was asked for.  A side that fails goes through      *)
(* resources_destroy and closes its socket, which the other side notices   *)
(* as an end of file.  The network and the adapters are external: a        *)
(* request reaches the other side as long as that one has a queue pair     *)
(* that is ready, and one on its way arrives even after its sender is gone.*)
(***************************************************************************)
EXTENDS Naturals, Sequences, FiniteSets, SequencesExt

CONSTANT ConSize  \* bytes of the connection data, sizeof(struct cm_con_data_t)
ASSUME ConSizeAssumption == ConSize \in Nat /\ ConSize > 1

Sides == {"server", "client"}
Peer(s) == IF s = "server" THEN "client" ELSE "server"

VARIABLES
  pc,       \* pc[s]: the next call of side s
  phase,    \* phase[s]: number of its next synchronisation
  rc,       \* rc[s]: what its main returns
  ptr,      \* ptr[s]: handles that are not NULL
  obj,      \* obj[s]: resources that exist
  sock,     \* sock[s]: "none", "open", "closed", or "reset": closed with data unread
  chan,     \* chan[s]: number of bytes that wait to be read by s
  nread,    \* nread[s]: total_read_bytes of the synchronisation it is in
  props,    \* props[s]: remote_props, "none", "peer", "junk", or "unread": never received
  qp,       \* qp[s]: state of the queue pair
  rr,       \* rr[s]: posted receive requests
  wr,       \* wr[s]: send request in the network, "landed" when it is only to be acknowledged
  cq,       \* cq[s]: completions, "ok" or "bad"
  buf,      \* buf[s]: content of the buffer
  seen,     \* seen[s]: what s has printed of its buffer
  clean     \* history: no call has failed or timed out of its own accord

prog == <<pc, phase, rc>>
handles == <<ptr, obj>>
tcp == <<sock, chan, nread>>
verbs == <<props, qp, rr, wr, cq>>
memory == <<buf, seen>>
vars == <<prog, handles, tcp, verbs, memory, clean>>

(* The four calls of sock_sync_data: the connection data, then one byte    *)
(* each.                                                                   *)
Size(k) == IF k = 1 THEN ConSize ELSE 1

(* resources_create: what is obtained in which order ("port" is a query).  *)
Then == [list |-> "ctx", ctx |-> "port", port |-> "pd", pd |-> "cq",
         cq |-> "buf", buf |-> "mr", mr |-> "qp", qp |-> "put"]
Handle == DOMAIN Then \ {"port"}
(* resources_destroy: the order of release, and what keeps one busy.       *)
Order == <<"qp", "mr", "buf", "cq", "pd", "ctx">>
Users == [qp |-> {}, mr |-> {}, buf |-> {}, cq |-> {"qp"}, pd |-> {"qp", "mr"}, ctx |-> {}]
CqSize == 1

Gone(s) == sock[s] \in {"closed", "reset"}
(* The other side reads an end of file from a socket that was closed, and  *)
(* an error from one that was closed with unread data or never accepted.   *)
Close(s) ==
  /\ sock' = [sock EXCEPT ![s] = IF pc[s] # "accept" /\ chan[s] = 0 THEN "closed" ELSE "reset"]
  /\ chan' = [chan EXCEPT ![s] = 0] /\ UNCHANGED nread
Go(s, p) == pc' = [pc EXCEPT ![s] = p]
(* A call of s fails of its own accord: main goes to main_exit.            *)
GiveUp(s) == Go(s, "destroy") /\ clean' = FALSE

Init ==
  /\ pc = [s \in Sides |-> "start"] /\ phase = [s \in Sides |-> 1]
  /\ rc = [s \in Sides |-> 1]
  /\ ptr = [s \in Sides |-> {}] /\ obj = [s \in Sides |-> {}]
  /\ sock = [s \in Sides |-> "none"] /\ chan = [s \in Sides |-> 0]
  /\ nread = [s \in Sides |-> 0]
  /\ props = [s \in Sides |-> "none"] /\ qp = [s \in Sides |-> "none"]
  /\ rr = [s \in Sides |-> 0] /\ wr = [s \in Sides |-> "none"]
  /\ cq = [s \in Sides |-> <<>>]
  /\ buf = [s \in Sides |-> "none"] /\ seen = [s \in Sides |-> <<>>]
  /\ clean = TRUE

-----------------------------------------------------------------------------
(* sock_connect.  A server waits for a client as long as it takes.         *)
Listen ==
  /\ pc["server"] = "start" /\ Go("server", "accept")
  /\ UNCHANGED <<phase, rc, handles, tcp, verbs, memory, clean>>
Accept ==
  /\ pc["server"] = "accept" /\ sock["client"] # "none"
  /\ sock' = [sock EXCEPT !["server"] = "open"] /\ Go("server", "list")
  /\ UNCHANGED <<phase, rc, handles, chan, nread, verbs, memory, clean>>
Connect ==
  /\ pc["client"] = "start" /\ pc["server"] = "accept"
  /\ sock' = [sock EXCEPT !["client"] = "open"] /\ Go("client", "list")
  /\ UNCHANGED <<phase, rc, handles, chan, nread, verbs, memory, clean>>

(* resources_create after the socket.  The device list is freed when the   *)
(* device is open.                                                         *)
Keep(h, have) == (have \cup ({h} \cap Handle)) \ (IF h = "ctx" THEN {"list"} ELSE {})
Obtain(s) ==
  LET h == pc[s]
  IN  /\ h \in DOMAIN Then /\ Go(s, Then[h])
      /\ ptr' = [ptr EXCEPT ![s] = Keep(h, @)] /\ obj' = [obj EXCEPT ![s] = Keep(h, @)]
      /\ buf' = IF h = "buf" THEN [buf EXCEPT ![s] = IF s = "server" THEN "MSG" ELSE "zero"]
                ELSE buf
      /\ qp' = IF h = "qp" THEN [qp EXCEPT ![s] = "RESET"] ELSE qp
      /\ UNCHANGED <<phase, rc, tcp, props, rr, wr, cq, seen, clean>>

(* Its error exit releases everything and clears the handles; an accept    *)
(* that fails closes the listening socket.                                 *)
Cleanup_Dangling(s) ==
  /\ pc[s] \in DOMAIN Then \cup {"accept"}
  /\ obj' = [obj EXCEPT ![s] = {}] /\ ptr' = [ptr EXCEPT ![s] = @ \ {"list"}]
  /\ Close(s) /\ GiveUp(s)
  /\ UNCHANGED <<phase, rc, verbs, memory>>
Cleanup(s) ==
  /\ pc[s] \in DOMAIN Then \cup {"accept"}
  /\ obj' = [obj EXCEPT ![s] = {}] /\ ptr' = [ptr EXCEPT ![s] = {}]
  /\ Close(s) /\ GiveUp(s)
  /\ UNCHANGED <<phase, rc, verbs, memory>>

-----------------------------------------------------------------------------
(* sock_sync_data: the write.  Into a socket that the other side has       *)
(* closed it may still succeed, fail (CallFails), or its signal ends the   *)
(* process.                                                                *)
Put_Second(s) ==
  /\ pc[s] = "put" /\ chan[s] # 0
  /\ chan' = IF Gone(Peer(s)) THEN chan ELSE [chan EXCEPT ![Peer(s)] = @ + Size(phase[s])]
  /\ Go(s, "get")
  /\ UNCHANGED <<phase, rc, handles, sock, nread, verbs, memory, clean>>
Put(s) ==
  /\ pc[s] = "put"
  /\ chan' = IF Gone(Peer(s)) THEN chan ELSE [chan EXCEPT ![Peer(s)] = @ + Size(phase[s])]
  /\ Go(s, "get")
  /\ UNCHANGED <<phase, rc, handles, sock, nread, verbs, memory, clean>>
Killed(s) ==
  /\ pc[s] = "put" /\ Gone(Peer(s)) /\ Go(s, "killed")
  /\ ptr' = [ptr EXCEPT ![s] = {}] /\ obj' = [obj EXCEPT ![s] = {}]
  /\ qp' = [qp EXCEPT ![s] = "none"] /\ rr' = [rr EXCEPT ![s] = 0] /\ cq' = [cq EXCEPT ![s] = <<>>]
  /\ Close(s)
  /\ UNCHANGED <<phase, rc, props, wr, memory, clean>>

(* A write that comes short returns a positive number.  The loop of reads  *)
(* does not run then, and connect_qp, which tests for a negative number,   *)
(* goes on without the other side's data.                                  *)
ShortWrite(s) ==
  /\ pc[s] = "put" /\ phase[s] = 1
  /\ \E n \in 1 .. ConSize - 1 :
       chan' = IF Gone(Peer(s)) THEN chan ELSE [chan EXCEPT ![Peer(s)] = @ + n]
  /\ props' = [props EXCEPT ![s] = "unread"] /\ phase' = [phase EXCEPT ![s] = 2]
  /\ Go(s, "init") /\ clean' = FALSE
  /\ UNCHANGED <<rc, handles, sock, nread, qp, rr, wr, cq, memory>>

(* Its loop of reads.  Every read asks for the full size and stores at the *)
(* start of the buffer: a second read spoils what the first one brought    *)
(* and may take bytes of the next synchronisation.  What comes in one read *)
(* is the other side's data unless that side has not sent all of it.  At   *)
(* an end of file read returns 0, rc stays 0 and the loop goes round for   *)
(* ever: no step.                                                          *)
After(s, k) ==
  CASE k = 1 -> "init"
    [] k = 2 -> IF s = "server" THEN "send" ELSE "poll"
    [] k = 3 -> IF s = "server" THEN "put" ELSE "read"
    [] k = 4 -> IF s = "server" THEN "show" ELSE "destroy"
Synced(s, full) ==
  LET k == phase[s]
  IN  /\ Go(s, After(s, k)) /\ phase' = [phase EXCEPT ![s] = @ + 1]
      /\ nread' = [nread EXCEPT ![s] = 0]
      /\ props' = IF k = 1 THEN [props EXCEPT ![s] = IF full THEN "peer" ELSE "junk"] ELSE props
      /\ rc' = IF k = 4 /\ s = "client" THEN [rc EXCEPT ![s] = 0] ELSE rc
Get_Eof(s) ==
  /\ pc[s] = "get"
  /\ \/ \E n \in 1 .. Size(phase[s]) :
          /\ n <= chan[s]
          /\ chan' = [chan EXCEPT ![s] = @ - n]
          /\ IF nread[s] + n < Size(phase[s])
             THEN /\ nread' = [nread EXCEPT ![s] = @ + n] /\ clean' = FALSE
                  /\ UNCHANGED <<prog, props>>
             ELSE Synced(s, n = Size(phase[s]) /\ nread[s] = 0 /\ props[Peer(s)] # "unread") /\ UNCHANGED clean
     \/ chan[s] = 0 /\ Gone(Peer(s)) /\ Synced(s, FALSE) /\ UNCHANGED <<chan, clean>>
  /\ UNCHANGED <<handles, sock, qp, rr, wr, cq, memory>>
Get(s) ==
  /\ pc[s] = "get"
  /\ \E n \in 1 .. Size(phase[s]) :
       /\ n <= chan[s]
       /\ chan' = [chan EXCEPT ![s] = @ - n]
       /\ IF nread[s] + n < Size(phase[s])
          THEN /\ nread' = [nread EXCEPT ![s] = @ + n] /\ clean' = FALSE
               /\ UNCHANGED <<prog, props>>
          ELSE Synced(s, n = Size(phase[s]) /\ nread[s] = 0 /\ props[Peer(s)] # "unread") /\ UNCHANGED clean
  /\ UNCHANGED <<handles, sock, qp, rr, wr, cq, memory>>
GetError(s) ==
  /\ pc[s] = "get" /\ chan[s] = 0 /\ sock[Peer(s)] = "reset" /\ Go(s, "destroy")
  /\ UNCHANGED <<phase, rc, handles, tcp, verbs, memory, clean>>

-----------------------------------------------------------------------------
(* connect_qp between its two synchronisations: modify_qp_to_init, the     *)
(* client's post_receive, modify_qp_to_rtr and modify_qp_to_rts.           *)
ModifyQp_NoReceive(s) ==
  /\ \/ pc[s] = "init" /\ qp' = [qp EXCEPT ![s] = "INIT"] /\ Go(s, "rtr")
     \/ pc[s] = "rtr" /\ qp' = [qp EXCEPT ![s] = "RTR"] /\ Go(s, "rts")
     \/ pc[s] = "rts" /\ qp' = [qp EXCEPT ![s] = "RTS"] /\ Go(s, "put")
  /\ UNCHANGED <<phase, rc, handles, tcp, props, rr, wr, cq, memory, clean>>
ModifyQp(s) ==
  /\ \/ /\ pc[s] = "init" /\ qp' = [qp EXCEPT ![s] = "INIT"]
        /\ Go(s, IF s = "client" THEN "rr" ELSE "rtr")
     \/ pc[s] = "rtr" /\ qp' = [qp EXCEPT ![s] = "RTR"] /\ Go(s, "rts")
     \/ pc[s] = "rts" /\ qp' = [qp EXCEPT ![s] = "RTS"] /\ Go(s, "put")
  /\ UNCHANGED <<phase, rc, handles, tcp, props, rr, wr, cq, memory, clean>>
PostReceive(s) ==
  /\ pc[s] = "rr" /\ rr' = [rr EXCEPT ![s] = 1] /\ Go(s, "rtr")
  /\ UNCHANGED <<phase, rc, handles, tcp, props, qp, wr, cq, memory, clean>>

(* post_send of the server's message, the client's read and its write.     *)
PostSend(s) ==
  /\ \/ pc[s] = "send" /\ wr' = [wr EXCEPT ![s] = "SEND"] /\ Go(s, "poll")
     \/ pc[s] = "read" /\ wr' = [wr EXCEPT ![s] = "READ"] /\ Go(s, "pollR")
     \/ pc[s] = "write" /\ wr' = [wr EXCEPT ![s] = "WRITE"] /\ Go(s, "pollW")
  /\ UNCHANGED <<phase, rc, handles, tcp, props, qp, rr, cq, memory, clean>>

(* poll_completion, and what main does with the buffer when it succeeds.   *)
AfterPoll(s) ==
  CASE pc[s] = "poll" -> IF s = "server" THEN "fill" ELSE "show"
    [] pc[s] = "pollR" -> "showR"
    [] pc[s] = "pollW" -> "put"
Polling(s) == pc[s] \in {"poll", "pollR", "pollW"}
Poll_Peek(s) ==
  /\ Polling(s) /\ cq[s] # <<>>
  /\ Go(s, IF Head(cq[s]) = "ok" THEN AfterPoll(s) ELSE "destroy")
  /\ UNCHANGED <<phase, rc, handles, tcp, verbs, memory, clean>>
Poll(s) ==
  /\ Polling(s) /\ cq[s] # <<>> /\ cq' = [cq EXCEPT ![s] = Tail(@)]
  /\ Go(s, IF Head(cq[s]) = "ok" THEN AfterPoll(s) ELSE "destroy")
  /\ UNCHANGED <<phase, rc, handles, tcp, props, qp, rr, wr, memory, clean>>
(* No completion in time: nothing has failed of its own accord only when   *)
(* none was on its way and the other side waits or is gone.                *)
Hopeless(s) ==
  LET p == Peer(s)
  IN  /\ wr[s] = "none" /\ wr[p] = "none"
      /\ \/ pc[p] \in {"ended", "killed"}
         \/ pc[p] = "get" /\ chan[p] = 0
Timeout(s) ==
  /\ Polling(s) /\ cq[s] = <<>> /\ Go(s, "destroy") /\ clean' = (clean /\ Hopeless(s))
  /\ UNCHANGED <<phase, rc, handles, tcp, verbs, memory>>

Main_Late(s) ==
  /\ \/ pc[s] = "fill" /\ Go(s, "put") /\ UNCHANGED <<memory, rc>>
     \/ /\ pc[s] = "show" /\ seen' = [seen EXCEPT ![s] = Append(@, buf[s])] /\ UNCHANGED buf
        /\ Go(s, IF s = "server" THEN "destroy" ELSE "put")
        /\ rc' = IF s = "server" THEN [rc EXCEPT ![s] = 0] ELSE rc
     \/ /\ pc[s] = "showR" /\ seen' = [seen EXCEPT ![s] = Append(@, buf[s])]
        /\ buf' = [buf EXCEPT ![s] = "W"] /\ Go(s, "write") /\ UNCHANGED rc
  /\ UNCHANGED <<phase, handles, tcp, verbs, clean>>
Main(s) ==
  /\ \/ /\ pc[s] = "fill" /\ buf' = [buf EXCEPT ![s] = "R"] /\ Go(s, "put")
        /\ UNCHANGED <<seen, rc>>
     \/ /\ pc[s] = "show" /\ seen' = [seen EXCEPT ![s] = Append(@, buf[s])] /\ UNCHANGED buf
        /\ Go(s, IF s = "server" THEN "destroy" ELSE "put")
        /\ rc' = IF s = "server" THEN [rc EXCEPT ![s] = 0] ELSE rc
     \/ /\ pc[s] = "showR" /\ seen' = [seen EXCEPT ![s] = Append(@, buf[s])]
        /\ buf' = [buf EXCEPT ![s] = "W"] /\ Go(s, "write") /\ UNCHANGED rc
  /\ UNCHANGED <<phase, handles, tcp, verbs, clean>>

(* Any call of these may fail.                                             *)
CallFails(s) ==
  /\ pc[s] \in {"start", "put", "get", "init", "rr", "rtr", "rts", "send", "read", "write",
                "poll", "pollR", "pollW"}
  /\ GiveUp(s)
  /\ UNCHANGED <<phase, rc, handles, tcp, verbs, memory>>

-----------------------------------------------------------------------------
(* resources_destroy: one handle after the other, whether or not the one   *)
(* before could be released, and the socket last.  What a queue held goes  *)
(* with it.                                                                *)
First(s) == Order[CHOOSE i \in DOMAIN Order :
                    Order[i] \in ptr[s] /\ \A j \in 1 .. i - 1 : Order[j] \notin ptr[s]]
Free(s, h) == Users[h] \cap obj[s] = {}
Release(s) ==
  LET h == First(s)
  IN  /\ pc[s] = "destroy" /\ ptr[s] # {} /\ ptr' = [ptr EXCEPT ![s] = @ \ {h}]
      /\ \/ /\ Free(s, h) /\ obj' = [obj EXCEPT ![s] = @ \ {h}] /\ UNCHANGED <<rc, clean>>
         \/ /\ h # "buf" /\ UNCHANGED obj /\ rc' = [rc EXCEPT ![s] = 1]
            /\ clean' = (clean /\ ~Free(s, h))
      /\ cq' = IF "cq" \in obj'[s] THEN cq ELSE [cq EXCEPT ![s] = <<>>]
      /\ IF "qp" \in obj'[s] THEN UNCHANGED <<qp, rr>>
         ELSE qp' = [qp EXCEPT ![s] = "none"] /\ rr' = [rr EXCEPT ![s] = 0]
      /\ UNCHANGED <<pc, phase, tcp, props, wr, memory>>
End(s) ==
  /\ pc[s] = "destroy" /\ ptr[s] = {} /\ Go(s, "ended")
  /\ IF sock[s] = "open" THEN Close(s) ELSE UNCHANGED tcp
  /\ \/ UNCHANGED <<rc, clean>>
     \/ sock[s] = "open" /\ rc' = [rc EXCEPT ![s] = 1] /\ clean' = FALSE
  /\ UNCHANGED <<phase, handles, verbs, memory>>

-----------------------------------------------------------------------------
(* The network and the adapters (external).                                *)
Able(s) == {"qp", "cq"} \subseteq obj[s]
Reach(s) ==
  LET p == Peer(s)
  IN  /\ qp[p] \in {"RTR", "RTS"} /\ props[s] = "peer" /\ props[p] = "peer"
      /\ wr[s] \in {"READ", "WRITE"} => "mr" \in obj[p]
Complete(s, status) == [cq EXCEPT ![s] = IF Able(s) THEN Append(@, status) ELSE @]
Deliver(s) ==
  LET p == Peer(s)
  IN  /\ Reach(s)
      /\ \/ /\ wr[s] = "SEND" /\ rr[p] > 0 /\ rr' = [rr EXCEPT ![p] = @ - 1]
            /\ buf' = [buf EXCEPT ![p] = buf[s]] /\ wr' = [wr EXCEPT ![s] = "landed"]
            /\ cq' = Complete(p, "ok")
         \/ /\ wr[s] = "WRITE" /\ buf' = [buf EXCEPT ![p] = buf[s]]
            /\ wr' = [wr EXCEPT ![s] = "landed"] /\ UNCHANGED <<rr, cq>>
         \/ /\ wr[s] = "READ" /\ Able(s) /\ buf' = [buf EXCEPT ![s] = buf[p]]
            /\ wr' = [wr EXCEPT ![s] = "none"] /\ cq' = Complete(s, "ok") /\ UNCHANGED rr
      /\ UNCHANGED <<prog, handles, tcp, props, qp, seen, clean>>
Acknowledge(s) ==
  /\ wr[s] = "landed" /\ wr' = [wr EXCEPT ![s] = "none"] /\ cq' = Complete(s, "ok")
  /\ UNCHANGED <<prog, handles, tcp, props, qp, rr, memory, clean>>
(* A request fails: the other side cannot be reached, has no receive       *)
(* request for a message (rnr_retry is 0), or the network is down.         *)
Break(s) ==
  /\ wr[s] # "none" /\ wr' = [wr EXCEPT ![s] = "none"] /\ cq' = Complete(s, "bad")
  /\ clean' = (clean /\ (~Reach(s) \/ (wr[s] = "SEND" /\ rr[Peer(s)] = 0)))
  /\ UNCHANGED <<prog, handles, tcp, props, qp, rr, memory>>

-----------------------------------------------------------------------------
Step(s) ==
  Obtain(s) \/ Put(s) \/ Get(s) \/ GetError(s) \/ ModifyQp(s) \/ PostReceive(s) \/ PostSend(s) \/ Poll(s)
    \/ Timeout(s) \/ Main(s) \/ Release(s) \/ End(s)
Fault(s) == Cleanup(s) \/ Killed(s) \/ ShortWrite(s) \/ CallFails(s) \/ Break(s)
Next ==
  \/ Listen \/ Accept \/ Connect
  \/ \E s \in Sides : Step(s) \/ Fault(s) \/ Deliver(s) \/ Acknowledge(s)
Spec == Init /\ [][Next]_vars
(* A running process goes on, and adapters carry out what they can.        *)
Fairness ==
  /\ WF_vars(Listen) /\ WF_vars(Accept)
  /\ \A s \in Sides : WF_vars(Step(s)) /\ WF_vars(Deliver(s) \/ Acknowledge(s))
FairSpec == Spec /\ Fairness

-----------------------------------------------------------------------------
(* Types, and the comment at 587 that a completion queue of one entry is   *)
(* enough: what is posted and what waits to be polled is never more.       *)
TypeOK ==
  /\ phase \in [Sides -> 1 .. 5] /\ rc \in [Sides -> {0, 1}]
  /\ ptr \in [Sides -> SUBSET Handle] /\ obj \in [Sides -> SUBSET Handle]
  /\ sock \in [Sides -> {"none", "open", "closed", "reset"}]
  /\ nread \in [Sides -> 0 .. ConSize - 1] /\ chan \in [Sides -> Nat]
  /\ props \in [Sides -> {"none", "peer", "junk", "unread"}]
  /\ qp \in [Sides -> {"none", "RESET", "INIT", "RTR", "RTS"}]
  /\ rr \in [Sides -> 0 .. 1] /\ wr \in [Sides -> {"none", "SEND", "READ", "WRITE", "landed"}]
  /\ cq \in [Sides -> Seq({"ok", "bad"})]
  /\ buf \in [Sides -> {"none", "zero", "MSG", "R", "W"}] /\ clean \in BOOLEAN
  /\ \A s \in Sides : Len(cq[s]) + rr[s] + (IF wr[s] = "none" THEN 0 ELSE 1) <= CqSize

(* A pointer that is not NULL points to something that exists: nothing is  *)
(* released twice, also when the clean-up of resources_create is followed  *)
(* by resources_destroy.  Memory is freed while the adapter may access it  *)
(* only when a release has failed.  Who returns 0 has released everything. *)
Handles ==
  \A s \in Sides :
    /\ ptr[s] \subseteq obj[s]
    /\ "mr" \in obj[s] /\ clean => "buf" \in obj[s]
    /\ pc[s] = "ended" /\ rc[s] = 0 => obj[s] = {} /\ Gone(s)

(* Once connected, nobody fails because of the order in which the two      *)
(* sides come to their calls: when a side ends with 1, some call failed or *)
(* came short before, or a poll gave up at its two seconds on a completion *)
(* that was still to come, which a slow peer may also be the reason for.   *)
NoSpuriousFailure ==
  \A s \in Sides : pc[s] \in {"destroy", "ended", "killed"} /\ rc[s] = 1 => ~clean

(* Whatever fails or comes short, a side prints only what the other one    *)
(* put there for it: the client the message, then the data the server has  *)
(* prepared; the server what the client wrote.                             *)
Contents ==
  /\ IsPrefix(seen["client"], <<"MSG", "R">>)
  /\ IsPrefix(seen["server"], <<"W">>)

(* A side leaves its kth synchronisation only after the other one has      *)
(* reached it, also when short reads let it take bytes of a later one; a   *)
(* short write is the exception.                                           *)
InStep == \A s \in Sides : props[s] # "unread"
Barrier ==
  InStep => \A s \in Sides : LET p == Peer(s) IN
    \/ phase[p] >= phase[s]
    \/ phase[p] = phase[s] - 1 /\ pc[p] \in {"get", "destroy", "ended", "killed"}

(* Both sides come to an end, unless the client never connects.  Only when *)
(* something failed or came short may a side be left in sock_sync_data: at *)
(* the end of file of a side that has gone, or with both reading, because  *)
(* one has taken bytes of a later synchronisation or never sent its own.   *)
Left(s) ==
  LET p == Peer(s)
  IN  /\ ~clean /\ pc[s] = "get" /\ chan[s] = 0
      /\ sock[p] = "closed" \/ (pc[p] = "get" /\ chan[p] = 0)
Ends ==
  <>[](\A s \in Sides : \/ pc[s] \in {"ended", "killed"}
                        \/ sock["client"] = "none" /\ pc[s] \in {"start", "accept"}
                        \/ Left(s))
=============================================================================
