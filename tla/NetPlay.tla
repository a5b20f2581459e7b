------------------------------- MODULE NetPlay -------------------------------
(***************************************************************************)
(* Playing over the network: libnethack_client (connection.c, clientapi.c, *)
(* the server_error command of netcmd.c), the client's prompts, and one    *)
(* server process for each connection (nethack_server: server.c,           *)
(* clientmain.c, clientcmd.c, client_request of winprocs.c).               *)
(*                                                                         *)
(* Messages alternate: a request of the client, then callbacks of the      *)
(* server ("prompt") and the client's answers to them, then the response.  *)
(* Only a server cancel may come at any time.  At a prompt the user may    *)
(* start further requests.  A connection can break at any moment; the      *)
(* client then connects again, and jumps back to its play_game request if  *)
(* there is one, or else sends its last message again.                     *)
(*                                                                         *)
(* A message holds the number of the API call (or, for auth and shutdown,  *)
(* of the connection) that it belongs to.  The code has no such number: it *)
(* is there for the properties.                                            *)
(***************************************************************************)
EXTENDS Naturals, Sequences, FiniteSets, SequencesExt

CONSTANTS
  Retries,     \* send_receive_msg's retry_count, 3 in the code
  MaxConns,    \* bound on connections: later ones are refused
  MaxCalls,    \* bound on API calls
  MaxCancels   \* bound on server cancels

ASSUME NetAssumption ==
  {Retries, MaxConns, MaxCalls, MaxCancels} \subseteq Nat

VARIABLES
  con,      \* the connections so far, each with its server process
  cl,       \* the client
  cancels   \* server cancels sent

vars == <<con, cl, cancels>>

\* server_error with error: false is "quit" here, with error: true "error".
Errors == {"error", "quit"}
Msg(k, id) == [k |-> k, id |-> id]

\* A connection: up until one end or the network breaks it; a message that
\* came in part only follows toClient if cut, and gap says that the client has
\* thrown one away, for the properties.  The server process is at "auth",
\* "main" (client_main_loop), "game" (in nh_play_game), "wait" (client_request),
\* "gone", or at "bad": it gave up on a message that was out of sequence.
\* can is can_send_msg, req the play_game request that it works on.
NewCon == [up |-> TRUE, toServer |-> <<>>, toClient |-> <<>>, cut |-> FALSE,
           gap |-> FALSE, st |-> "auth", can |-> FALSE, req |-> 0]

\* An activation of send_receive_msg.  key is sendkey, retry is retry_count,
\* cont says what called restart_connection if this is its "auth" request:
\* the loop, the handler of a server_error (which may be retried: "again"),
\* nhnet_check_socket_fd or the user.
Frame(call, id, cont) ==
  [call |-> call, key |-> call, id |-> id, pc |-> "send", retry |-> Retries,
   cont |-> cont]

\* The client outside of the library counts as one more frame.
Menu == [call |-> "menu", key |-> "menu", id |-> 0, pc |-> "prompt", retry |-> 0,
         cont |-> "none"]

\* ex and play are the frames that ex_jmp_buf and playgame_jmp_buf lead to,
\* 0 when they have returned; exs is ex_jmp_buf_valid, playok
\* playgame_jmp_buf_valid.  torn: unread_messages ends in a part of a message.
\* crashed: a longjmp into a function that has returned.
Init ==
  /\ con = <<>>
  /\ cl = [sockfd |-> 0, stack |-> <<Menu>>, unread |-> <<>>, torn |-> FALSE,
           ex |-> 0, exs |-> 0, play |-> 0, playok |-> FALSE, inConn |-> FALSE,
           cancelled |-> FALSE, calls |-> 0, crashed |-> FALSE]
  /\ cancels = 0

Top == Last(cl.stack)
Depth == Len(cl.stack)
At(pc) == ~cl.crashed /\ Top.pc = pc
Now(c, pc) == [c EXCEPT !.stack[Len(c.stack)].pc = pc]

-----------------------------------------------------------------------------
\* Ways out of functions of the client

Unwind(c, n) == [c EXCEPT !.stack = SubSeq(@, 1, n),
                          !.ex = IF @ <= n THEN @ ELSE 0,
                          !.play = IF @ <= n THEN @ ELSE 0]

Returned(c) == [Unwind(c, Len(c.stack) - 1) EXCEPT !.exs = @ - 1]

JumpEx(c) == IF c.ex = 0 THEN [c EXCEPT !.crashed = TRUE] ELSE Unwind(c, c.ex - 1)

JumpPlay_bug(c) == IF c.play = 0 THEN [c EXCEPT !.crashed = TRUE]
                   ELSE Returned(Unwind(c, c.play))
JumpPlay(c) == IF c.play = 0 THEN [c EXCEPT !.crashed = TRUE]
               ELSE Returned([Unwind(c, c.play) EXCEPT !.playok = FALSE])

\* A request that no API function guards (auth, shutdown) returns NULL.
NoAnswer_bug(c) == [Returned(c) EXCEPT !.inConn = FALSE]
NoAnswer(c) == [Unwind(c, Len(c.stack) - 1) EXCEPT !.inConn = FALSE]

\* The label "error" of send_receive_msg; conn_err, which it sets, is set
\* whenever sockfd is 0.
Error(c) == LET d == [c EXCEPT !.sockfd = 0, !.playok = FALSE]
            IN IF c.exs > 0 THEN JumpEx(d) ELSE NoAnswer(d)

Closed(cn, s) ==
  IF s = 0 THEN cn
  ELSE [cn EXCEPT ![s].up = FALSE, ![s].toClient = <<>>, ![s].cut = FALSE]

NotRestarted(c, cont) ==
  CASE cont = "check" ->
         LET d == [c EXCEPT !.playok = FALSE]
         IN IF c.exs > 0 THEN JumpEx(d) ELSE Now(d, "prompt")
    [] cont \in {"error", "again"} /\ c.exs > 0 -> JumpEx(c)
    [] OTHER -> Error(c)

\* restart_connection, up to the request "auth" of do_connect
Restart_bug(c, cont) ==
  /\ cl' = Now(c, IF cont = "check" THEN "prompt" ELSE "send")
  /\ UNCHANGED con
Restart(c, cont) ==
  LET d == [c EXCEPT !.sockfd = 0] IN
  \/ /\ con' = Closed(con, c.sockfd)
     /\ cl' = NotRestarted(d, cont)
  \/ /\ ~c.inConn /\ Len(con) < MaxConns
     /\ con' = Append(Closed(con, c.sockfd), NewCon)
     /\ cl' = [d EXCEPT !.sockfd = Len(con) + 1, !.inConn = TRUE,
                        !.stack = Append(@, Frame("auth", Len(con) + 1, cont))]

\* do_connect and restart_connection once the answer to "auth" is there
Restarted_bug(c, cont) == Now(c, IF cont = "check" THEN "prompt" ELSE "send")
Restarted(c, cont) ==
  IF cont = "user" THEN c
  ELSE IF c.playok THEN JumpPlay(c)
  ELSE CASE cont = "check" -> Now(c, "prompt")
         [] cont = "loop"  -> Now(c, "send")
         [] cont = "again" -> Now(c, "fail")
         [] OTHER          -> Error(c)

-----------------------------------------------------------------------------
\* API calls

\* nhnet_connect, once the errors of an earlier connection are cleared
\* (nhnet_disconnect).  Nothing resets the unread messages and the jump buffers.
Connect ==
  /\ At("prompt") /\ Depth = 1 /\ cl.sockfd = 0 /\ Len(con) < MaxConns
  /\ con' = Append(con, NewCon)
  /\ cl' = [cl EXCEPT !.sockfd = Len(con) + 1, !.inConn = TRUE,
                      !.stack = Append(@, Frame("auth", Len(con) + 1, "user"))]
  /\ UNCHANGED cancels

\* nhnet_disconnect
Disconnect ==
  /\ At("prompt") /\ Depth = 1 /\ cl.sockfd # 0
  /\ cl' = [cl EXCEPT !.inConn = TRUE,
                      !.stack = Append(@, Frame("shutdown", cl.sockfd, "user"))]
  /\ UNCHANGED <<con, cancels>>

\* An API function starts: api_entry.  Play and create from the menu; at a
\* prompt of a game those that the server runs there ("query"), and exit_game.
Call(k) ==
  /\ At("prompt") /\ cl.sockfd # 0 /\ cl.calls < MaxCalls
  /\ k \in IF Depth = 1 THEN {"play", "create"} ELSE {"query", "exit"}
  /\ Top.call # "exit"
  /\ LET first == cl.exs = 0
     IN cl' = [cl EXCEPT !.calls = @ + 1, !.exs = @ + 1,
                         !.ex = IF first THEN Depth + 1 ELSE @,
                         !.stack = Append(@, Frame(k, cl.calls + 1, "none"))]
  /\ UNCHANGED <<con, cancels>>

\* send_json_msg.  test_restore_connection before it looks at descriptors below
\* 1 only, so that it never finds anything; the first write after the other
\* end has closed the connection may seem to succeed.
Send ==
  /\ At("send")
  /\ \/ /\ con[cl.sockfd].up
        /\ con' = [con EXCEPT ![cl.sockfd].toServer = Append(@, Msg(Top.key, Top.id))]
        /\ cl' = Now(cl, "recv")
     \/ /\ ~con[cl.sockfd].up
        /\ \E pc \in {"recv", "fail"} : cl' = Now(cl, pc)
        /\ UNCHANGED con
  /\ UNCHANGED cancels

\* A failed send or receive: try again, or give up.
Retry ==
  /\ At("fail")
  /\ IF Top.retry > 0
     THEN Restart([cl EXCEPT !.stack[Depth].retry = @ - 1], "loop")
     ELSE /\ con' = Closed(con, cl.sockfd)
          /\ cl' = Error(cl)
  /\ UNCHANGED cancels

-----------------------------------------------------------------------------
\* receive_json_msg

Line == con[cl.sockfd]

\* recv: any number of messages arrives at once, and the part of one at the
\* end.  What follows a part is parsed together with it, and is thrown away.
Recv ==
  /\ At("recv") \/ At("check")
  /\ cl.unread = <<>>
  /\ \E n \in 0 .. Len(Line.toClient), part \in BOOLEAN :
       /\ n > 0 \/ part
       /\ part => Line.cut /\ n = Len(Line.toClient)
       /\ LET got == SubSeq(Line.toClient, 1, n)
          IN cl' = [cl EXCEPT !.unread = IF cl.torn /\ n > 0 THEN Tail(got) ELSE got,
                              !.torn = part \/ (@ /\ n = 0)]
       /\ con' = [con EXCEPT ![cl.sockfd].toClient = SubSeq(@, n + 1, Len(@)),
                             ![cl.sockfd].cut = @ /\ ~part,
                             ![cl.sockfd].gap = @ \/ (cl.torn /\ n > 0)]
  /\ UNCHANGED cancels

NothingComes == cl.unread = <<>> /\ Line.toClient = <<>> /\ ~Line.cut

\* recv returns nothing: the messages of this connection that are incomplete
\* stay in the buffer.
EndOfFile ==
  /\ At("recv") /\ NothingComes /\ ~Line.up
  /\ cl' = Now(cl, "fail")
  /\ UNCHANGED <<con, cancels>>

\* Ten seconds without a message, which also empties the buffer.
Timeout_bug == FALSE /\ UNCHANGED vars
Timeout ==
  /\ At("recv") /\ NothingComes /\ Line.up
  /\ cl' = [Now(cl, "fail") EXCEPT !.torn = FALSE]
  /\ UNCHANGED <<con, cancels>>

\* The response to a play_game request ends it, wherever the client is.
Handle(m) ==
  LET c == [cl EXCEPT !.unread = Tail(@)]
      \* setjmp, at the first message after the play_game request
      d == IF Top.key = "play" THEN [c EXCEPT !.playok = TRUE, !.play = Depth] ELSE c
  IN \/ /\ m.k = "cancel"
        /\ cl' = [c EXCEPT !.cancelled = TRUE]
        /\ UNCHANGED con
     \/ /\ m.k = "play" /\ d.playok
        /\ cl' = JumpPlay(d)
        /\ UNCHANGED con
     \/ /\ m.k = Top.call /\ m.k \in {"create", "query"}
        /\ cl' = Returned(c)
        /\ UNCHANGED con
     \/ /\ m.k = "auth" /\ Top.call = "auth"
        /\ cl' = Restarted(NoAnswer(c), Top.cont)
        /\ con' = IF Top.cont = "error" /\ ~c.playok THEN Closed(con, c.sockfd) ELSE con
     \/ /\ m.k = "shutdown" /\ Top.call = "shutdown"
        /\ cl' = [NoAnswer(c) EXCEPT !.sockfd = 0]
        /\ con' = Closed(con, c.sockfd)
     \/ /\ m.k = "prompt"
        /\ cl' = Now(d, "prompt")
        /\ UNCHANGED con
     \/ /\ m.k \in Errors      \* cmd_server_error
        /\ Restart(d, IF m.k = "quit" THEN "again" ELSE "error")

Receive ==
  /\ At("recv") /\ cl.unread # <<>>
  /\ Handle(Head(cl.unread))
  /\ UNCHANGED cancels

-----------------------------------------------------------------------------
\* Prompts

InGame == Depth > 1
Answered(c) == [c EXCEPT !.stack[Depth].key = "answer", !.stack[Depth].pc = "send"]

Answer ==
  /\ At("prompt") /\ InGame
  /\ cl' = Answered(cl)
  /\ UNCHANGED <<con, cancels>>

\* nh_wgetch returns KEY_SIGNAL; outside a game it ignores it.
TakeCancel ==
  /\ At("prompt") /\ cl.cancelled
  /\ LET c == [cl EXCEPT !.cancelled = FALSE]
     IN cl' = IF InGame THEN Answered(c) ELSE c
  /\ UNCHANGED <<con, cancels>>

\* The prompt's loop finds the socket readable: nhnet_check_socket_fd.
Check ==
  /\ At("prompt") /\ cl.sockfd # 0
  /\ Line.toClient # <<>> \/ Line.cut \/ ~Line.up
  /\ cl' = Now(cl, "check")
  /\ UNCHANGED <<con, cancels>>

Checked ==
  /\ At("check")
  /\ \/ /\ cl.unread # <<>>
        /\ LET c == [Now(cl, "prompt") EXCEPT !.unread = Tail(@)]
           IN cl' = IF Head(cl.unread).k = "cancel" THEN [c EXCEPT !.cancelled = TRUE]
                    ELSE IF c.exs > 0 THEN JumpEx([c EXCEPT !.playok = FALSE])
                    ELSE c      \* "JSON object out of sequence"
        /\ UNCHANGED con
     \/ /\ NothingComes /\ ~Line.up
        /\ Restart(Now(cl, "prompt"), "check")
  /\ UNCHANGED cancels

-----------------------------------------------------------------------------
\* The server process of connection s

\* client_msg drops a message when it is not the server's turn.
ClientMsg(p, m) ==
  IF ~p.up THEN [p EXCEPT !.st = "gone"]
  ELSE IF p.can THEN [p EXCEPT !.toClient = Append(@, m), !.can = FALSE] ELSE p

\* runserver and auth_send_result
Serve(p, m) ==
  CASE p.st = "auth" -> ClientMsg([p EXCEPT !.st = "main"], m)
    [] p.st = "main" /\ m.k = "play" -> [p EXCEPT !.st = "game", !.req = m.id]
    [] p.st = "main" /\ m.k = "create" -> ClientMsg(p, m)
    [] p.st = "main" /\ m.k = "shutdown" ->
         [ClientMsg(p, m) EXCEPT !.up = FALSE, !.st = "gone"]
    [] p.st = "wait" /\ m.k \in {"answer", "exit"} -> [p EXCEPT !.st = "game"]
    [] p.st = "wait" /\ m.k = "query" -> ClientMsg(p, m)
    [] OTHER -> [p EXCEPT !.up = FALSE, !.st = "bad"]

Turn_bug(p) == [p EXCEPT !.toServer = Tail(@), !.can = @ \/ p.st # "wait"]
Turn(p) == [p EXCEPT !.toServer = Tail(@), !.can = TRUE]

\* read_input, and the command that it returns
ReadInput(s) ==
  /\ con[s].st \in {"auth", "main", "wait"} /\ con[s].toServer # <<>>
  /\ con' = [con EXCEPT ![s] = Serve(Turn(@), Head(@.toServer))]
  /\ UNCHANGED <<cl, cancels>>

\* The game asks the client for something (client_request), or returns.
Game(s) ==
  /\ con[s].st = "game"
  /\ \/ con' = [con EXCEPT ![s] = ClientMsg([@ EXCEPT !.st = "wait"], Msg("prompt", 0))]
     \/ con' = [con EXCEPT ![s] = ClientMsg([@ EXCEPT !.st = "main"], Msg("play", @.req))]
  /\ UNCHANGED <<cl, cancels>>

\* Another process has written to the save file: srv_server_cancel.
Cancel(s) ==
  /\ con[s].st \in {"game", "wait"} /\ con[s].up /\ cancels < MaxCancels
  /\ con' = [con EXCEPT ![s].toClient = Append(@, Msg("cancel", 0))]
  /\ cancels' = cancels + 1
  /\ UNCHANGED cl

\* The connection is closed: exit_client.
Lost(s) ==
  /\ con[s].st \in {"auth", "main", "wait"} /\ ~con[s].up /\ con[s].toServer = <<>>
  /\ con' = [con EXCEPT ![s].st = "gone"]
  /\ UNCHANGED <<cl, cancels>>

\* signal_quit: read_input returns nothing, as if it were the server's turn.
Terminate(s) ==
  /\ con[s].st \in {"main", "wait"} /\ con[s].up
  /\ con' = [con EXCEPT ![s] =
       [ClientMsg([@ EXCEPT !.can = TRUE],
                  Msg(IF @.st = "main" THEN "quit" ELSE "error", 0))
        EXCEPT !.up = FALSE, !.st = "gone"]]
  /\ UNCHANGED <<cl, cancels>>

-----------------------------------------------------------------------------
\* The network breaks a connection: each side still gets a part of what was
\* sent to it.
Break(s) ==
  /\ con[s].up
  /\ \E i \in 0 .. Len(con[s].toServer), j \in 0 .. Len(con[s].toClient) :
       \E part \in {p \in BOOLEAN : p => j < Len(con[s].toClient)} :
         con' = [con EXCEPT ![s].up = FALSE, ![s].cut = part,
                            ![s].toServer = SubSeq(@, 1, i),
                            ![s].toClient = SubSeq(@, 1, j)]
  /\ UNCHANGED <<cl, cancels>>

Library == \/ Send \/ Retry \/ Recv \/ EndOfFile \/ Timeout \/ Receive
           \/ TakeCancel \/ Check \/ Checked
User == \/ Connect \/ Disconnect \/ Answer
        \/ \E k \in {"play", "create", "query", "exit"} : Call(k)
Server(s) == ReadInput(s) \/ Game(s) \/ Lost(s)

Next == \/ Library \/ User
        \/ \E s \in DOMAIN con : Server(s) \/ Cancel(s) \/ Terminate(s) \/ Break(s)

Spec == Init /\ [][Next]_vars

\* The library and the server run; users may leave a prompt alone.
FairSpec == /\ Spec
            /\ WF_vars(Library)
            /\ \A s \in 1 .. MaxConns : WF_vars(s \in DOMAIN con /\ Server(s))

-----------------------------------------------------------------------------
\* Properties

MsgType == [k : Errors \cup {"prompt", "cancel", "play", "create", "query", "auth",
                             "shutdown", "answer", "exit"},
            id : 0 .. (MaxCalls + MaxConns)]

TypeOK ==
  /\ con \in Seq([up : BOOLEAN, toServer : Seq(MsgType), toClient : Seq(MsgType),
                  cut : BOOLEAN, gap : BOOLEAN, can : BOOLEAN, req : 0 .. MaxCalls,
                  st : {"auth", "main", "game", "wait", "gone", "bad"}])
  /\ Len(con) <= MaxConns
  /\ cl.sockfd \in 0 .. Len(con)
  /\ cl.unread \in Seq(MsgType)
  /\ \A f \in ToSet(cl.stack) :
       /\ f.pc \in {"send", "recv", "fail", "prompt", "check"}
       /\ f.retry \in 0 .. Retries
  /\ cl.ex \in 0 .. Depth /\ cl.play \in 0 .. Depth /\ cl.exs \in 0 .. MaxCalls
  /\ cl.calls \in 0 .. MaxCalls /\ cancels \in 0 .. MaxCancels

\* The server never gets a message that its state does not expect: wherever
\* the connection breaks, restart_connection takes the client back to a request
\* that fits a server process which has just started.
Served == \A s \in DOMAIN con : con[s].st # "bad"

PlayId == IF cl.play = 0 THEN Top.id ELSE cl.stack[cl.play].id
Fits(m) == \/ m.k \in Errors \cup {"cancel"}
           \/ m.k = "prompt" /\ Top.call \in {"play", "exit"}
           \/ m.k = "play" /\ Top.call \in {"play", "exit"} /\ m.id = PlayId
           \/ m.k = Top.call /\ m.id = Top.id

\* The message that send_receive_msg takes out of its buffer is for the request
\* that waits there, although the buffer outlives the connection and a request
\* may be sent again.
InStep == At("recv") /\ cl.unread # <<>> => Fits(Head(cl.unread))

\* The client and the server never wait for each other: while send_receive_msg
\* waits, something is on its way to either of them or the game is running.
\* (Excepted: the client has thrown the message away, and waits ten seconds.)
NoMutualWait ==
  At("recv") /\ Line.up /\ ~Line.gap =>
    \/ cl.unread # <<>> \/ Line.toClient # <<>> \/ Line.toServer # <<>>
    \/ Line.st = "game"

\* Whatever the network and the server do, an API call that is not at a prompt
\* gets to one or returns, and every longjmp on the way lands in a function that
\* is running.  (Excepted, as it is undefined: a longjmp goes astray after one has
\* left an API function, which api_entry's count of them does not see, be it the
\* jump of an error or the jump to play_game over the calls above it.  From then
\* on no call sets ex_jmp_buf, and the next error jumps to one that has returned.)
ApiCalls == {i \in DOMAIN cl.stack : cl.stack[i].call \in {"play", "create", "query", "exit"}}
Astray == cl.crashed /\ cl.exs # Cardinality(ApiCalls)
CallsEnd == ~At("prompt") ~> At("prompt") \/ Astray
=============================================================================
