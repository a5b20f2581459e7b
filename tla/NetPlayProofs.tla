---------------------------- MODULE NetPlayProofs ----------------------------
(***************************************************************************)
(* What NetPlay promises for any number of connections, calls, cancels and *)
(* retries.                                                                *)
(*                                                                         *)
(* The invariant NetInv has four parts.  ServerOK: what is on its way to a *)
(* server process is what that process waits for.  Shape and Gaming: which *)
(* calls the client's stack can hold, in what each of them waits for the   *)
(* next, and where the jump buffers lead.  BufferOK: which messages        *)
(* unread_messages holds.  LineOK: the client and the process of its       *)
(* connection agree on whose turn it is.  After a jump into a function     *)
(* that has returned (crashed) only ServerOK and the types are kept.       *)
(***************************************************************************)
EXTENDS NetPlay, SequenceTheorems, TLAPS

-----------------------------------------------------------------------------
\* Types

Calls == {"menu", "play", "create", "query", "exit", "auth", "shutdown"}
Pcs == {"send", "recv", "fail", "prompt", "check"}
Ids == 0 .. (MaxCalls + MaxConns)

FrameType == [call : Calls, key : Calls \cup {"answer"}, id : Ids, pc : Pcs, retry : 0 .. Retries,
              cont : {"none", "loop", "error", "again", "check", "user"}]

ConType == [up : BOOLEAN, toServer : Seq(MsgType), toClient : Seq(MsgType),
            cut : BOOLEAN, gap : BOOLEAN, can : BOOLEAN, req : 0 .. MaxCalls,
            st : {"auth", "main", "game", "wait", "gone", "bad"}]

ClientType == [sockfd : 0 .. MaxConns, stack : Seq(FrameType), unread : Seq(MsgType),
               torn : BOOLEAN, ex : {0, 2}, exs : 0 .. MaxCalls, play : {0, 2},
               playok : BOOLEAN, inConn : BOOLEAN, cancelled : BOOLEAN,
               calls : 0 .. MaxCalls, crashed : BOOLEAN]

ClientOK(c) ==
  /\ c \in ClientType
  /\ Len(c.stack) >= 1
  /\ c.ex <= Len(c.stack) /\ c.play <= Len(c.stack)
  /\ c.exs <= c.calls

-----------------------------------------------------------------------------
\* The stack

\* f waits for g: at a prompt or outside of the library, as a failed request
\* that connects again, or as one that got a server_error.
Suspended(f, g) ==
  \/ f.pc = "prompt" /\ g.cont \in {"none", "check", "user"}
  \/ f.pc = "fail" /\ g.cont = "loop"
  \/ f.pc = "recv" /\ g.cont \in {"again", "error"}

\* The frame at depth i of c's stack
FrameOK(c, i) ==
  LET f == c.stack[i] IN
  /\ f.call = "menu" <=> i = 1
  /\ f.call = "menu" => f.pc \in {"prompt", "check"}
  /\ f.call \in {"play", "create", "shutdown"} => i = 2
  /\ f.call \in {"query", "exit"} => i = 3 /\ c.stack[2].call = "play"
  /\ f.call \in {"auth", "shutdown"} => i = Len(c.stack) /\ c.inConn
  /\ f.call # "auth" => f.cont \in {"none", "user"}
  /\ f.call = "auth" => f.cont # "none" /\ (f.cont = "user" => i = 2)
  /\ f.key = f.call \/ (f.key = "answer" /\ f.call \in {"play", "exit"})
  /\ f.pc \in {"prompt", "check"} => f.call \in {"menu", "play", "exit"}
  /\ f.call \in {"play", "create", "query", "exit"} => c.exs >= i - 1
  /\ f.call = "play" => f.id \in 0 .. MaxCalls
  /\ i < Len(c.stack) => Suspended(f, c.stack[i + 1])

Shape(c) ==
  /\ \A i \in 1 .. Len(c.stack) : FrameOK(c, i)
  /\ c.play = 2 => c.stack[2].call = "play"

\* The server has answered the play_game request that f works for, so that
\* playgame_jmp_buf is set.
Playing(f) == \/ f.call \in {"query", "exit"}
              \/ f.call = "play" /\ (f.key = "answer" \/ f.pc \in {"prompt", "check"})
Gaming(c) ==
  \A i \in 1 .. Len(c.stack) : Playing(c.stack[i]) => c.playok /\ c.play = 2

-----------------------------------------------------------------------------
\* The lines

\* Messages that may come without a request, and queues of them.  A server_error
\* is the last message of its connection.
Async == Errors \cup {"cancel"}
Quiet(q) == \A i \in 1 .. Len(q) : q[i].k \in Async
ErrorLast(q) == \A i \in 1 .. Len(q) : q[i].k \in Errors => i = Len(q)
HasError(q) == \E i \in 1 .. Len(q) : q[i].k \in Errors

\* What has come to a server process is what it waits for.
ServerOK(p) ==
  /\ p.st # "bad"
  /\ Len(p.toServer) <= 1
  /\ p.toServer # <<>> =>
       /\ p.st = "auth" => p.toServer[1].k = "auth"
       /\ p.st = "main" => p.toServer[1].k \in {"play", "create", "shutdown"}
       /\ p.st = "wait" => p.toServer[1].k \in {"answer", "exit", "query"}
       /\ p.st # "game"
       /\ p.toServer[1].k = "play" => p.toServer[1].id \in 0 .. MaxCalls
  /\ p.st = "game" => p.can
  /\ p.st = "gone" => ~p.up
  /\ ErrorLast(p.toClient)
  /\ HasError(p.toClient) => ~p.up

\* The state in which a server process takes a request, and the one in which
\* it is after its answer
Due(k) == CASE k = "auth" -> "auth"
            [] k \in {"play", "create", "shutdown"} -> "main"
            [] OTHER -> "wait"
After(k) == IF k \in {"prompt", "query"} THEN "wait" ELSE "main"

\* At most one message is the reply to a request.
OnlyReply(q) == \A i, j \in 1 .. Len(q) : q[i].k \notin Async /\ q[j].k \notin Async => i = j

\* PlayId and Fits of a given client
PlayIdOf(c) == IF c.play = 0 THEN Last(c.stack).id ELSE c.stack[c.play].id
FitsIn(c, m) ==
  LET t == Last(c.stack) IN
           \/ m.k \in Errors \cup {"cancel"}
           \/ m.k = "prompt" /\ t.call \in {"play", "exit"}
           \/ m.k = "play" /\ t.call \in {"play", "exit"} /\ m.id = PlayIdOf(c)
           \/ m.k = t.call /\ m.id = t.id

\* The client has a request to make, or the user is at a prompt: nothing but
\* asynchronous messages is under way, and the server waits for the client.
Rest(c, p) ==
  LET t == Last(c.stack) IN
  t.pc \in {"send", "prompt", "check"} =>
    /\ Quiet(p.toClient) /\ p.toServer = <<>>
    /\ p.up => p.st = IF t.pc = "send" THEN Due(t.key) ELSE IF t.call = "menu" THEN "main" ELSE "wait"

\* The client waits for a reply: its request is under way, or the game runs for
\* it, or the reply is under way.
Waits(c, p) ==
  LET t == Last(c.stack) IN
  t.pc = "recv" =>
    /\ p.toServer # <<>> => /\ p.toServer[1] = Msg(t.key, t.id)
                            /\ p.up => p.st = Due(t.key)
    /\ p.up /\ p.st = "game" => t.call \in {"play", "exit"}
    /\ \A i \in 1 .. Len(p.toClient) : FitsIn(c, p.toClient[i])
    /\ OnlyReply(p.toClient)
    /\ Quiet(c.unread) \/ Quiet(p.toClient)
    /\ \A m \in ToSet(c.unread) \cup ToSet(p.toClient) :
         m.k \notin Async => /\ p.toServer = <<>> /\ p.st # "game"
                             /\ p.up => p.st = After(m.k)
    /\ p.up /\ ~p.gap => ~Quiet(c.unread) \/ ~Quiet(p.toClient) \/ p.toServer # <<>> \/ p.st = "game"

\* The client c and the process p of its connection
LineOK(c, p) ==
  /\ HasError(c.unread) => ~p.up \/ (Last(c.stack).call = "auth" /\ Quiet(c.unread))
  /\ p.up /\ p.st \in {"game", "wait"} /\ Last(c.stack).pc # "fail" =>
       Len(c.stack) > 1 /\ c.stack[2].call = "play" /\ p.req = c.stack[2].id
  /\ Rest(c, p) /\ Waits(c, p)

\* unread_messages, and when there is no connection
BufferOK(c) ==
  /\ ErrorLast(c.unread)
  /\ Last(c.stack).pc # "recv" => Quiet(c.unread)
  /\ Last(c.stack).pc = "recv" => OnlyReply(c.unread) /\ \A i \in 1 .. Len(c.unread) : FitsIn(c, c.unread[i])
  /\ c.sockfd = 0 => Len(c.stack) = 1 /\ c.stack[1].pc = "prompt"

LinesOK(cs) ==
  /\ cs \in Seq(ConType) /\ Len(cs) <= MaxConns
  /\ \A s \in 1 .. Len(cs) : ServerOK(cs[s])

Good(c, cs) ==
  /\ LinesOK(cs)
  /\ ClientOK(c) /\ c.sockfd <= Len(cs)
  /\ ~c.crashed => /\ Shape(c) /\ Gaming(c) /\ BufferOK(c)
                   /\ c.sockfd # 0 => LineOK(c, cs[c.sockfd])

NetInv == Good(cl, con) /\ cancels \in 0 .. MaxCancels

-----------------------------------------------------------------------------
\* Operations on the client's stack

LEMMA ClientFacts ==
  ASSUME NEW c, ClientOK(c)
  PROVE  /\ Len(c.stack) \in Nat \ {0} /\ DOMAIN c.stack = 1 .. Len(c.stack)
         /\ \A i \in 1 .. Len(c.stack) : c.stack[i] \in FrameType
         /\ Last(c.stack) = c.stack[Len(c.stack)]
         /\ {MaxCalls, MaxConns, Retries} \subseteq Nat
BY NetAssumption DEF ClientOK, ClientType, Last

SameRest(c, d) ==
  /\ d.sockfd = c.sockfd /\ d.unread = c.unread /\ d.torn = c.torn /\ d.exs = c.exs
  /\ d.playok = c.playok /\ d.inConn = c.inConn /\ d.cancelled = c.cancelled
  /\ d.calls = c.calls /\ d.crashed = c.crashed

\* A client whose top frame is changed is one with another stack of the same height.
LEMMA ReplaceIs ==
  ASSUME NEW c, ClientOK(c), NEW g \in FrameType
  PROVE  LET d == [c EXCEPT !.stack = [@ EXCEPT ![Len(c.stack)] = g]]
         IN  /\ ClientOK(d) /\ SameRest(c, d) /\ d.ex = c.ex /\ d.play = c.play
             /\ Len(d.stack) = Len(c.stack)
             /\ \A i \in 1 .. Len(c.stack) : i < Len(c.stack) => d.stack[i] = c.stack[i]
             /\ d.stack[Len(c.stack)] = g
<1> DEFINE n == Len(c.stack)
           s == [c.stack EXCEPT ![n] = g]
           d == [c EXCEPT !.stack = s]
<1>1. n \in Nat /\ n \in 1 .. n /\ c.stack \in Seq(FrameType)
  BY ClientFacts DEF ClientOK, ClientType
<1>2. s \in Seq(FrameType) /\ Len(s) = n /\ \A j \in 1 .. n : s[j] = IF j = n THEN g ELSE c.stack[j]
  BY <1>1, ExceptSeq
<1>3. d = [c EXCEPT !.stack = [@ EXCEPT ![Len(c.stack)] = g]]
  OBVIOUS
<1> HIDE DEF s
<1>4. d.stack = s
  BY DEF ClientOK, ClientType
<1>5. ClientOK(d)
  BY <1>1, <1>2 DEF ClientOK, ClientType
<1>6. SameRest(c, d) /\ d.ex = c.ex /\ d.play = c.play
  BY DEF SameRest, ClientOK, ClientType
<1> HIDE DEF d
<1> QED
  BY <1>1, <1>2, <1>3, <1>4, <1>5, <1>6

LEMMA NowIs ==
  ASSUME NEW c, ClientOK(c), NEW x \in Pcs
  PROVE  /\ ClientOK(Now(c, x)) /\ SameRest(c, Now(c, x))
         /\ Now(c, x).ex = c.ex /\ Now(c, x).play = c.play
         /\ Len(Now(c, x).stack) = Len(c.stack)
         /\ \A i \in 1 .. Len(c.stack) : i < Len(c.stack) => Now(c, x).stack[i] = c.stack[i]
         /\ Now(c, x).stack[Len(c.stack)] = [c.stack[Len(c.stack)] EXCEPT !.pc = x]
<1> DEFINE g == [c.stack[Len(c.stack)] EXCEPT !.pc = x]
<1>1. g \in FrameType
  <2>1. c.stack[Len(c.stack)] \in FrameType
    BY ClientFacts
  <2> QED
    BY <2>1 DEF FrameType
<1>2. Now(c, x) = [c EXCEPT !.stack = [@ EXCEPT ![Len(c.stack)] = g]]
  BY DEF Now
<1> HIDE DEF g
<1>3. LET d == [c EXCEPT !.stack = [@ EXCEPT ![Len(c.stack)] = g]]
      IN  /\ ClientOK(d) /\ SameRest(c, d) /\ d.ex = c.ex /\ d.play = c.play
          /\ Len(d.stack) = Len(c.stack)
          /\ \A i \in 1 .. Len(c.stack) : i < Len(c.stack) => d.stack[i] = c.stack[i]
          /\ d.stack[Len(c.stack)] = g
  BY <1>1, ReplaceIs
<1> QED
  BY <1>2, <1>3 DEF g

\* A play_game request below the top, or on it, stays the same request.
LEMMA SecondSame ==
  ASSUME NEW c, ClientOK(c), NEW d, Len(d.stack) = Len(c.stack),
         \A i \in 1 .. Len(c.stack) : i < Len(c.stack) => d.stack[i] = c.stack[i],
         d.stack[Len(c.stack)].call = c.stack[Len(c.stack)].call,
         d.stack[Len(c.stack)].id = c.stack[Len(c.stack)].id
  PROVE  Len(c.stack) > 1 => d.stack[2].call = c.stack[2].call /\ d.stack[2].id = c.stack[2].id
<1>1. Len(c.stack) \in Nat
  BY ClientFacts
<1>2. CASE Len(c.stack) = 2
  BY <1>2
<1>3. CASE Len(c.stack) > 2
  <2>1. 2 \in 1 .. Len(c.stack) /\ 2 < Len(c.stack)
    BY <1>1, <1>3
  <2> QED
    BY <2>1
<1>4. \A i \in Nat : i > 1 => i = 2 \/ i > 2
  OBVIOUS
<1> QED
  BY <1>1, <1>2, <1>3, <1>4

LEMMA PushIs ==
  ASSUME NEW c, ClientOK(c), NEW f \in FrameType
  PROVE  LET d == [c EXCEPT !.stack = Append(@, f)]
         IN  /\ ClientOK(d) /\ SameRest(c, d) /\ d.ex = c.ex /\ d.play = c.play
             /\ Len(d.stack) = Len(c.stack) + 1
             /\ \A i \in 1 .. Len(c.stack) : d.stack[i] = c.stack[i]
             /\ d.stack[Len(c.stack) + 1] = f
<1>1. Append(c.stack, f) \in Seq(FrameType) /\ Len(Append(c.stack, f)) = Len(c.stack) + 1
      /\ \A i \in 1 .. Len(c.stack) : Append(c.stack, f)[i] = c.stack[i]
      /\ Append(c.stack, f)[Len(c.stack) + 1] = f
  BY AppendProperties DEF ClientOK, ClientType
<1> DEFINE s == Append(c.stack, f)
           d == [c EXCEPT !.stack = s]
<1> HIDE DEF s
<1>2. s \in Seq(FrameType) /\ Len(s) = Len(c.stack) + 1
  BY <1>1 DEF s
<1>3. ClientOK(d) /\ d.stack = s
  <2>1. Len(c.stack) \in Nat /\ Len(c.stack) >= 1
    BY ClientFacts
  <2>2. d \in ClientType /\ d.stack = s
    BY <1>2 DEF ClientOK, ClientType
  <2>3. d.ex = c.ex /\ d.play = c.play /\ d.exs = c.exs /\ d.calls = c.calls
    BY DEF ClientOK, ClientType
  <2> HIDE DEF d
  <2>4. c.ex \in Nat /\ c.play \in Nat
    BY DEF ClientOK, ClientType
  <2> QED
    BY <1>2, <2>1, <2>2, <2>3, <2>4 DEF ClientOK
<1>4. SameRest(c, d) /\ d.ex = c.ex /\ d.play = c.play
  BY DEF SameRest, ClientOK, ClientType
<1> QED
  BY <1>1, <1>3, <1>4 DEF s

LEMMA UnwindIs ==
  ASSUME NEW c, ClientOK(c), NEW n \in 1 .. Len(c.stack)
  PROVE  /\ ClientOK(Unwind(c, n)) /\ SameRest(c, Unwind(c, n))
         /\ Len(Unwind(c, n).stack) = n
         /\ \A i \in 1 .. n : Unwind(c, n).stack[i] = c.stack[i]
         /\ Unwind(c, n).ex = IF c.ex <= n THEN c.ex ELSE 0
         /\ Unwind(c, n).play = IF c.play <= n THEN c.play ELSE 0
<1>1. /\ SubSeq(c.stack, 1, n) \in Seq(FrameType) /\ Len(SubSeq(c.stack, 1, n)) = n
      /\ \A i \in 1 .. n : SubSeq(c.stack, 1, n)[i] = c.stack[i]
  BY ClientFacts, SubSeqProperties
<1> DEFINE s == SubSeq(c.stack, 1, n)
           e == IF c.ex <= n THEN c.ex ELSE 0
           p == IF c.play <= n THEN c.play ELSE 0
           d == [c EXCEPT !.stack = s, !.ex = e, !.play = p]
<1>2. Unwind(c, n) = d
  BY DEF Unwind, ClientOK, ClientType
<1>3. e \in {0, 2} /\ p \in {0, 2} /\ e <= n /\ p <= n /\ n \in Nat /\ n >= 1
  BY ClientFacts DEF ClientOK, ClientType
<1> HIDE DEF s, e, p
<1>4. ClientOK(d) /\ d.stack = s /\ d.ex = e /\ d.play = p
  <2>1. s \in Seq(FrameType) /\ Len(s) = n
    BY <1>1 DEF s
  <2> QED
    BY <1>3, <2>1 DEF ClientOK, ClientType
<1>5. SameRest(c, d)
  BY DEF SameRest, ClientOK, ClientType
<1> HIDE DEF d
<1> QED
  BY <1>1, <1>2, <1>4, <1>5 DEF s, e, p

-----------------------------------------------------------------------------
\* Back in the menu

AtMenu(c) ==
  /\ Len(c.stack) = 1 /\ c.stack[1].pc = "prompt"
  /\ c.stack[1].call = "menu" /\ c.stack[1].key = "menu" /\ c.stack[1].cont \in {"none", "user"}
  /\ Quiet(c.unread) /\ ErrorLast(c.unread)

LEMMA MenuOK ==
  ASSUME NEW c, ClientOK(c), AtMenu(c)
  PROVE  Shape(c) /\ Gaming(c) /\ BufferOK(c)
<1>1. c.play = 0 /\ 1 .. Len(c.stack) = {1} /\ Last(c.stack) = c.stack[1]
  BY ClientFacts DEF AtMenu, ClientOK, ClientType
<1>2. FrameOK(c, 1)
  BY DEF FrameOK, AtMenu
<1>3. Shape(c)
  BY <1>1, <1>2 DEF Shape
<1>4. Gaming(c)
  BY <1>1 DEF Gaming, Playing, AtMenu
<1>5. BufferOK(c)
  BY <1>1 DEF BufferOK, AtMenu
<1> QED
  BY <1>3, <1>4, <1>5

\* While anything runs the menu waits in its prompt.
LEMMA MenuBelow ==
  ASSUME NEW c, ClientOK(c), Shape(c), Len(c.stack) > 1 \/ c.stack[1].pc = "prompt"
  PROVE  /\ c.stack[1].pc = "prompt" /\ c.stack[1].cont \in {"none", "user"}
         /\ c.stack[1].call = "menu" /\ c.stack[1].key = "menu"
<1>1. Len(c.stack) \in Nat /\ 1 \in 1 .. Len(c.stack)
  BY ClientFacts
<1>2. FrameOK(c, 1)
  BY <1>1 DEF Shape
<1>3. Len(c.stack) > 1 => 1 < Len(c.stack)
  BY <1>1
<1> QED
  BY <1>2, <1>3 DEF FrameOK, Suspended

\* A jump out of everything ends in the menu.
LEMMA UnwindLands ==
  ASSUME NEW c, ClientOK(c), Shape(c), Len(c.stack) > 1, Quiet(c.unread), ErrorLast(c.unread)
  PROVE  ClientOK(Unwind(c, 1)) /\ AtMenu(Unwind(c, 1)) /\ SameRest(c, Unwind(c, 1))
<1>1. 1 \in 1 .. Len(c.stack) /\ 1 \in 1 .. 1
  BY ClientFacts
<1>2. /\ ClientOK(Unwind(c, 1)) /\ SameRest(c, Unwind(c, 1))
      /\ Len(Unwind(c, 1).stack) = 1 /\ Unwind(c, 1).stack[1] = c.stack[1]
  BY <1>1, UnwindIs
<1> QED
  BY <1>2, MenuBelow DEF AtMenu, SameRest

\* Wherever ex_jmp_buf is from, the jump ends in the menu or is undefined.
LEMMA JumpExLands ==
  ASSUME NEW c, ClientOK(c), Shape(c), Len(c.stack) > 1 \/ c.stack[1].pc = "prompt",
         Quiet(c.unread), ErrorLast(c.unread)
  PROVE  LET d == JumpEx(c)
         IN  /\ ClientOK(d) /\ d.sockfd = c.sockfd /\ d.unread = c.unread
             /\ d.crashed \/ AtMenu(d)
<1>1. CASE c.ex = 0
  <2>1. JumpEx(c) = [c EXCEPT !.crashed = TRUE]
    BY <1>1 DEF JumpEx
  <2> QED
    BY <2>1 DEF ClientOK, ClientType
<1>2. CASE c.ex = 2
  <2>1. JumpEx(c) = Unwind(c, 1) /\ Len(c.stack) > 1
    BY <1>2, ClientFacts DEF JumpEx, ClientOK
  <2> QED
    BY <2>1, UnwindLands DEF SameRest
<1>3. c.ex \in {0, 2}
  BY DEF ClientOK, ClientType
<1> QED
  BY <1>1, <1>2, <1>3

\* The same of a play_game request that returns.
LEMMA JumpPlayLands ==
  ASSUME NEW c, ClientOK(c), Shape(c), Quiet(c.unread), ErrorLast(c.unread)
  PROVE  LET d == JumpPlay(c)
         IN  /\ ClientOK(d) /\ d.sockfd = c.sockfd /\ d.unread = c.unread
             /\ d.crashed \/ AtMenu(d)
<1>1. CASE c.play = 0
  <2>1. JumpPlay(c) = [c EXCEPT !.crashed = TRUE]
    BY <1>1 DEF JumpPlay
  <2> QED
    BY <2>1 DEF ClientOK, ClientType
<1>2. CASE c.play = 2
  <2> DEFINE u == Unwind(c, 2)
             v == [u EXCEPT !.playok = FALSE]
             x == Unwind(v, 1)
             d == [x EXCEPT !.exs = @ - 1]
  <2>1. 2 \in 1 .. Len(c.stack)
    BY <1>2, ClientFacts DEF ClientOK
  <2>2. ClientOK(u) /\ SameRest(c, u) /\ Len(u.stack) = 2 /\ u.stack[1] = c.stack[1]
    <3>1. 1 \in 1 .. 2
      OBVIOUS
    <3> QED
      BY <2>1, <3>1, UnwindIs
  <2> HIDE DEF u
  <2>3. ClientOK(v) /\ v.stack = u.stack
    BY <2>2 DEF ClientOK, ClientType
  <2>4. /\ v.unread = u.unread /\ v.sockfd = u.sockfd /\ v.exs = u.exs /\ v.calls = u.calls
    BY <2>2 DEF ClientOK, ClientType
  <2> HIDE DEF v
  <2>5. Returned(v) = d
    <3>1. Len(v.stack) - 1 = 1
      BY <2>2, <2>3
    <3> QED
      BY <3>1 DEF Returned
  <2>6. JumpPlay(c) = d
    BY <1>2, <2>5 DEF JumpPlay, u, v
  <2>7. 1 \in 1 .. Len(v.stack) /\ 1 \in 1 .. 1
    BY <2>2, <2>3
  <2>8. ClientOK(x) /\ SameRest(v, x) /\ Len(x.stack) = 1 /\ x.stack[1] = v.stack[1]
    BY <2>3, <2>7, UnwindIs
  <2> HIDE DEF x
  <2>9. x.unread = c.unread /\ x.sockfd = c.sockfd /\ x.exs = c.exs /\ x.calls = c.calls
    BY <2>2, <2>4, <2>8 DEF SameRest
  <2>10. c.exs >= 1 /\ c.exs \in Nat
    <3>1. FrameOK(c, 2) /\ c.stack[2].call = "play"
      BY <1>2, <2>1 DEF Shape
    <3> QED
      BY <3>1 DEF FrameOK, ClientOK, ClientType
  <2>11. ClientOK(d) /\ d.stack = x.stack /\ d.unread = x.unread /\ d.sockfd = x.sockfd
    <3>1. x.exs - 1 \in 0 .. MaxCalls /\ x.exs - 1 <= x.calls
      BY <2>8, <2>9, <2>10, ClientFacts DEF ClientOK, ClientType
    <3> QED
      BY <2>8, <3>1 DEF ClientOK, ClientType
  <2>12. /\ x.stack[1].pc = "prompt" /\ x.stack[1].cont \in {"none", "user"}
         /\ x.stack[1].call = "menu" /\ x.stack[1].key = "menu"
    BY <2>1, <2>2, <2>3, <2>8, MenuBelow, ClientFacts
  <2>13. AtMenu(d)
    BY <2>8, <2>9, <2>11, <2>12 DEF AtMenu
  <2> QED
    BY <2>6, <2>9, <2>11, <2>13
<1>3. c.play \in {0, 2}
  BY DEF ClientOK, ClientType
<1> QED
  BY <1>1, <1>2, <1>3

\* A client without a connection is in its menu.
Settled(c) == ClientOK(c) /\ c.sockfd = 0 /\ (c.crashed \/ AtMenu(c))

LEMMA ShapeSame ==
  ASSUME NEW c, NEW d, Shape(c), d.stack = c.stack, d.inConn = c.inConn, d.exs = c.exs,
         d.play = c.play
  PROVE  Shape(d)
BY DEF Shape, FrameOK

\* Without a guard only auth and shutdown can be under way.
LEMMA Unguarded ==
  ASSUME NEW c, ClientOK(c), Shape(c), c.exs = 0, Len(c.stack) > 1
  PROVE  Len(c.stack) = 2 /\ c.stack[2].call \in {"auth", "shutdown"}
<1>1. Len(c.stack) \in Nat /\ 2 \in 1 .. Len(c.stack) /\ ~(0 >= 1) /\ 2 - 1 = 1
  BY ClientFacts
<1>2. FrameOK(c, 2) /\ c.stack[2].call \in Calls
  BY <1>1, ClientFacts DEF Shape, FrameType
<1>3. c.stack[2].call \notin {"play", "create", "query", "exit"}
  BY <1>1, <1>2 DEF FrameOK
<1>4. c.stack[2].call # "menu"
  BY <1>2 DEF FrameOK
<1>5. c.stack[2].call \in {"auth", "shutdown"}
  BY <1>2, <1>3, <1>4 DEF Calls
<1> QED
  BY <1>2, <1>5 DEF FrameOK

\* The label "error" of send_receive_msg, and a connection that cannot be
\* restarted: without a connection, back in the menu.
LEMMA ErrorLands ==
  ASSUME NEW c, ClientOK(c), Shape(c), Len(c.stack) > 1, Quiet(c.unread), ErrorLast(c.unread)
  PROVE  Settled(Error(c))
<1> DEFINE d == [c EXCEPT !.sockfd = 0, !.playok = FALSE]
<1>1. /\ ClientOK(d) /\ d.stack = c.stack /\ d.inConn = c.inConn /\ d.exs = c.exs
      /\ d.play = c.play /\ d.unread = c.unread /\ d.sockfd = 0
  <2>1. 0 \in 0 .. MaxConns
    BY NetAssumption
  <2> QED
    BY <2>1 DEF ClientOK, ClientType
<1>2. Error(c) = IF d.exs > 0 THEN JumpEx(d) ELSE NoAnswer(d)
  BY <1>1 DEF Error
<1> HIDE DEF d
<1>3. Shape(d)
  BY <1>1, ShapeSame
<1>4. CASE d.exs > 0
  BY <1>1, <1>2, <1>3, <1>4, JumpExLands DEF Settled
<1>5. CASE ~(d.exs > 0)
  <2> DEFINE u == Unwind(d, 1)
             e == [u EXCEPT !.inConn = FALSE]
  <2>1. d.exs = 0
    BY <1>1, <1>5 DEF ClientOK, ClientType
  <2>2. Len(d.stack) - 1 = 1
    BY <1>1, <1>3, <2>1, Unguarded
  <2>3. NoAnswer(d) = e
    BY <2>2 DEF NoAnswer
  <2>4. ClientOK(u) /\ AtMenu(u) /\ SameRest(d, u)
    BY <1>1, <1>3, UnwindLands
  <2> HIDE DEF u
  <2>5. ClientOK(e) /\ e.stack = u.stack /\ e.unread = u.unread /\ e.sockfd = u.sockfd
    BY <2>4 DEF ClientOK, ClientType
  <2> QED
    BY <1>1, <1>2, <1>5, <2>3, <2>4, <2>5 DEF Settled, AtMenu, SameRest
<1> QED
  BY <1>4, <1>5

LEMMA NotRestartedLands ==
  ASSUME NEW c, ClientOK(c), Shape(c), Quiet(c.unread), ErrorLast(c.unread), c.sockfd = 0,
         NEW cont \in {"loop", "error", "again", "check"},
         IF cont = "check" THEN c.stack[Len(c.stack)].pc = "prompt" ELSE Len(c.stack) > 1
  PROVE  Settled(NotRestarted(c, cont))
<1>1. CASE cont = "check"
  <2> DEFINE d == [c EXCEPT !.playok = FALSE]
  <2>1. /\ ClientOK(d) /\ d.stack = c.stack /\ d.inConn = c.inConn /\ d.exs = c.exs
        /\ d.play = c.play /\ d.unread = c.unread /\ d.sockfd = 0
    BY DEF ClientOK, ClientType
  <2>2. NotRestarted(c, cont) = IF c.exs > 0 THEN JumpEx(d) ELSE Now(d, "prompt")
    BY <1>1 DEF NotRestarted
  <2> HIDE DEF d
  <2>3. Shape(d) /\ Len(c.stack) \in Nat \ {0}
    BY <2>1, ShapeSame, ClientFacts
  <2>4. CASE c.exs > 0
    <3>1. Len(c.stack) > 1 \/ c.stack[1].pc = "prompt"
      BY <1>1, <2>3
    <3> QED
      BY <2>1, <2>2, <2>3, <2>4, <3>1, JumpExLands DEF Settled
  <2>5. CASE ~(c.exs > 0)
    <3>1. d.exs = 0
      BY <2>1, <2>5 DEF ClientOK, ClientType
    <3>2. Len(c.stack) = 1
      <4>1. ASSUME Len(d.stack) > 1 PROVE FALSE
        <5>1. Len(d.stack) = 2 /\ d.stack[2].call \in {"auth", "shutdown"}
          BY <2>1, <2>3, <3>1, <4>1, Unguarded
        <5>2. d.stack[2].pc = "prompt" /\ 2 \in 1 .. 2
          BY <1>1, <2>1, <5>1
        <5>3. FrameOK(d, 2)
          BY <2>3, <5>1, <5>2 DEF Shape
        <5> QED
          BY <5>1, <5>2, <5>3 DEF FrameOK
      <4>2. Len(d.stack) \in Nat /\ Len(d.stack) # 0
        BY <2>1, <2>3
      <4>3. ~(Len(d.stack) > 1)
        BY <4>1
      <4>4. \A k \in Nat : k = 0 \/ k = 1 \/ k > 1
        OBVIOUS
      <4>5. Len(d.stack) = 1
        BY <4>2, <4>3, <4>4, Zenon
      <4> QED
        BY <2>1, <4>5
    <3>3. /\ ClientOK(Now(d, "prompt")) /\ SameRest(d, Now(d, "prompt"))
          /\ Len(Now(d, "prompt").stack) = 1
          /\ Now(d, "prompt").stack[1] = [d.stack[1] EXCEPT !.pc = "prompt"]
      <4>1. "prompt" \in Pcs /\ Len(d.stack) = 1
        BY <2>1, <3>2 DEF Pcs
      <4> QED
        BY <2>1, <4>1, NowIs
    <3>4. /\ d.stack[1].call = "menu" /\ d.stack[1].key = "menu" /\ d.stack[1].cont \in {"none", "user"}
      BY <1>1, <2>1, <2>3, <3>2, MenuBelow
    <3>5. d.stack[1] \in FrameType
      BY <2>1, <3>2, ClientFacts
    <3>6. AtMenu(Now(d, "prompt"))
      BY <2>1, <3>3, <3>4, <3>5 DEF AtMenu, SameRest, FrameType
    <3> QED
      BY <2>1, <2>2, <2>5, <3>3, <3>6 DEF Settled, SameRest
  <2> QED
    BY <2>4, <2>5
<1>2. CASE cont # "check"
  <2>1. CASE cont \in {"error", "again"} /\ c.exs > 0
    <3>1. NotRestarted(c, cont) = JumpEx(c)
      BY <1>2, <2>1 DEF NotRestarted
    <3> QED
      BY <1>2, <3>1, JumpExLands DEF Settled
  <2>2. CASE ~(cont \in {"error", "again"} /\ c.exs > 0)
    <3>1. NotRestarted(c, cont) = Error(c)
      BY <1>2, <2>2 DEF NotRestarted
    <3> QED
      BY <1>2, <3>1, ErrorLands
  <2> QED
    BY <2>1, <2>2
<1> QED
  BY <1>1, <1>2

LEMMA SettledGood ==
  ASSUME NEW c, NEW cs, LinesOK(cs), Settled(c)
  PROVE  Good(c, cs)
<1>1. Len(cs) \in Nat
  BY DEF LinesOK
<1> QED
  BY <1>1, MenuOK DEF Settled, Good

-----------------------------------------------------------------------------
\* The connections

LEMMA SetLine ==
  ASSUME NEW cs, LinesOK(cs), NEW s \in 1 .. Len(cs), NEW p \in ConType, ServerOK(p)
  PROVE  LET es == [cs EXCEPT ![s] = p]
         IN  LinesOK(es) /\ Len(es) = Len(cs) /\ es[s] = p
             /\ \A i \in 1 .. Len(cs) : i # s => es[i] = cs[i]
<1> DEFINE es == [cs EXCEPT ![s] = p]
<1>1. cs \in Seq(ConType) /\ Len(cs) \in Nat
  BY DEF LinesOK
<1>2. /\ es \in Seq(ConType) /\ Len(es) = Len(cs)
      /\ \A i \in 1 .. Len(cs) : es[i] = IF i = s THEN p ELSE cs[i]
  BY <1>1, ExceptSeq
<1> HIDE DEF es
<1>3. LinesOK(es)
  BY <1>2 DEF LinesOK
<1> QED
  BY <1>2, <1>3 DEF es

LEMMA AppendLine ==
  ASSUME NEW cs, LinesOK(cs), Len(cs) < MaxConns, NEW p \in ConType, ServerOK(p)
  PROVE  LET es == Append(cs, p)
         IN  LinesOK(es) /\ Len(es) = Len(cs) + 1 /\ es[Len(cs) + 1] = p
<1> DEFINE es == Append(cs, p)
<1>1. cs \in Seq(ConType) /\ Len(cs) \in Nat /\ MaxConns \in Nat
  BY NetAssumption DEF LinesOK
<1>2. /\ es \in Seq(ConType) /\ Len(es) = Len(cs) + 1 /\ es[Len(cs) + 1] = p
      /\ \A i \in 1 .. Len(cs) : es[i] = cs[i]
  BY <1>1, AppendProperties
<1> HIDE DEF es
<1>3. \A i \in 1 .. Len(es) : i \in 1 .. Len(cs) \/ i = Len(cs) + 1
  BY <1>1, <1>2
<1>4. Len(es) <= MaxConns
  BY <1>1, <1>2
<1>5. LinesOK(es)
  BY <1>2, <1>3, <1>4 DEF LinesOK
<1> QED
  BY <1>2, <1>5 DEF es

LEMMA NewConOK ==
  /\ NewCon \in ConType /\ ServerOK(NewCon)
  /\ NewCon.st = "auth" /\ NewCon.toServer = <<>> /\ NewCon.toClient = <<>> /\ Quiet(<<>>)
<1>1. MaxCalls \in Nat
  BY NetAssumption
<1>2. NewCon \in ConType
  BY <1>1 DEF NewCon, ConType
<1>3. Quiet(<<>>) /\ ErrorLast(<<>>) /\ ~HasError(<<>>)
  BY DEF Quiet, ErrorLast, HasError
<1> QED
  BY <1>2, <1>3 DEF NewCon, ServerOK

LEMMA ClosedOK ==
  ASSUME NEW cs, LinesOK(cs), NEW s \in 0 .. Len(cs)
  PROVE  LinesOK(Closed(cs, s)) /\ Len(Closed(cs, s)) = Len(cs)
<1>1. CASE s = 0
  BY <1>1 DEF Closed
<1>2. CASE s # 0
  <2> DEFINE p == [cs[s] EXCEPT !.up = FALSE, !.toClient = <<>>, !.cut = FALSE]
  <2>1. cs \in Seq(ConType) /\ Len(cs) \in Nat /\ s \in 1 .. Len(cs)
    BY <1>2 DEF LinesOK
  <2>2. Closed(cs, s) = [cs EXCEPT ![s] = p]
    BY <1>2 DEF Closed
  <2>3. cs[s] \in ConType /\ ServerOK(cs[s])
    BY <2>1 DEF LinesOK
  <2>4. p \in ConType /\ p.st = cs[s].st /\ p.toServer = cs[s].toServer /\ ~p.up
        /\ p.toClient = <<>> /\ p.can = cs[s].can
    <3>1. <<>> \in Seq(MsgType)
      OBVIOUS
    <3> HIDE DEF MsgType
    <3> QED
      BY <2>3, <3>1 DEF ConType
  <2> HIDE DEF p
  <2>5. ErrorLast(<<>>) /\ ~HasError(<<>>)
    BY DEF ErrorLast, HasError
  <2>6. ServerOK(p)
    BY <2>3, <2>4, <2>5 DEF ServerOK
  <2>7. LinesOK([cs EXCEPT ![s] = p]) /\ Len([cs EXCEPT ![s] = p]) = Len(cs)
    BY <2>1, <2>4, <2>6, SetLine
  <2> QED
    BY <2>2, <2>7
<1> QED
  BY <1>1, <1>2

-----------------------------------------------------------------------------
\* A request starts

LEMMA PushShape ==
  ASSUME NEW c, ClientOK(c), Shape(c), NEW f, NEW d,
         c.stack[Len(c.stack)].call \notin {"auth", "shutdown"},
         Suspended(c.stack[Len(c.stack)], f),
         Len(d.stack) = Len(c.stack) + 1, d.stack[Len(c.stack) + 1] = f,
         \A i \in 1 .. Len(c.stack) : d.stack[i] = c.stack[i],
         d.play = c.play, d.exs \in Nat, d.exs >= c.exs,
         FrameOK(d, Len(c.stack) + 1)
  PROVE  Shape(d)
<1> DEFINE n == Len(c.stack)
<1>1. n \in Nat \ {0} /\ c.exs \in Nat /\ c.play \in {0, 2} /\ c.play <= n
  BY ClientFacts DEF ClientOK, ClientType
<1>2. ASSUME NEW i \in 1 .. n PROVE FrameOK(d, i)
  <2> DEFINE g == c.stack[i]
  <2>1. FrameOK(c, i) /\ d.stack[i] = g /\ i \in Nat
    BY <1>1 DEF Shape
  <2>2. g.call \notin {"auth", "shutdown"}
    <3>1. CASE i = n
      BY <3>1
    <3>2. CASE i # n
      BY <2>1, <3>2 DEF FrameOK
    <3> QED
      BY <3>1, <3>2
  <2>3. i = 3 => d.stack[2] = c.stack[2]
    BY <1>1
  <2>4. i < Len(d.stack) => Suspended(g, d.stack[i + 1])
    <3>1. CASE i = n
      BY <1>1, <3>1
    <3>2. CASE i # n
      <4>1. i < n /\ i + 1 \in 1 .. n
        BY <1>1, <3>2
      <4> QED
        BY <2>1, <4>1 DEF FrameOK
    <3> QED
      BY <3>1, <3>2
  <2>5. g.call \in {"play", "create", "query", "exit"} => d.exs >= i - 1
    <3>1. g.call \in {"play", "create", "query", "exit"} => c.exs >= i - 1
      BY <2>1 DEF FrameOK
    <3>2. i - 1 \in Int
      BY <2>1
    <3>3. c.exs >= i - 1 => d.exs >= i - 1
      BY <1>1, <3>2
    <3> QED
      BY <3>1, <3>3
  <2> HIDE DEF g
  <2> QED
    BY <2>1, <2>2, <2>3, <2>4, <2>5 DEF FrameOK, g
<1>3. \A i \in 1 .. Len(d.stack) : i \in 1 .. n \/ i = n + 1
  BY <1>1
<1>4. c.play = 2 => d.stack[2] = c.stack[2]
  BY <1>1
<1>5. d.play = 2 => d.stack[2].call = "play"
  BY <1>4 DEF Shape
<1> QED
  BY <1>2, <1>3, <1>5 DEF Shape

LEMMA FrameIs ==
  ASSUME NEW call \in Calls, NEW id \in Ids,
         NEW cont \in {"none", "loop", "error", "again", "check", "user"}
  PROVE  LET f == Frame(call, id, cont)
         IN  /\ f \in FrameType /\ f.call = call /\ f.key = call /\ f.id = id /\ f.pc = "send"
             /\ f.cont = cont
             /\ Playing(f) => call \in {"query", "exit"}
<1>1. Retries \in 0 .. Retries
  BY NetAssumption
<1> QED
  BY <1>1 DEF Frame, FrameType, Pcs, Playing

\* nhnet_connect and restart_connection get as far as the request "auth".
LEMMA AuthStarts ==
  ASSUME NEW c, ClientOK(c), Shape(c), Gaming(c), Quiet(c.unread), ErrorLast(c.unread),
         NEW cs, LinesOK(cs), NEW n \in 1 .. Len(cs), cs[n] = NewCon,
         NEW cont \in {"loop", "error", "again", "check", "user"},
         cont = "user" => Len(c.stack) = 1,
         c.stack[Len(c.stack)].call \notin {"auth", "shutdown"},
         Suspended(c.stack[Len(c.stack)], Frame("auth", n, cont))
  PROVE  Good([c EXCEPT !.sockfd = n, !.inConn = TRUE,
                        !.stack = Append(@, Frame("auth", n, cont))], cs)
<1> DEFINE f == Frame("auth", n, cont)
           k == Len(c.stack)
           e == [c EXCEPT !.stack = Append(@, f)]
           d == [e EXCEPT !.sockfd = n, !.inConn = TRUE]
<1>1. d = [c EXCEPT !.sockfd = n, !.inConn = TRUE, !.stack = Append(@, f)]
  BY DEF ClientOK, ClientType
<1>2. n \in 1 .. MaxConns /\ n \in Ids /\ n \in Nat /\ n # 0 /\ Len(cs) \in Nat /\ n <= Len(cs)
  BY NetAssumption DEF LinesOK, Ids
<1>3. f \in FrameType /\ f.call = "auth" /\ f.key = "auth" /\ f.pc = "send" /\ f.cont = cont
      /\ ~Playing(f)
  BY <1>2, FrameIs DEF Calls
<1> HIDE DEF f
<1>4. /\ ClientOK(e) /\ SameRest(c, e) /\ e.play = c.play
      /\ Len(e.stack) = k + 1 /\ e.stack[k + 1] = f
      /\ \A i \in 1 .. k : e.stack[i] = c.stack[i]
  BY <1>3, PushIs
<1> HIDE DEF e
<1>5. /\ ClientOK(d) /\ d.stack = e.stack /\ d.unread = e.unread /\ d.play = e.play
      /\ d.exs = e.exs /\ d.playok = e.playok /\ d.inConn /\ d.sockfd = n
  <2>1. ClientOK(e) /\ n \in 0 .. MaxConns
    BY <1>2, <1>4, NetAssumption
  <2> QED
    BY <2>1 DEF ClientOK, ClientType
<1> HIDE DEF d
<1>6. k \in Nat /\ k >= 1 /\ k + 1 # 1 /\ Len(d.stack) = k + 1
  BY <1>4, <1>5, ClientFacts
<1>7. FrameOK(d, k + 1)
  <2>1. d.stack[k + 1] = f /\ ~(k + 1 < Len(d.stack)) /\ (cont = "user" => k + 1 = 2)
    BY <1>4, <1>5, <1>6
  <2> QED
    BY <1>3, <1>5, <1>6, <2>1 DEF FrameOK
<1>8. Shape(d)
  <2>1. d.exs \in Nat /\ d.exs >= c.exs
    BY <1>4, <1>5 DEF SameRest, ClientOK, ClientType
  <2>2. d.stack[k + 1] = f /\ \A i \in 1 .. k : d.stack[i] = c.stack[i]
    BY <1>4, <1>5
  <2>3. Suspended(c.stack[k], f)
    BY DEF f
  <2> QED
    BY <1>4, <1>5, <1>6, <1>7, <2>1, <2>2, <2>3, PushShape
<1>9. Gaming(d)
  <2> SUFFICES ASSUME NEW i \in 1 .. Len(d.stack), Playing(d.stack[i])
               PROVE  d.playok /\ d.play = 2
    BY DEF Gaming
  <2>1. i # k + 1
    BY <1>3, <1>4, <1>5
  <2>2. i \in 1 .. k
    BY <1>6, <2>1
  <2>3. Playing(c.stack[i])
    BY <1>4, <1>5, <2>2
  <2> QED
    BY <1>4, <1>5, <2>2, <2>3 DEF Gaming, SameRest
<1>10. Last(d.stack) = f
  BY <1>4, <1>5, <1>6 DEF Last
<1>11. BufferOK(d)
  BY <1>2, <1>3, <1>4, <1>5, <1>10 DEF BufferOK, SameRest
<1>12. LineOK(d, NewCon)
  <2>1. Rest(d, NewCon) /\ Waits(d, NewCon)
    BY <1>3, <1>10, NewConOK DEF Rest, Waits, Due
  <2> QED
    BY <1>3, <1>4, <1>5, <1>10, <2>1, NewConOK DEF LineOK, SameRest
<1>13. Good(d, cs)
  BY <1>2, <1>5, <1>8, <1>9, <1>11, <1>12 DEF Good
<1> QED
  BY <1>1, <1>13 DEF f

\* restart_connection, whoever calls it
LEMMA RestartGood ==
  ASSUME NEW c, ClientOK(c), Shape(c), Gaming(c), Quiet(c.unread), ErrorLast(c.unread),
         LinesOK(con), c.sockfd \in 1 .. Len(con),
         NEW cont \in {"loop", "error", "again", "check"},
         IF cont = "check" THEN c.stack[Len(c.stack)].pc = "prompt" ELSE Len(c.stack) > 1,
         cont = "loop" => c.stack[Len(c.stack)].pc = "fail",
         cont \in {"error", "again"} => c.stack[Len(c.stack)].pc = "recv",
         Restart(c, cont)
  PROVE  Good(cl', con')
<1> DEFINE d == [c EXCEPT !.sockfd = 0]
           cs == Closed(con, c.sockfd)
<1>1. Len(con) \in Nat /\ c.sockfd \in 0 .. Len(con) /\ MaxConns \in Nat
  BY NetAssumption DEF LinesOK
<1>2. LinesOK(cs) /\ Len(cs) = Len(con)
  BY <1>1, ClosedOK
<1>3. /\ ClientOK(d) /\ d.stack = c.stack /\ d.unread = c.unread /\ d.play = c.play
      /\ d.exs = c.exs /\ d.playok = c.playok /\ d.inConn = c.inConn /\ d.sockfd = 0
  <2>1. 0 \in 0 .. MaxConns
    BY <1>1
  <2> QED
    BY <2>1 DEF ClientOK, ClientType
<1>4. \/ con' = cs /\ cl' = NotRestarted(d, cont)
      \/ /\ ~c.inConn /\ Len(con) < MaxConns
         /\ con' = Append(cs, NewCon)
         /\ cl' = [d EXCEPT !.sockfd = Len(con) + 1, !.inConn = TRUE,
                            !.stack = Append(@, Frame("auth", Len(con) + 1, cont))]
  BY DEF Restart
<1> HIDE DEF d, cs
<1>5. Shape(d) /\ Gaming(d)
  BY <1>3, ShapeSame DEF Gaming
<1>6. CASE con' = cs /\ cl' = NotRestarted(d, cont)
  <2>1. Settled(NotRestarted(d, cont))
    BY <1>3, <1>5, NotRestartedLands
  <2> QED
    BY <1>2, <1>6, <2>1, SettledGood
<1>7. CASE /\ ~c.inConn /\ Len(con) < MaxConns
           /\ con' = Append(cs, NewCon)
           /\ cl' = [d EXCEPT !.sockfd = Len(con) + 1, !.inConn = TRUE,
                              !.stack = Append(@, Frame("auth", Len(con) + 1, cont))]
  <2> DEFINE n == Len(con) + 1
  <2>1. LinesOK(con') /\ Len(con') = n /\ con'[n] = NewCon
    BY <1>2, <1>7, NewConOK, AppendLine
  <2>2. n \in 1 .. Len(con')
    BY <1>1, <2>1
  <2>3. Len(c.stack) \in 1 .. Len(c.stack)
    BY ClientFacts
  <2>4. FrameOK(c, Len(c.stack))
    BY <2>3 DEF Shape
  <2>5. d.stack[Len(d.stack)].call \notin {"auth", "shutdown"}
    BY <1>3, <1>7, <2>4 DEF FrameOK
  <2>6. Frame("auth", n, cont).cont = cont
    BY DEF Frame
  <2>7. Suspended(d.stack[Len(d.stack)], Frame("auth", n, cont))
    BY <1>3, <2>6 DEF Suspended
  <2> HIDE DEF n
  <2>8. Good([d EXCEPT !.sockfd = n, !.inConn = TRUE,
                       !.stack = Append(@, Frame("auth", n, cont))], con')
    BY <1>3, <1>5, <2>1, <2>2, <2>5, <2>7, AuthStarts
  <2> QED
    BY <1>7, <2>8 DEF n
<1> QED
  BY <1>4, <1>6, <1>7

-----------------------------------------------------------------------------
\* A request ends, or goes on

\* The frame on top returns.
LEMMA PopShape ==
  ASSUME NEW c, ClientOK(c), Shape(c), Gaming(c), Len(c.stack) > 1, NEW d,
         Len(d.stack) = Len(c.stack) - 1,
         \A i \in 1 .. (Len(c.stack) - 1) : d.stack[i] = c.stack[i],
         d.play = IF c.play <= Len(c.stack) - 1 THEN c.play ELSE 0,
         d.playok = c.playok, d.exs \in Nat,
         d.exs >= c.exs \/ d.exs >= Len(c.stack) - 2
  PROVE  Shape(d) /\ Gaming(d)
<1> DEFINE n == Len(c.stack) - 1
<1>1. n \in Nat /\ n >= 1 /\ Len(c.stack) = n + 1 /\ c.play \in {0, 2} /\ c.exs \in Nat
  BY ClientFacts DEF ClientOK, ClientType
<1>2. Len(d.stack) = n /\ (\A i \in 1 .. n : d.stack[i] = c.stack[i])
  OBVIOUS
<1>3. d.play = IF c.play <= n THEN c.play ELSE 0
  OBVIOUS
<1>4. d.exs >= c.exs \/ d.exs >= n - 1
  BY <1>1
<1> HIDE DEF n
<1>5. ASSUME NEW i \in 1 .. n PROVE FrameOK(d, i)
  <2> DEFINE g == c.stack[i]
  <2>1. i \in 1 .. Len(c.stack) /\ i # Len(c.stack) /\ i < Len(c.stack) /\ i \in Nat /\ i <= n
    BY <1>1
  <2>2. FrameOK(c, i) /\ d.stack[i] = g
    BY <1>2, <2>1 DEF Shape
  <2>3. g.call \notin {"auth", "shutdown"}
    BY <2>1, <2>2 DEF FrameOK
  <2>4. i = 3 => d.stack[2] = c.stack[2]
    BY <1>1, <1>2
  <2>5. i < Len(d.stack) => Suspended(g, d.stack[i + 1])
    <3>1. i < n => i + 1 \in 1 .. n
      BY <1>1
    <3> QED
      BY <1>2, <2>1, <2>2, <3>1 DEF FrameOK
  <2>6. g.call \in {"play", "create", "query", "exit"} => d.exs >= i - 1
    <3>1. g.call \in {"play", "create", "query", "exit"} => c.exs >= i - 1
      BY <2>2 DEF FrameOK
    <3>2. i - 1 \in Int /\ i - 1 <= n - 1
      BY <1>1, <2>1
    <3>3. c.exs >= i - 1 => d.exs >= i - 1
      BY <1>1, <1>4, <3>2
    <3> QED
      BY <3>1, <3>3
  <2> HIDE DEF g
  <2> QED
    BY <2>2, <2>3, <2>4, <2>5, <2>6 DEF FrameOK, g
<1>6. d.play = 2 => d.stack[2].call = "play"
  <2>1. d.play = 2 => c.play = 2 /\ 2 \in 1 .. n
    BY <1>1, <1>3
  <2> QED
    BY <1>2, <2>1 DEF Shape
<1>7. Shape(d)
  BY <1>2, <1>5, <1>6 DEF Shape
<1>8. ASSUME NEW i \in 1 .. n, Playing(d.stack[i]) PROVE d.playok /\ d.play = 2
  <2>1. i \in 1 .. Len(c.stack) /\ d.stack[i] = c.stack[i]
    BY <1>1, <1>2
  <2>2. c.playok /\ c.play = 2
    BY <1>8, <2>1 DEF Gaming
  <2>3. FrameOK(c, i) /\ d.stack[i].call # "menu"
    BY <1>8, <2>1 DEF Shape, Playing
  <2>4. i # 1
    BY <2>1, <2>3 DEF FrameOK
  <2>5. n >= 2
    BY <1>1, <2>4
  <2> QED
    BY <1>3, <2>2, <2>5
<1> QED
  BY <1>2, <1>7, <1>8 DEF Gaming

\* The frame on top changes, and perhaps playgame_jmp_buf is set.
LEMMA TopShape ==
  ASSUME NEW c, ClientOK(c), Shape(c), Gaming(c), NEW d, NEW g,
         Len(d.stack) = Len(c.stack), d.stack[Len(c.stack)] = g,
         \A i \in 1 .. Len(c.stack) : i < Len(c.stack) => d.stack[i] = c.stack[i],
         g.call = c.stack[Len(c.stack)].call, g.cont = c.stack[Len(c.stack)].cont,
         g.id = c.stack[Len(c.stack)].id,
         g.key = g.call \/ (g.key = "answer" /\ g.call \in {"play", "exit"}),
         d.inConn = c.inConn, d.exs = c.exs,
         g.pc \in {"prompt", "check"} => g.call \in {"menu", "play", "exit"},
         g.call = "menu" => g.pc \in {"prompt", "check"},
         d.play = 2 => c.play = 2 \/ (Len(c.stack) = 2 /\ c.stack[2].call = "play"),
         c.playok /\ c.play = 2 => d.playok /\ d.play = 2,
         Playing(g) => Playing(c.stack[Len(c.stack)]) \/ (d.playok /\ d.play = 2)
  PROVE  Shape(d) /\ Gaming(d)
<1> DEFINE n == Len(c.stack)
           f == c.stack[n]
<1>1. n \in Nat /\ n >= 1 /\ n \in 1 .. n
  BY ClientFacts
<1>2. /\ Len(d.stack) = n /\ d.stack[n] = g
      /\ \A i \in 1 .. n : i < n => d.stack[i] = c.stack[i]
  OBVIOUS
<1>3. /\ g.call = f.call /\ g.cont = f.cont /\ g.id = f.id
      /\ g.pc \in {"prompt", "check"} => g.call \in {"menu", "play", "exit"}
      /\ g.call = "menu" => g.pc \in {"prompt", "check"}
      /\ g.key = g.call \/ (g.key = "answer" /\ g.call \in {"play", "exit"})
      /\ Playing(g) => Playing(f) \/ (d.playok /\ d.play = 2)
  OBVIOUS
<1> HIDE DEF n, f
<1>4. ASSUME NEW i \in 1 .. n PROVE d.stack[i].call = c.stack[i].call
  <2>1. CASE i = n
    BY <1>2, <1>3, <2>1 DEF f
  <2>2. CASE i < n
    BY <1>2, <2>2
  <2> QED
    BY <1>1, <2>1, <2>2
<1>5. ASSUME NEW i \in 1 .. n PROVE FrameOK(d, i)
  <2>1. FrameOK(c, i)
    BY DEF Shape, n
  <2>2. CASE i = n
    <3>1. i = 3 => d.stack[2].call = c.stack[2].call
      <4>1. i = 3 => 2 \in 1 .. n
        BY <1>1, <2>2
      <4> QED
        BY <1>4, <4>1
    <3>2. ~(i < Len(d.stack)) /\ d.stack[i] = g
      BY <1>1, <1>2, <2>2
    <3> QED
      BY <1>2, <1>3, <2>1, <2>2, <3>1, <3>2 DEF FrameOK, f, n
  <2>3. CASE i # n
    <3>1. i < n /\ i \in Nat /\ i + 1 \in 1 .. n
      BY <1>1, <2>3
    <3>2. d.stack[i] = c.stack[i]
      BY <1>2, <3>1
    <3>3. d.stack[i + 1].cont = c.stack[i + 1].cont
      <4>1. CASE i + 1 = n
        BY <1>2, <1>3, <4>1 DEF f
      <4>2. CASE i + 1 # n
        <5>1. i + 1 < n
          BY <1>1, <3>1, <4>2
        <5> QED
          BY <1>2, <3>1, <5>1
      <4> QED
        BY <4>1, <4>2
    <3>4. i = 3 => d.stack[2] = c.stack[2]
      <4>1. i = 3 => 2 \in 1 .. n /\ 2 < n
        BY <1>1, <3>1
      <4> QED
        BY <1>2, <4>1
    <3>5. Len(d.stack) = Len(c.stack)
      BY <1>2 DEF n
    <3> QED
      BY <2>1, <3>2, <3>3, <3>4, <3>5 DEF FrameOK, Suspended
  <2> QED
    BY <2>2, <2>3
<1>6. d.play = 2 => d.stack[2].call = "play"
  <2>1. c.play = 2 => 2 \in 1 .. n
    BY <1>1 DEF ClientOK, n
  <2>2. n = 2 => 2 \in 1 .. n
    BY <1>1
  <2>3. d.play = 2 => 2 \in 1 .. n /\ c.stack[2].call = "play"
    BY <2>1, <2>2 DEF Shape, n
  <2> QED
    BY <1>4, <2>3
<1>8. ASSUME NEW i \in 1 .. n, Playing(d.stack[i]) PROVE d.playok /\ d.play = 2
  <2>1. CASE i = n
    BY <1>1, <1>2, <1>3, <1>8, <2>1 DEF Gaming, n, f
  <2>2. CASE i # n
    <3>1. i < n
      BY <1>1, <2>2
    <3>2. d.stack[i] = c.stack[i]
      BY <1>2, <3>1
    <3> QED
      BY <1>8, <3>2 DEF Gaming, n
  <2> QED
    BY <2>1, <2>2
<1>9. Shape(d) /\ Gaming(d)
  BY <1>2, <1>5, <1>6, <1>8 DEF Shape, Gaming
<1> QED
  BY <1>9

LEMMA NowShape ==
  ASSUME NEW c, ClientOK(c), Shape(c), Gaming(c), NEW x \in Pcs,
         x \in {"prompt", "check"} => c.stack[Len(c.stack)].call \in {"menu", "play", "exit"},
         c.stack[Len(c.stack)].call = "menu" => x \in {"prompt", "check"},
         x \in {"prompt", "check"} /\ c.stack[Len(c.stack)].call = "play"
           => c.playok /\ c.play = 2
  PROVE  Shape(Now(c, x)) /\ Gaming(Now(c, x))
<1> DEFINE n == Len(c.stack)
           f == c.stack[n]
           d == Now(c, x)
           g == [f EXCEPT !.pc = x]
<1>1. n \in 1 .. n /\ f \in FrameType
  BY ClientFacts
<1>2. /\ SameRest(c, d) /\ d.play = c.play /\ Len(d.stack) = n /\ d.stack[n] = g
      /\ \A i \in 1 .. n : i < n => d.stack[i] = c.stack[i]
  BY NowIs
<1>3. g.call = f.call /\ g.key = f.key /\ g.cont = f.cont /\ g.id = f.id /\ g.pc = x
  BY <1>1 DEF FrameType
<1>4. f.key = f.call \/ (f.key = "answer" /\ f.call \in {"play", "exit"})
  BY <1>1 DEF Shape, FrameOK
<1> HIDE DEF d, g
<1>5. Playing(g) => Playing(f) \/ (d.playok /\ d.play = 2)
  BY <1>2, <1>3 DEF Playing, SameRest
<1>6. d.inConn = c.inConn /\ d.exs = c.exs /\ d.playok = c.playok
  BY <1>2 DEF SameRest
<1>7. Shape(d) /\ Gaming(d)
  BY <1>2, <1>3, <1>4, <1>5, <1>6, TopShape
<1> QED
  BY <1>7 DEF d

\* A client that is back in the menu, with the connection that it has
LEMMA MenuGood ==
  ASSUME NEW c, NEW cs, NEW p, LinesOK(cs), ClientOK(c), c.crashed \/ AtMenu(c),
         c.sockfd \in 1 .. Len(cs), p = cs[c.sockfd],
         Quiet(p.toClient), p.toServer = <<>>, p.up => p.st = "main",
         HasError(c.unread) => ~p.up
  PROVE  Good(c, cs)
<1>1. Len(cs) \in Nat /\ c.sockfd \in Nat /\ c.sockfd # 0
  BY DEF LinesOK
<1>2. CASE ~c.crashed
  <2>1. Last(c.stack) = c.stack[1]
    BY <1>2, ClientFacts DEF AtMenu
  <2>2. LineOK(c, p)
    BY <1>2, <2>1 DEF LineOK, Rest, Waits, AtMenu
  <2> QED
    BY <1>1, <1>2, <2>2, MenuOK DEF Good
<1>3. CASE c.crashed
  BY <1>1, <1>3 DEF Good
<1> QED
  BY <1>2, <1>3

LEMMA TailIs ==
  ASSUME NEW q \in Seq(MsgType), q # <<>>
  PROVE  /\ Tail(q) \in Seq(MsgType) /\ Len(q) \in Nat /\ Len(q) >= 1 /\ Len(Tail(q)) = Len(q) - 1
         /\ Head(q) = q[1] /\ 1 \in 1 .. Len(q) /\ q[1] \in MsgType
         /\ \A i \in 1 .. Len(Tail(q)) : i + 1 \in 1 .. Len(q) /\ Tail(q)[i] = q[i + 1]
<1> HIDE DEF MsgType
<1>1. Tail(q) \in Seq(MsgType) /\ Len(Tail(q)) = Len(q) - 1 /\ Len(q) \in Nat /\ Len(q) # 0
      /\ Head(q) = q[1]
  BY HeadTailProperties, EmptySeq
<1>2. \A i \in 1 .. Len(Tail(q)) : Tail(q)[i] = q[i + 1]
  BY <1>1, HeadTailProperties
<1>3. Len(q) >= 1 /\ 1 \in 1 .. Len(q)
  BY <1>1
<1>4. q[1] \in MsgType
  BY <1>3
<1> QED
  BY <1>1, <1>2, <1>3, <1>4

LEMMA TailKeeps ==
  ASSUME NEW q \in Seq(MsgType), q # <<>>
  PROVE  /\ ErrorLast(q) => ErrorLast(Tail(q))
         /\ Quiet(q) => Quiet(Tail(q))
         /\ OnlyReply(q) => OnlyReply(Tail(q))
         /\ OnlyReply(q) /\ q[1].k \notin Async => Quiet(Tail(q))
         /\ ErrorLast(q) /\ q[1].k \in Errors => Quiet(Tail(q))
         /\ HasError(Tail(q)) => HasError(q)
         /\ \A i \in 1 .. Len(Tail(q)) : Tail(q)[i] \in ToSet(q)
<1> DEFINE t == Tail(q)
<1>1. /\ t \in Seq(MsgType) /\ Len(q) \in Nat /\ Len(q) >= 1 /\ Len(t) = Len(q) - 1
      /\ 1 \in 1 .. Len(q) /\ DOMAIN q = 1 .. Len(q)
      /\ \A i \in 1 .. Len(t) : i + 1 \in 1 .. Len(q) /\ t[i] = q[i + 1]
  BY TailIs
<1> HIDE DEF t, MsgType
<1>2. \A i \in 1 .. Len(t) : i \in Nat /\ i + 1 # 1
  BY <1>1
<1>3. ErrorLast(q) => ErrorLast(t)
  <2>1. \A i \in 1 .. Len(t) : i + 1 = Len(q) => i = Len(t)
    BY <1>1
  <2> QED
    BY <1>1, <2>1 DEF ErrorLast
<1>4. Quiet(q) => Quiet(t)
  BY <1>1 DEF Quiet
<1>5. OnlyReply(q) => OnlyReply(t)
  <2>1. \A i, j \in 1 .. Len(t) : i + 1 = j + 1 => i = j
    BY <1>1
  <2> QED
    BY <1>1, <2>1 DEF OnlyReply
<1>6. OnlyReply(q) /\ q[1].k \notin Async => Quiet(t)
  BY <1>1, <1>2 DEF OnlyReply, Quiet
<1>7. ErrorLast(q) /\ q[1].k \in Errors => Quiet(t)
  <2>1. ErrorLast(q) /\ q[1].k \in Errors => 1 .. Len(t) = {}
    BY <1>1 DEF ErrorLast
  <2> QED
    BY <2>1 DEF Quiet
<1>8. HasError(t) => HasError(q)
  BY <1>1 DEF HasError
<1>9. \A i \in 1 .. Len(t) : t[i] \in ToSet(q)
  BY <1>1 DEF ToSet
<1> QED
  BY <1>3, <1>4, <1>5, <1>6, <1>7, <1>8, <1>9 DEF t

LEMMA NoAnswerIs ==
  ASSUME NEW c, ClientOK(c), Shape(c), Gaming(c), Len(c.stack) > 1
  PROVE  LET d == NoAnswer(c)
         IN  /\ ClientOK(d) /\ Shape(d) /\ Gaming(d)
             /\ d.sockfd = c.sockfd /\ d.unread = c.unread /\ d.playok = c.playok
             /\ d.crashed = c.crashed /\ ~d.inConn
             /\ Len(d.stack) = Len(c.stack) - 1
             /\ \A i \in 1 .. (Len(c.stack) - 1) : d.stack[i] = c.stack[i]
<1> DEFINE n == Len(c.stack) - 1
           u == Unwind(c, n)
           d == [u EXCEPT !.inConn = FALSE]
<1>1. n \in 1 .. Len(c.stack)
  BY ClientFacts
<1>2. /\ ClientOK(u) /\ SameRest(c, u) /\ Len(u.stack) = n
      /\ \A i \in 1 .. n : u.stack[i] = c.stack[i]
      /\ u.play = IF c.play <= n THEN c.play ELSE 0
  BY <1>1, UnwindIs
<1>3. NoAnswer(c) = d
  BY DEF NoAnswer
<1> HIDE DEF u
<1>4. /\ ClientOK(d) /\ d.stack = u.stack /\ d.unread = u.unread /\ d.play = u.play
      /\ d.exs = u.exs /\ d.playok = u.playok /\ ~d.inConn /\ d.sockfd = u.sockfd
      /\ d.crashed = u.crashed
  BY <1>2 DEF ClientOK, ClientType
<1> HIDE DEF d
<1>5. /\ d.sockfd = c.sockfd /\ d.unread = c.unread /\ d.playok = c.playok /\ d.exs = c.exs
      /\ d.crashed = c.crashed
  BY <1>2, <1>4 DEF SameRest
<1>6. Shape(d) /\ Gaming(d)
  <2>1. d.exs \in Nat /\ d.exs >= c.exs
    BY <1>5 DEF ClientOK, ClientType
  <2>2. d.play = IF c.play <= Len(c.stack) - 1 THEN c.play ELSE 0
    BY <1>2, <1>4
  <2>3. Len(d.stack) = Len(c.stack) - 1 /\ \A i \in 1 .. (Len(c.stack) - 1) : d.stack[i] = c.stack[i]
    BY <1>2, <1>4
  <2> QED
    BY <1>5, <2>1, <2>2, <2>3, PopShape
<1>7. Len(d.stack) = n /\ \A i \in 1 .. n : d.stack[i] = c.stack[i]
  BY <1>2, <1>4
<1> QED
  BY <1>3, <1>4, <1>5, <1>6, <1>7

LEMMA RestartedIs ==
  ASSUME NEW c, NEW cont
  PROVE  /\ cont = "user" => Restarted(c, cont) = c
         /\ cont # "user" /\ c.playok => Restarted(c, cont) = JumpPlay(c)
         /\ ~c.playok =>
              /\ cont = "check" => Restarted(c, cont) = Now(c, "prompt")
              /\ cont = "loop" => Restarted(c, cont) = Now(c, "send")
              /\ cont = "again" => Restarted(c, cont) = Now(c, "fail")
              /\ cont = "error" => Restarted(c, cont) = Error(c)
<1>1. cont = "user" => Restarted(c, cont) = c
  BY DEF Restarted
<1>2. cont # "user" /\ c.playok => Restarted(c, cont) = JumpPlay(c)
  BY DEF Restarted
<1>3. ~c.playok /\ cont = "check" => Restarted(c, cont) = Now(c, "prompt")
  BY DEF Restarted
<1>4. ~c.playok /\ cont = "loop" => Restarted(c, cont) = Now(c, "send")
  BY DEF Restarted
<1>5. ~c.playok /\ cont = "again" => Restarted(c, cont) = Now(c, "fail")
  BY DEF Restarted
<1>6. ~c.playok /\ cont = "error" => Restarted(c, cont) = Error(c)
  BY DEF Restarted
<1> QED
  BY <1>1, <1>2, <1>3, <1>4, <1>5, <1>6

LEMMA AboveOne ==
  ASSUME NEW n \in Nat, n >= 1, n # 1
  PROVE  n > 1
OBVIOUS

\* The answer to "auth": the client resumes what it was connected again for.
LEMMA RestartedGood ==
  ASSUME NEW c, ClientOK(c), Shape(c), Gaming(c), ~c.crashed, Quiet(c.unread), ErrorLast(c.unread),
         LinesOK(con), c.sockfd \in 1 .. Len(con), NEW p, p = con[c.sockfd],
         Quiet(p.toClient), p.toServer = <<>>, p.up => p.st = "main", HasError(c.unread) => ~p.up,
         c.stack[Len(c.stack)].call = "auth",
         cl' = Restarted(NoAnswer(c), c.stack[Len(c.stack)].cont),
         c.stack[Len(c.stack)].cont = "error" /\ ~c.playok => con' = Closed(con, c.sockfd),
         ~(c.stack[Len(c.stack)].cont = "error" /\ ~c.playok) => con' = con
  PROVE  Good(cl', con')
<1> DEFINE f == c.stack[Len(c.stack)]
           d == NoAnswer(c)
           k == Len(c.stack) - 1
           t == d.stack[k]
<1>1. Len(c.stack) \in Nat /\ Len(c.stack) > 1 /\ FrameOK(c, Len(c.stack)) /\ f \in FrameType
  <2>1. Len(c.stack) \in Nat /\ Len(c.stack) >= 1 /\ Len(c.stack) \in 1 .. Len(c.stack)
    BY ClientFacts
  <2>2. FrameOK(c, Len(c.stack))
    BY <2>1 DEF Shape
  <2>3. Len(c.stack) # 1
    BY <2>2 DEF FrameOK
  <2>5. Len(c.stack) > 1
    BY <2>1, <2>3, AboveOne
  <2> QED
    BY <2>1, <2>2, <2>5, ClientFacts
<1>2. /\ ClientOK(d) /\ Shape(d) /\ Gaming(d)
      /\ d.sockfd = c.sockfd /\ d.unread = c.unread /\ d.playok = c.playok
      /\ ~d.crashed /\ ~d.inConn /\ Len(d.stack) = k /\ t = c.stack[k]
  BY <1>1, NoAnswerIs
<1>3. /\ k \in Nat /\ k >= 1 /\ k \in 1 .. k /\ k < Len(c.stack) /\ k + 1 = Len(c.stack)
      /\ k \in 1 .. Len(c.stack)
  BY <1>1
<1>4. FrameOK(d, k) /\ FrameOK(c, k)
  BY <1>2, <1>3 DEF Shape
<1>5. Suspended(t, f) /\ t.call \notin {"auth", "shutdown"}
  <2>1. Suspended(c.stack[k], c.stack[k + 1])
    BY <1>3, <1>4 DEF FrameOK
  <2>2. t.call \notin {"auth", "shutdown"}
    BY <1>2, <1>4 DEF FrameOK
  <2> QED
    BY <1>2, <1>3, <2>1, <2>2
<1>6. f.cont \in {"loop", "error", "again", "check", "user"} /\ (f.cont = "user" => k = 1)
  BY <1>1, <1>3 DEF FrameOK, FrameType
<1>7. t \in FrameType
  BY <1>2, <1>3, ClientFacts
<1>8. /\ cl' = Restarted(d, f.cont)
      /\ f.cont = "error" /\ ~d.playok => con' = Closed(con, d.sockfd)
      /\ ~(f.cont = "error" /\ ~d.playok) => con' = con
  BY <1>2
<1> HIDE DEF d
<1>9. ASSUME NEW e, ClientOK(e), e.crashed \/ AtMenu(e), e.sockfd = d.sockfd, e.unread = d.unread
      PROVE  Good(e, con)
  BY <1>2, <1>9, MenuGood
<1>10. ASSUME k = 1, t.pc = "prompt" PROVE AtMenu(d)
  BY <1>2, <1>10, MenuBelow DEF AtMenu
<1> DEFINE cont == f.cont
           e == Restarted(d, cont)
<1>12. /\ cont = "user" => e = d
       /\ cont # "user" /\ d.playok => e = JumpPlay(d)
       /\ ~d.playok => /\ cont = "check" => e = Now(d, "prompt")
                       /\ cont = "loop" => e = Now(d, "send")
                       /\ cont = "again" => e = Now(d, "fail")
                       /\ cont = "error" => e = Error(d)
  BY RestartedIs
<1>13. /\ cl' = e
       /\ cont = "error" /\ ~d.playok => con' = Closed(con, d.sockfd)
       /\ ~(cont = "error" /\ ~d.playok) => con' = con
  BY <1>8
<1>14. Suspended(t, f) /\ cont = f.cont
  BY <1>5
<1> HIDE DEF cont, e, t
<1>15. CASE cont = "user"
  <2>1. t.pc = "prompt"
    BY <1>14, <1>15 DEF Suspended
  <2>2. AtMenu(d)
    BY <1>6, <1>10, <1>15, <2>1 DEF cont
  <2> QED
    BY <1>2, <1>9, <1>12, <1>13, <1>15, <2>2
<1>16. CASE cont # "user" /\ d.playok
  <2>1. ClientOK(JumpPlay(d)) /\ JumpPlay(d).sockfd = d.sockfd /\ JumpPlay(d).unread = d.unread
        /\ (JumpPlay(d).crashed \/ AtMenu(JumpPlay(d)))
    BY <1>2, JumpPlayLands
  <2>2. con' = con /\ cl' = JumpPlay(d)
    BY <1>12, <1>13, <1>16
  <2>3. Good(JumpPlay(d), con)
    BY <1>9, <2>1
  <2> QED
    BY <2>2, <2>3
<1>17. CASE cont = "error" /\ ~d.playok
  <2>1. cl' = Error(d) /\ con' = Closed(con, d.sockfd)
    BY <1>12, <1>13, <1>17
  <2>2. t.pc = "recv"
    BY <1>14, <1>17 DEF Suspended
  <2>3. k # 1
    BY <1>2, <1>4, <2>2 DEF FrameOK, t
  <2>4. Len(d.stack) > 1
    BY <1>2, <1>3, <2>3, AboveOne
  <2>5. Settled(cl')
    BY <1>2, <2>1, <2>4, ErrorLands
  <2>6. LinesOK(con')
    <3>1. d.sockfd \in 0 .. Len(con)
      BY <1>2
    <3> QED
      BY <2>1, <3>1, ClosedOK
  <2> QED
    BY <2>5, <2>6, SettledGood
<1>18. CASE cont \in {"check", "loop", "again"} /\ ~d.playok
  <2>1. con' = con
    BY <1>13, <1>18
  <2>2. ~Playing(t)
    BY <1>2, <1>3, <1>18 DEF Gaming, t
  <2>3. CASE cont = "check"
    <3>1. t.pc = "prompt"
      BY <1>14, <2>3 DEF Suspended
    <3>2. t.call = "menu"
      BY <1>2, <1>4, <2>2, <3>1 DEF FrameOK, Playing, t
    <3>3. k = 1
      BY <1>2, <1>4, <3>2 DEF FrameOK, t
    <3>4. /\ ClientOK(Now(d, "prompt")) /\ SameRest(d, Now(d, "prompt"))
          /\ Len(Now(d, "prompt").stack) = k
          /\ Now(d, "prompt").stack[k] = [t EXCEPT !.pc = "prompt"]
      <4>1. "prompt" \in Pcs
        BY DEF Pcs
      <4>2. ClientOK(d) /\ Len(d.stack) = k
        BY <1>2
      <4> HIDE DEF k, t, f
      <4>3. /\ ClientOK(Now(d, "prompt")) /\ SameRest(d, Now(d, "prompt"))
            /\ Len(Now(d, "prompt").stack) = Len(d.stack)
            /\ Now(d, "prompt").stack[Len(d.stack)] = [d.stack[Len(d.stack)] EXCEPT !.pc = "prompt"]
        BY <4>1, <4>2, NowIs
      <4> QED
        BY <4>2, <4>3 DEF t
    <3>5. AtMenu(d)
      BY <1>10, <3>1, <3>3
    <3>6. AtMenu(Now(d, "prompt"))
      <4>1. [t EXCEPT !.pc = "prompt"] = t
        BY <1>7, <3>1 DEF FrameType
      <4>2. Now(d, "prompt").stack[1] = d.stack[1] /\ Len(Now(d, "prompt").stack) = 1
        BY <3>3, <3>4, <4>1 DEF t
      <4>3. Now(d, "prompt").unread = d.unread
        BY <3>4 DEF SameRest
      <4> QED
        BY <3>5, <4>2, <4>3 DEF AtMenu
    <3> QED
      BY <1>9, <1>12, <1>13, <1>18, <2>1, <2>3, <3>4, <3>6 DEF SameRest
  <2>4. CASE cont \in {"loop", "again"}
    <3> DEFINE x == IF cont = "loop" THEN "send" ELSE "fail"
               g == Now(d, x)
    <3>1. e = g /\ x \in Pcs
      BY <1>12, <1>18, <2>4 DEF Pcs
    <3>2. /\ ClientOK(g) /\ SameRest(d, g) /\ Len(g.stack) = k /\ g.stack[k] = [t EXCEPT !.pc = x]
      <4>1. ClientOK(d) /\ Len(d.stack) = k
        BY <1>2
      <4> HIDE DEF k, t, f, x
      <4>2. /\ ClientOK(Now(d, x)) /\ SameRest(d, Now(d, x))
            /\ Len(Now(d, x).stack) = Len(d.stack)
            /\ Now(d, x).stack[Len(d.stack)] = [d.stack[Len(d.stack)] EXCEPT !.pc = x]
        BY <3>1, <4>1, NowIs
      <4> QED
        BY <4>1, <4>2 DEF t
    <3>3. t.call # "menu"
      BY <1>2, <1>4, <1>14, <2>4 DEF FrameOK, Suspended, t
    <3>4. Shape(g) /\ Gaming(g)
      <4>1. x \notin {"prompt", "check"}
        OBVIOUS
      <4> HIDE DEF x
      <4> QED
        BY <1>2, <3>1, <3>3, <4>1, NowShape DEF t
    <3>5. Last(g.stack) = g.stack[k] /\ g.stack[k].pc = x /\ g.stack[k].key = t.key
      BY <1>7, <3>2 DEF FrameType, Last
    <3>6. cont = "loop" => t.key \in {"play", "create"}
      <4>1. t.call \in Calls
        BY <1>7 DEF FrameType
      <4>2. t.call \in {"play", "create"} /\ (t.call = "play" => t.key # "answer")
        BY <1>5, <2>2, <3>3, <4>1 DEF Calls, Playing
      <4>3. t.key = t.call \/ (t.key = "answer" /\ t.call \in {"play", "exit"})
        BY <1>4 DEF FrameOK, t
      <4> QED
        BY <4>2, <4>3
    <3>7. BufferOK(g)
      <4>1. x # "recv" /\ k # 1
        BY <1>2, <1>4, <3>3 DEF FrameOK, t
      <4>2. g.unread = c.unread /\ g.sockfd = c.sockfd
        BY <1>2, <3>2 DEF SameRest
      <4>3. g.sockfd # 0
        BY <4>2
      <4> HIDE DEF g, x
      <4> QED
        BY <3>5, <4>1, <4>2, <4>3 DEF BufferOK
    <3>8. LineOK(g, p)
      <4>1. x = "send" => t.key \in {"play", "create"}
        BY <3>6
      <4>2. x \in {"send", "fail"}
        OBVIOUS
      <4>3. g.unread = c.unread
        BY <1>2, <3>2 DEF SameRest
      <4> HIDE DEF g, x
      <4>4. Rest(g, p) /\ Waits(g, p)
        BY <3>5, <4>1, <4>2 DEF Rest, Waits, Due
      <4>5. ~(p.up /\ p.st \in {"game", "wait"})
        OBVIOUS
      <4> QED
        BY <4>3, <4>4, <4>5 DEF LineOK
    <3>9. g.sockfd = c.sockfd /\ ~g.crashed /\ Len(con) \in Nat /\ c.sockfd <= Len(con)
      BY <1>2, <3>2 DEF SameRest, LinesOK
    <3> HIDE DEF g
    <3>10. Good(g, con)
      BY <3>2, <3>4, <3>7, <3>8, <3>9 DEF Good
    <3> QED
      BY <1>13, <1>18, <2>1, <3>1, <3>10
  <2> QED
    BY <1>18, <2>3, <2>4
<1>19. cont \in {"check", "loop", "again", "error", "user"}
  BY <1>6 DEF cont
<1>20. d.playok \in BOOLEAN
  BY <1>2 DEF ClientOK, ClientType
<1> QED
  BY <1>15, <1>16, <1>17, <1>18, <1>19, <1>20

-----------------------------------------------------------------------------
\* What holds of a client that still runs

LEMMA Running ==
  ASSUME NetInv, ~cl.crashed
  PROVE  /\ LinesOK(con) /\ Len(con) \in Nat
         /\ ClientOK(cl) /\ Shape(cl) /\ Gaming(cl) /\ BufferOK(cl)
         /\ Depth \in Nat /\ Depth >= 1 /\ Depth \in 1 .. Depth /\ Depth = Len(cl.stack)
         /\ Top = cl.stack[Len(cl.stack)] /\ Top \in FrameType /\ FrameOK(cl, Len(cl.stack))
         /\ cl.unread \in Seq(MsgType)
         /\ cl.sockfd # 0 =>
              /\ cl.sockfd \in 1 .. Len(con) /\ LineOK(cl, con[cl.sockfd])
              /\ con[cl.sockfd] \in ConType /\ ServerOK(con[cl.sockfd])
<1>1. LinesOK(con) /\ ClientOK(cl) /\ Shape(cl) /\ Gaming(cl) /\ BufferOK(cl)
      /\ cl.sockfd <= Len(con) /\ (cl.sockfd # 0 => LineOK(cl, con[cl.sockfd]))
  BY DEF NetInv, Good
<1>2. Depth \in Nat /\ Depth >= 1 /\ Depth \in 1 .. Depth /\ Depth = Len(cl.stack)
      /\ Top = cl.stack[Len(cl.stack)] /\ Top \in FrameType
  BY <1>1, ClientFacts DEF Depth, Top
<1>3. FrameOK(cl, Len(cl.stack))
  BY <1>1, <1>2 DEF Shape
<1>4. cl.unread \in Seq(MsgType) /\ cl.sockfd \in 0 .. MaxConns /\ MaxConns \in Nat
  BY <1>1, NetAssumption DEF ClientOK, ClientType
<1>5. Len(con) \in Nat
  BY <1>1 DEF LinesOK
<1>6. cl.sockfd # 0 => cl.sockfd \in 1 .. Len(con)
  BY <1>1, <1>4, <1>5
<1>7. cl.sockfd # 0 => con[cl.sockfd] \in ConType /\ ServerOK(con[cl.sockfd])
  BY <1>1, <1>6 DEF LinesOK
<1> QED
  BY <1>1, <1>2, <1>3, <1>4, <1>5, <1>6, <1>7

\* A request of the client is under way: it has a connection.
\* The menu makes no requests, and a request has a connection.
LEMMA Busy ==
  ASSUME NetInv, ~cl.crashed, Top.pc \in {"send", "recv", "fail"}
  PROVE  Top.call # "menu" /\ Depth > 1 /\ cl.sockfd # 0
<1>1. Top.call # "menu"
  BY Running DEF FrameOK
<1>2. Depth # 1
  BY <1>1, Running DEF FrameOK
<1>3. Depth > 1
  BY <1>2, Running, AboveOne
<1> QED
  BY <1>1, <1>3, <1>2, Running DEF BufferOK

LEMMA ConnectGood ==
  ASSUME NetInv, Connect
  PROVE  Good(cl', con')
<1>1. ~cl.crashed /\ Top.pc = "prompt" /\ Depth = 1 /\ cl.sockfd = 0 /\ Len(con) < MaxConns
  BY DEF Connect, At
<1> DEFINE n == Len(con) + 1
<1>2. /\ con' = Append(con, NewCon)
      /\ cl' = [cl EXCEPT !.sockfd = n, !.inConn = TRUE,
                          !.stack = Append(@, Frame("auth", n, "user"))]
  BY DEF Connect
<1>3. LinesOK(con') /\ Len(con') = n /\ con'[n] = NewCon
  BY <1>1, <1>2, Running, NewConOK, AppendLine
<1>4. n \in 1 .. Len(con')
  BY <1>1, <1>3, Running
<1>5. Quiet(cl.unread) /\ ErrorLast(cl.unread)
  BY <1>1, Running DEF BufferOK, Top
<1>6. Top.call = "menu"
  BY <1>1, Running DEF FrameOK
<1>7. Suspended(Top, Frame("auth", n, "user"))
  BY <1>1 DEF Suspended, Frame
<1> HIDE DEF n
<1> QED
  BY <1>1, <1>2, <1>3, <1>4, <1>5, <1>6, <1>7, Running, AuthStarts

\* A new request, from the menu or at a prompt
LEMMA RequestStarts ==
  ASSUME NetInv, ~cl.crashed, Top.pc = "prompt", cl.sockfd # 0, NEW f, NEW d, ClientOK(d),
         Len(d.stack) = Depth + 1, d.stack[Depth + 1] = f,
         \A i \in 1 .. Depth : d.stack[i] = cl.stack[i],
         d.sockfd = cl.sockfd, d.unread = cl.unread, d.play = cl.play, d.playok = cl.playok,
         d.exs >= cl.exs, FrameOK(d, Depth + 1), f.pc = "send", f.cont \in {"none", "user"},
         Playing(f) => Playing(Top),
         Due(f.key) = IF Top.call = "menu" THEN "main" ELSE "wait"
  PROVE  Good(d, con)
<1> DEFINE p == con[cl.sockfd]
           n == Depth
<1>1. /\ n \in Nat /\ n >= 1 /\ n = Len(cl.stack) /\ Top = cl.stack[n] /\ n + 1 # 1
      /\ 1 \in 1 .. n
  BY Running
<1>2. Len(d.stack) = n + 1 /\ d.stack[n + 1] = f /\ \A i \in 1 .. n : d.stack[i] = cl.stack[i]
  OBVIOUS
<1> HIDE DEF n
<1>3. Top.call \notin {"auth", "shutdown"} /\ Suspended(Top, f)
  BY Running DEF FrameOK, Suspended
<1>4. Shape(d)
  <2>1. d.exs \in Nat
    BY DEF ClientOK, ClientType
  <2> QED
    BY <1>1, <1>2, <1>3, <2>1, Running, PushShape
<1>5. Gaming(d)
  <2> SUFFICES ASSUME NEW i \in 1 .. Len(d.stack), Playing(d.stack[i])
               PROVE  d.playok /\ d.play = 2
    BY DEF Gaming
  <2>1. i \in 1 .. n \/ i = n + 1
    BY <1>1, <1>2
  <2>2. \E j \in 1 .. n : Playing(cl.stack[j])
    <3>1. CASE i \in 1 .. n
      BY <1>2, <3>1
    <3>2. CASE i = n + 1
      <4>1. n \in 1 .. n /\ Playing(cl.stack[n])
        BY <1>1, <1>2, <3>2
      <4> QED
        BY <4>1
    <3> QED
      BY <2>1, <3>1, <3>2
  <2> QED
    BY <1>1, <2>2, Running DEF Gaming
<1>6. Last(d.stack) = f
  BY <1>1, <1>2 DEF Last
<1>7. BufferOK(d)
  <2>1. Quiet(cl.unread) /\ ErrorLast(cl.unread)
    BY Running DEF BufferOK, Top
  <2> QED
    BY <1>6, <2>1 DEF BufferOK
<1>8. LineOK(d, p)
  <2>1. LineOK(cl, p) /\ Last(cl.stack) = Top
    BY Running DEF Top
  <2>2. /\ Quiet(p.toClient) /\ p.toServer = <<>>
        /\ p.up => p.st = Due(f.key)
    BY <2>1 DEF LineOK, Rest
  <2>3. HasError(d.unread) => ~p.up
    BY <1>3, <2>1 DEF LineOK
  <2>4. p.up /\ p.st \in {"game", "wait"} =>
          Len(cl.stack) > 1 /\ cl.stack[2].call = "play" /\ p.req = cl.stack[2].id
    BY <2>1 DEF LineOK
  <2>5. p.up /\ p.st \in {"game", "wait"} =>
          Len(d.stack) > 1 /\ d.stack[2].call = "play" /\ p.req = d.stack[2].id
    <3>1. n > 1 => 2 \in 1 .. n /\ n + 1 > 1
      BY <1>1
    <3> QED
      BY <1>1, <1>2, <2>4, <3>1
  <2>6. Rest(d, p) /\ Waits(d, p)
    BY <1>6, <2>2 DEF Rest, Waits
  <2> QED
    BY <2>3, <2>5, <2>6 DEF LineOK
<1>9. cl.sockfd \in Nat /\ cl.sockfd <= Len(con) /\ LinesOK(con)
  BY Running
<1> QED
  BY <1>4, <1>5, <1>7, <1>8, <1>9 DEF Good

LEMMA DisconnectGood ==
  ASSUME NetInv, Disconnect
  PROVE  Good(cl', con')
<1> DEFINE f == Frame("shutdown", cl.sockfd, "user")
           e == [cl EXCEPT !.stack = Append(@, f)]
           d == [e EXCEPT !.inConn = TRUE]
<1>1. ~cl.crashed /\ Top.pc = "prompt" /\ Depth = 1 /\ cl.sockfd # 0
  BY DEF Disconnect, At
<1>2. ClientOK(cl) /\ con' = con
  BY <1>1, Running DEF Disconnect
<1>3. cl' = d
  BY <1>2 DEF Disconnect, ClientOK, ClientType
<1>4. f \in FrameType /\ f.call = "shutdown" /\ f.key = "shutdown" /\ f.pc = "send" /\ f.cont = "user"
      /\ ~Playing(f)
  <2>1. cl.sockfd \in Ids
    BY <1>2, NetAssumption DEF Ids, ClientOK, ClientType
  <2> QED
    BY <2>1, FrameIs DEF Calls
<1> HIDE DEF f
<1>5. /\ ClientOK(e) /\ SameRest(cl, e) /\ e.play = cl.play
      /\ Len(e.stack) = Depth + 1 /\ e.stack[Depth + 1] = f
      /\ \A i \in 1 .. Depth : e.stack[i] = cl.stack[i]
  BY <1>2, <1>4, PushIs DEF Depth
<1> HIDE DEF e
<1>6. /\ ClientOK(d) /\ d.stack = e.stack /\ d.unread = e.unread /\ d.play = e.play
      /\ d.exs = e.exs /\ d.playok = e.playok /\ d.inConn /\ d.sockfd = e.sockfd
  BY <1>5 DEF ClientOK, ClientType
<1> HIDE DEF d
<1>7. FrameOK(d, 2)
  BY <1>1, <1>4, <1>5, <1>6 DEF FrameOK
<1>8. Top.call = "menu"
  BY <1>1, Running DEF FrameOK
<1>9. d.exs >= cl.exs
  BY <1>2, <1>5, <1>6 DEF SameRest, ClientOK, ClientType
<1>10. Due(f.key) = "main"
  BY <1>4 DEF Due
<1>11. Good(d, con)
  BY <1>1, <1>4, <1>5, <1>6, <1>7, <1>8, <1>9, <1>10, RequestStarts DEF SameRest
<1> QED
  BY <1>2, <1>3, <1>11

LEMMA CallGood ==
  ASSUME NetInv, NEW k, Call(k)
  PROVE  Good(cl', con')
<1> DEFINE n == cl.calls + 1
           f == Frame(k, n, "none")
           x == IF cl.exs = 0 THEN Depth + 1 ELSE cl.ex
           e == [cl EXCEPT !.stack = Append(@, f)]
           d == [e EXCEPT !.calls = n, !.exs = @ + 1, !.ex = x]
<1>1. /\ ~cl.crashed /\ Top.pc = "prompt" /\ cl.sockfd # 0 /\ Top.call # "exit"
      /\ cl.calls < MaxCalls /\ k \in IF Depth = 1 THEN {"play", "create"} ELSE {"query", "exit"}
  BY DEF Call, At
<1>2. ClientOK(cl) /\ Shape(cl) /\ FrameOK(cl, Depth) /\ Top = cl.stack[Depth]
      /\ Depth \in Nat /\ Depth >= 1 /\ con' = con
  BY <1>1, Running DEF Call
<1>3. cl' = d
  BY <1>2 DEF Call, ClientOK, ClientType
<1>4. /\ cl.calls \in 0 .. MaxCalls /\ MaxCalls \in Nat /\ MaxConns \in Nat
      /\ cl.exs \in 0 .. MaxCalls /\ cl.exs <= cl.calls /\ cl.ex \in {0, 2} /\ cl.ex <= Depth
  BY <1>2, NetAssumption DEF ClientOK, ClientType, Depth
<1>5. n \in Ids /\ n \in 0 .. MaxCalls
  BY <1>1, <1>4 DEF Ids
<1>6. f \in FrameType /\ f.call = k /\ f.key = k /\ f.id = n /\ f.pc = "send" /\ f.cont = "none"
      /\ (Playing(f) => k \in {"query", "exit"})
  <2>1. k \in Calls
    BY <1>1 DEF Calls
  <2> QED
    BY <1>5, <2>1, FrameIs
<1>7. /\ Depth = 1 /\ Top.call = "menu" /\ k \in {"play", "create"}
      \/ /\ Depth = 2 /\ Top.call = "play" /\ cl.exs >= 1 /\ k \in {"query", "exit"}
  <2>1. Top.call \in {"menu", "play"}
    BY <1>1, <1>2 DEF FrameOK
  <2>2. Top.call = "menu" => Depth = 1
    BY <1>2, <2>1 DEF FrameOK
  <2>3. Top.call = "play" => Depth = 2 /\ cl.exs >= 1
    <3>1. 2 - 1 = 1
      OBVIOUS
    <3> QED
      BY <1>2, <3>1 DEF FrameOK
  <2> QED
    BY <1>1, <2>1, <2>2, <2>3
<1>8. x \in {0, 2} /\ x <= Depth + 1
  BY <1>4, <1>7
<1> HIDE DEF f, x
<1>9. /\ ClientOK(e) /\ SameRest(cl, e) /\ e.play = cl.play
      /\ Len(e.stack) = Depth + 1 /\ e.stack[Depth + 1] = f
      /\ \A i \in 1 .. Depth : e.stack[i] = cl.stack[i]
  BY <1>2, <1>6, PushIs DEF Depth
<1> HIDE DEF e
<1>10. e.exs = cl.exs /\ e.unread = cl.unread /\ e.sockfd = cl.sockfd /\ e.playok = cl.playok
  BY <1>9 DEF SameRest
<1>11. cl.exs + 1 \in 0 .. MaxCalls /\ cl.exs + 1 <= n /\ cl.exs + 1 >= 1
  BY <1>1, <1>4
<1>12. /\ d.stack = e.stack /\ d.unread = e.unread /\ d.play = e.play
       /\ d.exs = cl.exs + 1 /\ d.playok = e.playok /\ d.sockfd = e.sockfd
       /\ d.ex = x /\ d.calls = n /\ d \in ClientType
  <2>1. e.exs + 1 \in 0 .. MaxCalls /\ n \in 0 .. MaxCalls /\ x \in {0, 2}
    BY <1>5, <1>8, <1>10, <1>11
  <2> HIDE DEF n
  <2> QED
    BY <1>9, <1>10, <2>1 DEF ClientOK, ClientType
<1> HIDE DEF d
<1>13. ClientOK(d)
  BY <1>2, <1>8, <1>9, <1>11, <1>12 DEF ClientOK
<1>14. FrameOK(d, Depth + 1)
  <2>1. d.stack[Depth + 1] = f /\ Len(d.stack) = Depth + 1
    BY <1>9, <1>12
  <2>2. CASE Depth = 1
    <3>1. k \in {"play", "create"} /\ d.exs >= 2 - 1 /\ 1 + 1 = 2 /\ f.id \in 0 .. MaxCalls
      BY <1>5, <1>6, <1>7, <1>11, <1>12, <2>2
    <3> QED
      BY <1>6, <2>1, <2>2, <3>1 DEF FrameOK
  <2>3. CASE Depth = 2
    <3>1. k \in {"query", "exit"} /\ d.exs >= 3 - 1 /\ 2 + 1 = 3
      BY <1>4, <1>7, <1>12, <2>3
    <3>2. d.stack[2].call = "play"
      BY <1>2, <1>7, <1>9, <1>12, <2>3
    <3> QED
      BY <1>6, <2>1, <2>3, <3>1, <3>2 DEF FrameOK
  <2> QED
    BY <1>7, <2>2, <2>3
<1>15. d.exs >= cl.exs
  BY <1>4, <1>12
<1>16. Due(f.key) = IF Top.call = "menu" THEN "main" ELSE "wait"
  BY <1>6, <1>7 DEF Due
<1>17. Playing(f) => Playing(Top)
  BY <1>1, <1>6, <1>7 DEF Playing
<1>18. Good(d, con)
  <2>1. /\ Len(d.stack) = Depth + 1 /\ d.stack[Depth + 1] = f
        /\ \A i \in 1 .. Depth : d.stack[i] = cl.stack[i]
    BY <1>9, <1>12
  <2>2. d.sockfd = cl.sockfd /\ d.unread = cl.unread /\ d.play = cl.play /\ d.playok = cl.playok
    BY <1>9, <1>10, <1>12
  <2> QED
    BY <1>1, <1>6, <1>13, <1>14, <1>15, <1>16, <1>17, <2>1, <2>2, RequestStarts
<1> QED
  BY <1>2, <1>3, <1>18

LEMMA QuietQueue ==
  ASSUME NEW q \in Seq(MsgType), Quiet(q), NEW c
  PROVE  /\ OnlyReply(q) /\ (\A i \in 1 .. Len(q) : FitsIn(c, q[i]))
         /\ \A m \in ToSet(q) : m.k \in Async
<1>1. DOMAIN q = 1 .. Len(q)
  BY DEF MsgType
<1> QED
  BY <1>1 DEF Quiet, OnlyReply, FitsIn, Async, ToSet

LEMMA SendGood ==
  ASSUME NetInv, Send
  PROVE  Good(cl', con')
<1> DEFINE p == con[cl.sockfd]
           n == Len(cl.stack)
<1>1. ~cl.crashed /\ Top.pc = "send"
  BY DEF Send, At
<1>2. Top.call # "menu" /\ Depth > 1 /\ cl.sockfd # 0
  BY <1>1, Busy
<1>3. /\ LinesOK(con) /\ Len(con) \in Nat
      /\ ClientOK(cl) /\ Shape(cl) /\ Gaming(cl) /\ BufferOK(cl)
      /\ Top = cl.stack[n] /\ Top \in FrameType /\ FrameOK(cl, n) /\ Last(cl.stack) = Top
      /\ cl.unread \in Seq(MsgType)
      /\ cl.sockfd \in 1 .. Len(con) /\ LineOK(cl, p) /\ p \in ConType /\ ServerOK(p)
  BY <1>1, <1>2, Running DEF Top
<1>4. /\ Quiet(cl.unread) /\ ErrorLast(cl.unread) /\ Quiet(p.toClient) /\ p.toServer = <<>>
      /\ p.up => p.st = Due(Top.key)
  BY <1>1, <1>3 DEF BufferOK, LineOK, Rest
<1>5. p.toClient \in Seq(MsgType)
  BY <1>3 DEF ConType
<1>6. ASSUME NEW x \in {"recv", "fail"}, NEW q, q.toClient = p.toClient, q.st = p.st, q.up = p.up,
             q.req = p.req,
             \/ x = "fail" \/ q.toServer = <<>>
             \/ q.up /\ q.toServer = <<Msg(Top.key, Top.id)>>,
             x = "fail" \/ ~q.up \/ q.toServer # <<>>
      PROVE  /\ ClientOK(Now(cl, x)) /\ Shape(Now(cl, x)) /\ Gaming(Now(cl, x))
             /\ BufferOK(Now(cl, x)) /\ LineOK(Now(cl, x), q)
             /\ Now(cl, x).sockfd = cl.sockfd
  <2> DEFINE d == Now(cl, x)
             t == d.stack[n]
  <2>1. x \in Pcs
    BY DEF Pcs
  <2>2. /\ ClientOK(d) /\ SameRest(cl, d) /\ d.play = cl.play /\ Len(d.stack) = n
        /\ t = [Top EXCEPT !.pc = x]
        /\ \A i \in 1 .. n : i < n => d.stack[i] = cl.stack[i]
    BY <1>3, <2>1, NowIs
  <2>3. t.call = Top.call /\ t.key = Top.key /\ t.id = Top.id /\ t.pc = x
    BY <1>3, <2>2 DEF FrameType
  <2>4. Shape(d) /\ Gaming(d)
    BY <1>2, <1>3, <2>1, NowShape
  <2>5. d.unread = cl.unread /\ d.sockfd = cl.sockfd /\ Last(d.stack) = t
    BY <2>2 DEF SameRest, Last
  <2> HIDE DEF t, d
  <2>6. BufferOK(d)
    BY <1>2, <1>3, <1>4, <2>3, <2>5, QuietQueue DEF BufferOK
  <2>7. Rest(d, q)
    BY <2>3, <2>5 DEF Rest
  <2>8. Waits(d, q)
    <3>1. x = "recv" /\ q.toServer # <<>> => q.up /\ q.toServer[1] = Msg(t.key, t.id)
      BY <1>6, <2>3
    <3>2. /\ OnlyReply(q.toClient) /\ (\A i \in 1 .. Len(q.toClient) : FitsIn(d, q.toClient[i]))
          /\ \A m \in ToSet(d.unread) \cup ToSet(q.toClient) : m.k \in Async
      BY <1>3, <1>4, <1>5, <1>6, <2>5, QuietQueue
    <3>3. q.st = "game" => ~q.up
      BY <1>4, <1>6 DEF Due
    <3>4. q.up => q.st = Due(t.key)
      BY <1>4, <1>6, <2>3
    <3> QED
      BY <1>4, <1>6, <2>3, <2>5, <3>1, <3>2, <3>3, <3>4 DEF Waits
  <2>9. LineOK(d, q)
    <3>1. HasError(cl.unread) => ~p.up \/ (Top.call = "auth" /\ Quiet(cl.unread))
      BY <1>3 DEF LineOK
    <3>2. p.up /\ p.st \in {"game", "wait"} =>
            Len(cl.stack) > 1 /\ cl.stack[2].call = "play" /\ p.req = cl.stack[2].id
      BY <1>1, <1>3 DEF LineOK
    <3>3. n > 1 => d.stack[2].call = cl.stack[2].call /\ d.stack[2].id = cl.stack[2].id
      <4>1. d.stack[n].call = cl.stack[n].call /\ d.stack[n].id = cl.stack[n].id
        BY <1>3, <2>3 DEF t
      <4> QED
        BY <1>3, <2>2, <4>1, SecondSame
    <3>4. q.up /\ q.st \in {"game", "wait"} =>
            Len(d.stack) > 1 /\ d.stack[2].call = "play" /\ q.req = d.stack[2].id
      BY <1>6, <2>2, <3>2, <3>3
    <3> QED
      BY <1>6, <2>3, <2>5, <2>7, <2>8, <3>1, <3>4 DEF LineOK
  <2> QED
    BY <2>2, <2>4, <2>5, <2>6, <2>9 DEF d
<1>7. ASSUME NEW d, ClientOK(d), Shape(d), Gaming(d), BufferOK(d), d.sockfd = cl.sockfd, cl' = d,
             LinesOK(con'), Len(con') = Len(con), LineOK(d, con'[cl.sockfd])
      PROVE  Good(cl', con')
  BY <1>3, <1>7 DEF Good
<1>8. CASE p.up
  <2> DEFINE m == Msg(Top.key, Top.id)
             q == [p EXCEPT !.toServer = Append(@, m)]
  <2>1. con' = [con EXCEPT ![cl.sockfd] = q] /\ cl' = Now(cl, "recv")
    BY <1>3, <1>8 DEF Send
  <2>2. m \in MsgType /\ m.k = Top.key /\ m.id = Top.id
    <3>1. Top.key # "menu"
      BY <1>2, <1>3 DEF FrameOK
    <3> QED
      BY <1>3, <3>1 DEF Msg, MsgType, FrameType, Calls, Ids
  <2> HIDE DEF m, MsgType
  <2>3. Append(p.toServer, m) = <<m>> /\ <<m>> \in Seq(MsgType)
    BY <1>4, <2>2
  <2>4. /\ q \in ConType /\ q.toServer = <<m>> /\ q.toClient = p.toClient /\ q.st = p.st
        /\ q.up = p.up /\ q.req = p.req /\ q.can = p.can
    BY <1>3, <2>3 DEF ConType
  <2> HIDE DEF q
  <2>5. ServerOK(q)
    <3>1. Top.key \in {"play", "create", "query", "exit", "auth", "shutdown", "answer"}
      BY <1>2, <1>3 DEF FrameOK, FrameType, Calls
    <3>2. p.st = Due(Top.key)
      BY <1>4, <1>8
    <3>3. Top.key = "play" => Top.id \in 0 .. MaxCalls
      BY <1>3 DEF FrameOK
    <3>4. Len(<<m>>) = 1 /\ <<m>>[1] = m
      OBVIOUS
    <3> QED
      BY <1>3, <2>2, <2>4, <3>1, <3>2, <3>3, <3>4 DEF ServerOK, Due
  <2>6. LinesOK(con') /\ Len(con') = Len(con) /\ con'[cl.sockfd] = q
    <3>1. /\ LinesOK([con EXCEPT ![cl.sockfd] = q]) /\ Len([con EXCEPT ![cl.sockfd] = q]) = Len(con)
          /\ [con EXCEPT ![cl.sockfd] = q][cl.sockfd] = q
      BY <1>3, <2>4, <2>5, SetLine
    <3> QED
      BY <2>1, <3>1
  <2>7. q.up /\ q.toServer = <<Msg(Top.key, Top.id)>> /\ q.toServer # <<>>
    BY <1>8, <2>4 DEF m
  <2> QED
    BY <1>6, <1>7, <2>1, <2>4, <2>6, <2>7
<1>9. CASE ~p.up
  <2>1. con' = con /\ \E x \in {"recv", "fail"} : cl' = Now(cl, x)
    BY <1>9 DEF Send
  <2>2. PICK x \in {"recv", "fail"} : cl' = Now(cl, x)
    BY <2>1
  <2>3. LineOK(Now(cl, x), p)
    BY <1>4, <1>6, <1>9
  <2>4. /\ ClientOK(Now(cl, x)) /\ Shape(Now(cl, x)) /\ Gaming(Now(cl, x))
        /\ BufferOK(Now(cl, x)) /\ Now(cl, x).sockfd = cl.sockfd
    BY <1>4, <1>6, <1>9
  <2> QED
    BY <1>3, <1>7, <2>1, <2>2, <2>3, <2>4
<1> QED
  BY <1>8, <1>9

-----------------------------------------------------------------------------
\* A client that is in a prompt, and stays there or answers

\* The frame on top changes at a prompt, and the buffer with it.
LEMMA PromptGood ==
  ASSUME NetInv, ~cl.crashed, cl.sockfd # 0, Top.pc \in {"prompt", "check"}, NEW d, ClientOK(d), NEW g,
         Len(d.stack) = Len(cl.stack), d.stack[Len(cl.stack)] = g,
         \A i \in 1 .. Len(cl.stack) : i < Len(cl.stack) => d.stack[i] = cl.stack[i],
         g.call = Top.call, g.cont = Top.cont, g.id = Top.id,
         \/ g.pc \in {"prompt", "check"} /\ g.key = Top.key
         \/ g.pc = "send" /\ g.key = "answer" /\ Top.call # "menu",
         d.sockfd = cl.sockfd, d.inConn = cl.inConn, d.exs = cl.exs, d.play = cl.play,
         d.playok = cl.playok, Quiet(d.unread), ErrorLast(d.unread),
         HasError(d.unread) => HasError(cl.unread)
  PROVE  Good(d, con)
<1> DEFINE p == con[cl.sockfd]
           n == Len(cl.stack)
<1>1. /\ LinesOK(con) /\ Len(con) \in Nat
      /\ ClientOK(cl) /\ Shape(cl) /\ Gaming(cl) /\ BufferOK(cl)
      /\ Top = cl.stack[n] /\ Top \in FrameType /\ FrameOK(cl, n) /\ Last(cl.stack) = Top
      /\ n \in Nat /\ n >= 1
      /\ cl.sockfd \in 1 .. Len(con) /\ LineOK(cl, p)
  BY Running DEF Top
<1>2. /\ Len(d.stack) = n /\ d.stack[n] = g /\ Last(d.stack) = g
      /\ \A i \in 1 .. n : i < n => d.stack[i] = cl.stack[i]
  BY DEF Last
<1> HIDE DEF n
<1>3. Top.call \in {"menu", "play", "exit"} /\ (Top.key = Top.call \/ Top.key = "answer")
      /\ (Top.key = "answer" => Top.call \in {"play", "exit"})
  BY <1>1 DEF FrameOK
<1>4. Top.call = "play" => Playing(Top)
  BY DEF Playing
<1>5. Shape(d) /\ Gaming(d)
  <2>1. g.key = g.call \/ (g.key = "answer" /\ g.call \in {"play", "exit"})
    BY <1>3
  <2>2. Playing(g) => Playing(Top)
    BY <1>3, <1>4 DEF Playing
  <2>3. /\ g.pc \in {"prompt", "check"} => g.call \in {"menu", "play", "exit"}
        /\ g.call = "menu" => g.pc \in {"prompt", "check"}
    BY <1>3
  <2> QED
    BY <1>1, <1>2, <2>1, <2>2, <2>3, TopShape DEF n
<1>6. n > 1 => d.stack[2].call = cl.stack[2].call /\ d.stack[2].id = cl.stack[2].id
  BY <1>1, <1>2, SecondSame DEF n
<1>7. BufferOK(d)
  BY <1>2 DEF BufferOK
<1>8. LineOK(d, p)
  <2>1. /\ Quiet(p.toClient) /\ p.toServer = <<>>
        /\ p.up => p.st = IF Top.call = "menu" THEN "main" ELSE "wait"
    BY <1>1 DEF LineOK, Rest
  <2>2. HasError(d.unread) => ~p.up
    BY <1>1, <1>3 DEF LineOK
  <2>3. p.up /\ p.st \in {"game", "wait"} =>
          Len(cl.stack) > 1 /\ cl.stack[2].call = "play" /\ p.req = cl.stack[2].id
    BY <1>1 DEF LineOK
  <2>4. p.up /\ p.st \in {"game", "wait"} =>
          Len(d.stack) > 1 /\ d.stack[2].call = "play" /\ p.req = d.stack[2].id
    BY <1>2, <1>6, <2>3 DEF n
  <2>5. Rest(d, p)
    BY <1>2, <2>1 DEF Rest, Due
  <2>6. Waits(d, p)
    BY <1>2 DEF Waits
  <2> QED
    BY <2>2, <2>4, <2>5, <2>6 DEF LineOK
<1>9. d.sockfd <= Len(con) /\ d.sockfd = cl.sockfd
  BY <1>1
<1> QED
  BY <1>1, <1>5, <1>7, <1>8, <1>9 DEF Good

LEMMA CheckGood ==
  ASSUME NetInv, Check
  PROVE  Good(cl', con')
<1> DEFINE d == Now(cl, "check")
           g == [Top EXCEPT !.pc = "check"]
<1>1. ~cl.crashed /\ Top.pc = "prompt" /\ cl.sockfd # 0 /\ cl' = d /\ con' = con
  BY DEF Check, At
<1>2. /\ ClientOK(cl) /\ Top \in FrameType /\ Top = cl.stack[Len(cl.stack)] /\ BufferOK(cl)
      /\ Last(cl.stack) = Top
  BY <1>1, Running DEF Top
<1>3. /\ ClientOK(d) /\ SameRest(cl, d) /\ d.play = cl.play
      /\ Len(d.stack) = Len(cl.stack) /\ d.stack[Len(cl.stack)] = g
      /\ \A i \in 1 .. Len(cl.stack) : i < Len(cl.stack) => d.stack[i] = cl.stack[i]
  <2>1. "check" \in Pcs
    BY DEF Pcs
  <2> QED
    BY <1>2, <2>1, NowIs
<1>4. g.call = Top.call /\ g.cont = Top.cont /\ g.id = Top.id /\ g.key = Top.key /\ g.pc = "check"
  BY <1>2 DEF FrameType
<1> HIDE DEF d, g
<1>5. /\ d.sockfd = cl.sockfd /\ d.inConn = cl.inConn /\ d.exs = cl.exs /\ d.playok = cl.playok
      /\ d.unread = cl.unread
  BY <1>3 DEF SameRest
<1>6. Quiet(cl.unread) /\ ErrorLast(cl.unread)
  BY <1>1, <1>2 DEF BufferOK
<1>7. Good(d, con)
  BY <1>1, <1>3, <1>4, <1>5, <1>6, PromptGood
<1> QED
  BY <1>1, <1>7

\* The answer of a prompt, from a client like cl but for its flag cancelled.
LEMMA AnswerGood ==
  ASSUME NetInv, ~cl.crashed, Top.pc = "prompt", InGame, NEW b \in BOOLEAN
  PROVE  Good(Answered([cl EXCEPT !.cancelled = b]), con)
<1> DEFINE c == [cl EXCEPT !.cancelled = b]
           n == Len(cl.stack)
           g == [Top EXCEPT !.key = "answer", !.pc = "send"]
           d == [c EXCEPT !.stack = [@ EXCEPT ![n] = g]]
<1>1. /\ ClientOK(cl) /\ Top \in FrameType /\ Top = cl.stack[n] /\ BufferOK(cl) /\ Last(cl.stack) = Top
      /\ Depth = n /\ n \in 1 .. n /\ DOMAIN cl.stack = 1 .. n /\ FrameOK(cl, n)
  BY Running, ClientFacts DEF Top
<1>2. /\ ClientOK(c) /\ c.stack = cl.stack /\ c.sockfd = cl.sockfd /\ c.inConn = cl.inConn
      /\ c.exs = cl.exs /\ c.playok = cl.playok /\ c.unread = cl.unread /\ c.play = cl.play
  BY <1>1 DEF ClientOK, ClientType
<1>3. Answered(c) = d
  BY <1>1, <1>2 DEF Answered
<1>4. /\ g \in FrameType /\ g.call = Top.call /\ g.cont = Top.cont /\ g.id = Top.id
      /\ g.key = "answer" /\ g.pc = "send"
  BY <1>1 DEF FrameType, Pcs
<1> HIDE DEF c, g
<1>5. /\ ClientOK(d) /\ SameRest(c, d) /\ d.play = c.play
      /\ Len(d.stack) = n /\ d.stack[n] = g
      /\ \A i \in 1 .. n : i < n => d.stack[i] = cl.stack[i]
  <2> DEFINE e == [c EXCEPT !.stack = [@ EXCEPT ![Len(c.stack)] = g]]
  <2>1. /\ ClientOK(e) /\ SameRest(c, e) /\ e.play = c.play
        /\ Len(e.stack) = Len(c.stack) /\ e.stack[Len(c.stack)] = g
        /\ \A i \in 1 .. Len(c.stack) : i < Len(c.stack) => e.stack[i] = c.stack[i]
    BY <1>2, <1>4, ReplaceIs
  <2>2. e = d
    BY <1>2
  <2> HIDE DEF e, d
  <2> QED
    BY <1>2, <2>1, <2>2
<1> HIDE DEF d
<1>6. /\ d.sockfd = cl.sockfd /\ d.inConn = cl.inConn /\ d.exs = cl.exs /\ d.playok = cl.playok
      /\ d.unread = cl.unread
  BY <1>2, <1>5 DEF SameRest
<1>7. Quiet(cl.unread) /\ ErrorLast(cl.unread)
  BY <1>1 DEF BufferOK
<1>8. Top.call # "menu" /\ cl.sockfd # 0
  BY <1>1 DEF FrameOK, InGame, BufferOK
<1>9. Good(d, con)
  BY <1>2, <1>4, <1>5, <1>6, <1>7, <1>8, PromptGood
<1> QED
  BY <1>3, <1>9 DEF c

LEMMA AlikeGood ==
  ASSUME NEW c, NEW cs, Good(c, cs), NEW d, ClientOK(d), d.stack = c.stack, d.sockfd = c.sockfd,
         d.unread = c.unread, d.exs = c.exs, d.play = c.play, d.playok = c.playok,
         d.inConn = c.inConn, d.crashed = c.crashed
  PROVE  Good(d, cs)
<1>1. Shape(c) => Shape(d)
  BY ShapeSame
<1>2. Gaming(c) => Gaming(d)
  BY DEF Gaming
<1>3. \A m : FitsIn(c, m) <=> FitsIn(d, m)
  BY DEF FitsIn, PlayIdOf
<1>4. BufferOK(c) => BufferOK(d)
  BY <1>3 DEF BufferOK
<1>5. ASSUME NEW p, LineOK(c, p) PROVE LineOK(d, p)
  BY <1>3, <1>5 DEF LineOK, Rest, Waits
<1> QED
  BY <1>1, <1>2, <1>4, <1>5 DEF Good

LEMMA AnswerTakeCancelGood ==
  ASSUME NetInv, Answer \/ TakeCancel
  PROVE  Good(cl', con')
<1>1. ~cl.crashed /\ Top.pc = "prompt" /\ con' = con
  BY DEF Answer, TakeCancel, At
<1>2. ClientOK(cl) /\ Good(cl, con)
  BY <1>1, Running DEF NetInv
<1> DEFINE c == [cl EXCEPT !.cancelled = FALSE]
<1>3. /\ ClientOK(c) /\ c.stack = cl.stack /\ c.sockfd = cl.sockfd /\ c.inConn = cl.inConn
      /\ c.exs = cl.exs /\ c.playok = cl.playok /\ c.unread = cl.unread /\ c.play = cl.play
      /\ c.crashed = cl.crashed
  BY <1>2 DEF ClientOK, ClientType
<1>4. cl.cancelled \in BOOLEAN /\ cl = [cl EXCEPT !.cancelled = cl.cancelled]
  BY <1>2 DEF ClientOK, ClientType
<1>5. CASE Answer
  <2>1. InGame /\ cl' = Answered(cl)
    BY <1>5 DEF Answer
  <2>2. Good(Answered([cl EXCEPT !.cancelled = cl.cancelled]), con)
    BY <1>1, <1>4, <2>1, AnswerGood
  <2>3. Answered([cl EXCEPT !.cancelled = cl.cancelled]) = Answered(cl)
    BY <1>4
  <2> QED
    BY <1>1, <2>1, <2>2, <2>3
<1>6. CASE TakeCancel /\ InGame
  <2>1. cl' = Answered(c)
    BY <1>6 DEF TakeCancel
  <2>2. Good(Answered(c), con)
    BY <1>1, <1>6, AnswerGood
  <2> QED
    BY <1>1, <2>1, <2>2
<1>7. CASE TakeCancel /\ ~InGame
  <2>1. cl' = c
    BY <1>7 DEF TakeCancel
  <2> HIDE DEF c
  <2>2. Good(c, con)
    BY <1>2, <1>3, AlikeGood
  <2> QED
    BY <1>1, <2>1, <2>2
<1> QED
  BY <1>5, <1>6, <1>7

-----------------------------------------------------------------------------
\* A client that waits in vain

LEMMA FailGood ==
  ASSUME NetInv, ~cl.crashed, Top.pc = "recv", cl.unread = <<>>, NEW b \in BOOLEAN
  PROVE  Good([Now(cl, "fail") EXCEPT !.torn = b], con)
<1> DEFINE n == Len(cl.stack)
           e == Now(cl, "fail")
           d == [e EXCEPT !.torn = b]
           g == [Top EXCEPT !.pc = "fail"]
<1>1. /\ LinesOK(con) /\ Len(con) \in Nat /\ ClientOK(cl) /\ Shape(cl) /\ Gaming(cl)
      /\ Top = cl.stack[n] /\ Top \in FrameType
      /\ Top.call # "menu" /\ Depth > 1 /\ Depth = n /\ cl.sockfd # 0 /\ cl.sockfd \in 1 .. Len(con)
  BY Running, Busy
<1>2. "fail" \in Pcs
  BY DEF Pcs
<1>3. /\ ClientOK(e) /\ SameRest(cl, e) /\ e.play = cl.play
      /\ Len(e.stack) = n /\ e.stack[n] = g
  BY <1>1, <1>2, NowIs
<1>4. Shape(e) /\ Gaming(e)
  BY <1>1, <1>2, NowShape
<1>5. g.pc = "fail"
  BY <1>1 DEF FrameType
<1> HIDE DEF e, g
<1>6. /\ ClientOK(d) /\ d.stack = e.stack /\ d.sockfd = e.sockfd /\ d.inConn = e.inConn
      /\ d.exs = e.exs /\ d.playok = e.playok /\ d.unread = e.unread /\ d.play = e.play
  BY <1>3 DEF ClientOK, ClientType
<1> HIDE DEF d
<1>7. d.unread = <<>> /\ d.sockfd = cl.sockfd
  BY <1>3, <1>6 DEF SameRest
<1>8. Shape(d) /\ Gaming(d)
  BY <1>4, <1>6, ShapeSame DEF Gaming
<1>9. Last(d.stack) = g
  BY <1>3, <1>6 DEF Last
<1>10. Quiet(<<>>) /\ ErrorLast(<<>>) /\ ~HasError(<<>>)
  BY DEF Quiet, ErrorLast, HasError
<1>11. BufferOK(d)
  BY <1>1, <1>5, <1>7, <1>9, <1>10 DEF BufferOK
<1>12. LineOK(d, con[cl.sockfd])
  BY <1>5, <1>7, <1>9, <1>10 DEF LineOK, Rest, Waits
<1>13. Good(d, con)
  BY <1>1, <1>6, <1>7, <1>8, <1>11, <1>12 DEF Good
<1> QED
  BY <1>13 DEF d, e

LEMMA EndOfFileTimeoutGood ==
  ASSUME NetInv, EndOfFile \/ Timeout
  PROVE  Good(cl', con')
<1>1. ~cl.crashed /\ Top.pc = "recv" /\ cl.unread = <<>> /\ con' = con
  BY DEF EndOfFile, Timeout, At, NothingComes
<1>2. ClientOK(cl) /\ "fail" \in Pcs
  BY <1>1, Running DEF Pcs
<1> DEFINE e == Now(cl, "fail")
<1>3. ClientOK(e)
  BY <1>2, NowIs
<1> HIDE DEF e
<1>4. e.torn \in BOOLEAN /\ e = [e EXCEPT !.torn = e.torn]
  BY <1>3 DEF ClientOK, ClientType
<1>5. \A b \in BOOLEAN : Good([e EXCEPT !.torn = b], con)
  BY <1>1, FailGood DEF e
<1>6. CASE EndOfFile
  <2>1. cl' = e
    BY <1>6 DEF EndOfFile, e
  <2>2. Good(e, con)
    BY <1>4, <1>5
  <2> QED
    BY <1>1, <2>1, <2>2
<1>7. CASE Timeout
  BY <1>1, <1>5, <1>7 DEF Timeout, e
<1> QED
  BY <1>6, <1>7

LEMMA RetryGood ==
  ASSUME NetInv, Retry
  PROVE  Good(cl', con')
<1> DEFINE n == Len(cl.stack)
           g == [Top EXCEPT !.retry = @ - 1]
           d == [cl EXCEPT !.stack = [@ EXCEPT ![n] = g]]
<1>1. ~cl.crashed /\ Top.pc = "fail"
  BY DEF Retry, At
<1>2. /\ LinesOK(con) /\ Len(con) \in Nat /\ ClientOK(cl) /\ Shape(cl) /\ Gaming(cl)
      /\ Top = cl.stack[n] /\ Top \in FrameType /\ FrameOK(cl, n) /\ Last(cl.stack) = Top
      /\ Top.call # "menu" /\ n > 1 /\ Depth = n /\ cl.sockfd \in 1 .. Len(con)
      /\ n \in 1 .. n /\ DOMAIN cl.stack = 1 .. n
  BY <1>1, Running, Busy, ClientFacts DEF Top
<1>3. Quiet(cl.unread) /\ ErrorLast(cl.unread)
  BY <1>1, <1>2, Running DEF BufferOK
<1>4. CASE Top.retry > 0
  <2>1. Restart([cl EXCEPT !.stack[Depth].retry = @ - 1], "loop")
    BY <1>4 DEF Retry
  <2>2. [cl EXCEPT !.stack[Depth].retry = @ - 1] = d
    BY <1>2
  <2>3. g \in FrameType /\ g.call = Top.call /\ g.key = Top.key /\ g.id = Top.id /\ g.cont = Top.cont
        /\ g.pc = "fail"
    <3>1. Top.retry - 1 \in 0 .. Retries
      BY <1>2, <1>4, NetAssumption DEF FrameType
    <3> QED
      BY <1>1, <1>2, <3>1 DEF FrameType
  <2> HIDE DEF g
  <2>4. /\ ClientOK(d) /\ SameRest(cl, d) /\ d.play = cl.play
        /\ Len(d.stack) = n /\ d.stack[n] = g
        /\ \A i \in 1 .. n : i < n => d.stack[i] = cl.stack[i]
    BY <1>2, <2>3, ReplaceIs
  <2>5. Restart(d, "loop")
    BY <2>1, <2>2
  <2> HIDE DEF d
  <2>6. /\ d.sockfd = cl.sockfd /\ d.inConn = cl.inConn /\ d.exs = cl.exs /\ d.playok = cl.playok
        /\ d.unread = cl.unread
    BY <2>4 DEF SameRest
  <2>7. Shape(d) /\ Gaming(d)
    <3>1. g.key = g.call \/ (g.key = "answer" /\ g.call \in {"play", "exit"})
      BY <1>2, <2>3 DEF FrameOK
    <3>2. Playing(g) => Playing(Top)
      BY <2>3 DEF Playing
    <3> HIDE DEF n
    <3> QED
      BY <1>2, <2>3, <2>4, <2>6, <3>1, <3>2, TopShape DEF n
  <2> QED
    BY <1>2, <1>3, <2>3, <2>4, <2>5, <2>6, <2>7, RestartGood
<1>5. CASE ~(Top.retry > 0)
  <2>1. con' = Closed(con, cl.sockfd) /\ cl' = Error(cl)
    BY <1>5 DEF Retry
  <2>2. Settled(cl')
    BY <1>2, <1>3, <2>1, ErrorLands
  <2>3. LinesOK(con')
    BY <1>2, <2>1, ClosedOK
  <2> QED
    BY <2>2, <2>3, SettledGood
<1> QED
  BY <1>4, <1>5

LEMMA CheckedGood ==
  ASSUME NetInv, Checked
  PROVE  Good(cl', con')
<1> DEFINE n == Len(cl.stack)
           e == Now(cl, "prompt")
           g == [Top EXCEPT !.pc = "prompt"]
           p == con[cl.sockfd]
<1>1. ~cl.crashed /\ Top.pc = "check"
  BY DEF Checked, At
<1>2. /\ LinesOK(con) /\ Len(con) \in Nat /\ ClientOK(cl) /\ Shape(cl) /\ Gaming(cl) /\ BufferOK(cl)
      /\ Top = cl.stack[n] /\ Top \in FrameType /\ FrameOK(cl, n) /\ Last(cl.stack) = Top
      /\ n \in Nat /\ n >= 1 /\ cl.unread \in Seq(MsgType) /\ n \in 1 .. n
  BY <1>1, Running DEF Top
<1>3. Quiet(cl.unread) /\ ErrorLast(cl.unread)
  BY <1>1, <1>2 DEF BufferOK
<1>4. cl.sockfd # 0 /\ cl.sockfd \in 1 .. Len(con) /\ LineOK(cl, p)
  <2>1. cl.sockfd # 0
    BY <1>1, <1>2 DEF BufferOK
  <2> QED
    BY <1>1, <2>1, Running
<1>5. "prompt" \in Pcs /\ Top.call \in {"menu", "play", "exit"}
  BY <1>1, <1>2 DEF Pcs, FrameOK
<1>6. /\ ClientOK(e) /\ SameRest(cl, e) /\ e.play = cl.play
      /\ Len(e.stack) = n /\ e.stack[n] = g
      /\ \A i \in 1 .. n : i < n => e.stack[i] = cl.stack[i]
  BY <1>2, <1>5, NowIs
<1>7. Shape(e) /\ Gaming(e)
  <2>1. Top.call = "play" => cl.playok /\ cl.play = 2
    BY <1>1, <1>2 DEF Gaming, Playing
  <2> QED
    BY <1>2, <1>5, <2>1, NowShape
<1>8. g.call = Top.call /\ g.cont = Top.cont /\ g.id = Top.id /\ g.key = Top.key /\ g.pc = "prompt"
  BY <1>2 DEF FrameType
<1>9. \/ /\ cl.unread # <<>> /\ con' = con
         /\ LET c == [e EXCEPT !.unread = Tail(@)]
            IN cl' = IF Head(cl.unread).k = "cancel" THEN [c EXCEPT !.cancelled = TRUE]
                     ELSE IF c.exs > 0 THEN JumpEx([c EXCEPT !.playok = FALSE])
                     ELSE c
      \/ Restart(e, "check")
  BY DEF Checked
<1> HIDE DEF e, g, n
<1>10. e.sockfd = cl.sockfd /\ e.unread = cl.unread /\ e.exs = cl.exs /\ e.playok = cl.playok
       /\ e.inConn = cl.inConn
  BY <1>6 DEF SameRest
<1>11. CASE Restart(e, "check")
  <2>1. e.stack[Len(e.stack)].pc = "prompt"
    BY <1>6, <1>8
  <2> QED
    BY <1>2, <1>3, <1>4, <1>6, <1>7, <1>10, <1>11, <2>1, RestartGood
<1>12. CASE cl.unread # <<>> /\ ~Restart(e, "check")
  <2> DEFINE q == Tail(cl.unread)
             c == [e EXCEPT !.unread = q]
  <2>1. q \in Seq(MsgType) /\ Quiet(q) /\ ErrorLast(q) /\ (HasError(q) => HasError(cl.unread))
        /\ Head(cl.unread) = cl.unread[1] /\ 1 \in 1 .. Len(cl.unread)
    BY <1>2, <1>3, <1>12, TailIs, TailKeeps
  <2>2. cl' = IF Head(cl.unread).k = "cancel" THEN [c EXCEPT !.cancelled = TRUE]
              ELSE IF c.exs > 0 THEN JumpEx([c EXCEPT !.playok = FALSE])
              ELSE c
    BY <1>9, <1>10, <1>12
  <2>3. con' = con
    BY <1>9, <1>12
  <2> HIDE DEF q
  <2>4. ASSUME NEW d, ClientOK(d), d.stack = e.stack, d.sockfd = e.sockfd, d.inConn = e.inConn,
               d.exs = e.exs, d.play = e.play, d.playok = e.playok, d.unread = q
        PROVE  Good(d, con)
    <3>1. /\ Len(d.stack) = n /\ d.stack[n] = g
          /\ \A i \in 1 .. n : i < n => d.stack[i] = cl.stack[i]
      BY <1>6, <2>4
    <3>2. /\ d.sockfd = cl.sockfd /\ d.inConn = cl.inConn /\ d.exs = cl.exs /\ d.play = cl.play
          /\ d.playok = cl.playok
      BY <1>6, <1>10, <2>4
    <3> QED
      BY <1>1, <1>4, <1>8, <2>1, <2>4, <3>1, <3>2, PromptGood DEF n
  <2>5. /\ ClientOK(c) /\ c.stack = e.stack /\ c.sockfd = e.sockfd /\ c.inConn = e.inConn
        /\ c.exs = e.exs /\ c.play = e.play /\ c.playok = e.playok /\ c.unread = q
        /\ c.crashed = e.crashed
    <3> HIDE DEF MsgType
    <3> QED
      BY <1>6, <2>1 DEF ClientOK, ClientType
  <2> HIDE DEF c
  <2>6. CASE Head(cl.unread).k = "cancel"
    <3> DEFINE d == [c EXCEPT !.cancelled = TRUE]
    <3>1. cl' = d
      BY <2>2, <2>6
    <3>2. /\ ClientOK(d) /\ d.stack = c.stack /\ d.sockfd = c.sockfd /\ d.inConn = c.inConn
          /\ d.exs = c.exs /\ d.play = c.play /\ d.playok = c.playok /\ d.unread = c.unread
      BY <2>5 DEF ClientOK, ClientType
    <3> HIDE DEF d
    <3>3. Good(d, con)
      BY <2>4, <2>5, <3>2
    <3> QED
      BY <2>3, <3>1, <3>3
  <2>7. CASE Head(cl.unread).k # "cancel" /\ c.exs > 0
    <3> DEFINE d == [c EXCEPT !.playok = FALSE]
               j == JumpEx(d)
    <3>1. cl' = j
      BY <2>2, <2>7
    <3>2. /\ ClientOK(d) /\ d.stack = c.stack /\ d.sockfd = c.sockfd /\ d.inConn = c.inConn
          /\ d.exs = c.exs /\ d.play = c.play /\ d.unread = c.unread
      BY <2>5 DEF ClientOK, ClientType
    <3> HIDE DEF d
    <3>3. Shape(d)
      <4>1. d.stack = e.stack /\ d.inConn = e.inConn /\ d.exs = e.exs /\ d.play = e.play
        BY <2>5, <3>2
      <4> QED
        BY <1>7, <4>1, ShapeSame
    <3>4. Len(d.stack) > 1 \/ d.stack[1].pc = "prompt"
      <4>1. Len(d.stack) = n /\ d.stack[n] = g
        BY <1>6, <2>5, <3>2
      <4>2. n = 1 \/ n > 1
        BY <1>2, AboveOne
      <4> QED
        BY <1>8, <4>1, <4>2
    <3>5. ClientOK(j) /\ j.sockfd = d.sockfd /\ j.unread = d.unread /\ (j.crashed \/ AtMenu(j))
      BY <2>1, <2>5, <3>2, <3>3, <3>4, JumpExLands
    <3>6. cl.unread[1].k \in Errors
      BY <1>3, <2>1, <2>7 DEF Quiet, Async
    <3>7. ~p.up
      <4>1. HasError(cl.unread) /\ Top.call # "auth"
        BY <1>5, <2>1, <3>6 DEF HasError
      <4> QED
        BY <1>2, <1>4, <4>1 DEF LineOK
    <3>8. Quiet(p.toClient) /\ p.toServer = <<>>
      BY <1>1, <1>2, <1>4 DEF LineOK, Rest
    <3>9. j.sockfd = cl.sockfd
      BY <1>10, <2>5, <3>2, <3>5
    <3> HIDE DEF j
    <3> QED
      BY <1>2, <1>4, <2>3, <3>1, <3>5, <3>7, <3>8, <3>9, MenuGood
  <2>8. CASE Head(cl.unread).k # "cancel" /\ ~(c.exs > 0)
    <3>1. cl' = c
      BY <2>2, <2>8
    <3>2. Good(c, con)
      BY <2>4, <2>5
    <3> QED
      BY <2>3, <3>1, <3>2
  <2> QED
    BY <2>6, <2>7, <2>8
<1> QED
  BY <1>9, <1>11, <1>12

-----------------------------------------------------------------------------
\* Messages arrive

\* A queue cut in two: what holds of all its messages, and of its only reply.
LEMMA Prefix ==
  ASSUME NEW q \in Seq(MsgType), NEW n \in 0 .. Len(q)
  PROVE  LET a == SubSeq(q, 1, n)
         IN  /\ a \in Seq(MsgType) /\ Len(a) = n
             /\ \A i \in 1 .. Len(a) : i \in 1 .. Len(q) /\ a[i] = q[i]
             /\ Quiet(q) => Quiet(a)
             /\ ErrorLast(q) => ErrorLast(a)
             /\ OnlyReply(q) => OnlyReply(a)
             /\ HasError(a) => HasError(q)
             /\ ToSet(a) \subseteq ToSet(q)
<1> DEFINE a == SubSeq(q, 1, n)
<1> HIDE DEF MsgType
<1>1. Len(q) \in Nat /\ n \in Nat /\ n <= Len(q) /\ DOMAIN q = 1 .. Len(q)
  OBVIOUS
<1>2. \A i \in 1 .. n : i \in 1 .. Len(q)
  BY <1>1
<1>3. a \in Seq(MsgType) /\ Len(a) = n /\ DOMAIN a = 1 .. n /\ \A i \in 1 .. n : a[i] = q[i]
  <2>1. \A i \in 1 .. n : q[i] \in MsgType
    BY <1>2
  <2>2. n = IF 1 <= n THEN n - 1 + 1 ELSE 0
    BY <1>1
  <2> QED
    BY <1>1, <1>2, <2>1, <2>2, SubSeqProperties
<1> HIDE DEF a
<1>4. Quiet(q) => Quiet(a)
  BY <1>2, <1>3 DEF Quiet
<1>5. ErrorLast(q) => ErrorLast(a)
  <2>1. \A i, l, m \in Nat : i <= m /\ m <= l /\ i = l => i = m
    OBVIOUS
  <2>2. \A i \in 1 .. n : i \in Nat /\ i <= n
    BY <1>1
  <2> QED
    BY <1>1, <1>2, <1>3, <2>1, <2>2 DEF ErrorLast
<1>6. OnlyReply(q) => OnlyReply(a)
  BY <1>2, <1>3 DEF OnlyReply
<1>7. HasError(a) => HasError(q)
  BY <1>2, <1>3 DEF HasError
<1>8. ToSet(a) \subseteq ToSet(q)
  BY <1>1, <1>2, <1>3 DEF ToSet
<1> QED
  BY <1>2, <1>3, <1>4, <1>5, <1>6, <1>7, <1>8 DEF a

LEMMA Suffix ==
  ASSUME NEW q \in Seq(MsgType), NEW n \in 0 .. Len(q)
  PROVE  LET a == SubSeq(q, 1, n)
             b == SubSeq(q, n + 1, Len(q))
         IN  /\ b \in Seq(MsgType)
             /\ \A i \in 1 .. Len(b) : b[i] \in ToSet(q)
             /\ Quiet(q) => Quiet(b)
             /\ ErrorLast(q) => ErrorLast(b)
             /\ OnlyReply(q) => OnlyReply(b) /\ (Quiet(a) \/ Quiet(b))
             /\ HasError(b) => HasError(q)
             /\ ToSet(b) \subseteq ToSet(q)
             /\ Quiet(a) /\ Quiet(b) => Quiet(q)
<1> DEFINE a == SubSeq(q, 1, n)
           b == SubSeq(q, n + 1, Len(q))
           k == Len(q) - n
<1> HIDE DEF MsgType
<1>1. Len(q) \in Nat /\ n \in Nat /\ n <= Len(q) /\ DOMAIN q = 1 .. Len(q) /\ k \in Nat
  OBVIOUS
<1>2. \A i \in 1 .. k : i \in Nat /\ n + i \in 1 .. Len(q) /\ n + i \notin 1 .. n
  BY <1>1
<1>3. b \in Seq(MsgType) /\ Len(b) = k /\ DOMAIN b = 1 .. k /\ \A i \in 1 .. k : b[i] = q[n + i]
  <2>1. \A i \in (n + 1) .. Len(q) : q[i] \in MsgType
    BY <1>1
  <2>2. \A l, m \in Nat : m <= l => /\ l - m = IF m + 1 <= l THEN l - (m + 1) + 1 ELSE 0
                                    /\ l - m = l - (m + 1) + 1
    OBVIOUS
  <2>3. /\ k = IF n + 1 <= Len(q) THEN Len(q) - (n + 1) + 1 ELSE 0
        /\ k = Len(q) - (n + 1) + 1
    BY <1>1, <2>2
  <2>5. n + 1 \in Int /\ Len(q) \in Int
    BY <1>1
  <2> HIDE DEF k
  <2>6. b \in Seq(MsgType) /\ Len(b) = k /\ \A i \in 1 .. k : b[i] = q[n + 1 + i - 1]
    BY <2>1, <2>3, <2>5, SubSeqProperties
  <2>4. \A i \in 1 .. k : n + 1 + i - 1 = n + i
    BY <1>1
  <2> QED
    BY <2>6, <2>4
<1>4. Len(a) = n /\ (\A i \in 1 .. n : i \in 1 .. Len(q) /\ a[i] = q[i])
  BY Prefix
<1> HIDE DEF a, b
<1>5. Quiet(q) => Quiet(b)
  BY <1>2, <1>3 DEF Quiet
<1>6. ErrorLast(q) => ErrorLast(b)
  <2>1. \A i, l, m \in Nat : m + i = l => i = l - m
    OBVIOUS
  <2>2. \A i \in 1 .. k : n + i = Len(q) => i = k
    <3>1. \A i, l, m, j \in Nat : m + i = l /\ m + j = l => i = j
      OBVIOUS
    <3>2. n \in Nat /\ Len(q) \in Nat /\ k \in Nat /\ n + k = Len(q)
      BY <1>1, <1>2
    <3>3. \A i \in 1 .. k : i \in Nat
      OBVIOUS
    <3> HIDE DEF k
    <3> QED
      BY <3>1, <3>2, <3>3
  <2> QED
    BY <1>2, <1>3, <2>2 DEF ErrorLast
<1>7. OnlyReply(q) => OnlyReply(b)
  <2>1. \A i, j \in 1 .. k : n + i = n + j => i = j
    BY <1>1
  <2> QED
    BY <1>2, <1>3, <2>1 DEF OnlyReply
<1>8. OnlyReply(q) => Quiet(a) \/ Quiet(b)
  <2>1. \A i \in 1 .. n, j \in 1 .. k : i # n + j
    BY <1>1
  <2> QED
    BY <1>2, <1>3, <1>4, <2>1 DEF OnlyReply, Quiet
<1>9. HasError(b) => HasError(q)
  BY <1>2, <1>3 DEF HasError
<1>10. ToSet(b) \subseteq ToSet(q) /\ \A i \in 1 .. Len(b) : b[i] \in ToSet(q)
  BY <1>1, <1>2, <1>3 DEF ToSet
<1>11. Quiet(a) /\ Quiet(b) => Quiet(q)
  <2> SUFFICES ASSUME Quiet(a), Quiet(b), NEW i \in 1 .. Len(q) PROVE q[i].k \in Async
    BY DEF Quiet
  <2>1. CASE i <= n
    <3>1. i \in 1 .. n
      BY <1>1, <2>1
    <3> QED
      BY <1>4, <3>1 DEF Quiet
  <2>2. CASE ~(i <= n)
    <3>1. i - n \in 1 .. k /\ n + (i - n) = i
      BY <1>1, <2>2
    <3> QED
      BY <1>3, <3>1 DEF Quiet
  <2> QED
    BY <2>1, <2>2
<1> QED
  BY <1>3, <1>5, <1>6, <1>7, <1>8, <1>9, <1>10, <1>11 DEF a, b

LEMMA RecvGood ==
  ASSUME NetInv, Recv
  PROVE  Good(cl', con')
<1> DEFINE p == con[cl.sockfd]
           tc == p.toClient
           t == Top
<1>1. ~cl.crashed /\ t.pc \in {"recv", "check"} /\ cl.unread = <<>>
  BY DEF Recv, At
<1>2. /\ LinesOK(con) /\ Len(con) \in Nat /\ ClientOK(cl) /\ Shape(cl) /\ Gaming(cl) /\ BufferOK(cl)
      /\ Last(cl.stack) = t
  BY <1>1, Running DEF Top
<1>3. /\ cl.sockfd # 0 /\ cl.sockfd \in 1 .. Len(con) /\ LineOK(cl, p) /\ p \in ConType /\ ServerOK(p)
  <2>1. cl.sockfd # 0
    <3>1. t.pc = "recv" => cl.sockfd # 0
      BY <1>1, Busy
    <3>2. t.pc = "check" => cl.sockfd # 0
      <4>1. Len(cl.stack) = 1 => t = cl.stack[1]
        BY <1>2 DEF Last
      <4> QED
        BY <1>2, <4>1 DEF BufferOK
    <3> QED
      BY <1>1, <3>1, <3>2
  <2> QED
    BY <1>1, <2>1, Running
<1>4. tc \in Seq(MsgType) /\ DOMAIN tc = 1 .. Len(tc)
  BY <1>3 DEF ConType
<1>5. PICK n \in 0 .. Len(tc), part \in BOOLEAN :
        /\ cl' = [cl EXCEPT !.unread = IF cl.torn /\ n > 0 THEN Tail(SubSeq(tc, 1, n))
                                       ELSE SubSeq(tc, 1, n),
                            !.torn = part \/ (@ /\ n = 0)]
        /\ con' = [con EXCEPT ![cl.sockfd].toClient = SubSeq(@, n + 1, Len(@)),
                              ![cl.sockfd].cut = @ /\ ~part,
                              ![cl.sockfd].gap = @ \/ (cl.torn /\ n > 0)]
  BY DEF Recv, Line
<1> DEFINE a == SubSeq(tc, 1, n)
           b == SubSeq(tc, n + 1, Len(tc))
           skip == cl.torn /\ n > 0
           u == IF skip THEN Tail(a) ELSE a
           torn == part \/ (cl.torn /\ n = 0)
           d == [cl EXCEPT !.unread = u, !.torn = torn]
           q == [p EXCEPT !.toClient = b, !.cut = @ /\ ~part, !.gap = @ \/ skip]
<1>6. cl' = d /\ con' = [con EXCEPT ![cl.sockfd] = q]
  BY <1>5
<1>7. torn \in BOOLEAN /\ skip \in BOOLEAN
  BY <1>2 DEF ClientOK, ClientType
<1> HIDE DEF tc, MsgType
<1>8. /\ a \in Seq(MsgType) /\ Len(a) = n
      /\ Quiet(tc) => Quiet(a)
      /\ ErrorLast(tc) => ErrorLast(a)
      /\ OnlyReply(tc) => OnlyReply(a)
      /\ HasError(a) => HasError(tc)
      /\ ToSet(a) \subseteq ToSet(tc)
  BY <1>4, Prefix
<1>9. /\ b \in Seq(MsgType)
      /\ Quiet(tc) => Quiet(b)
      /\ ErrorLast(tc) => ErrorLast(b)
      /\ OnlyReply(tc) => OnlyReply(b) /\ (Quiet(a) \/ Quiet(b))
      /\ HasError(b) => HasError(tc)
      /\ ToSet(b) \subseteq ToSet(tc)
      /\ Quiet(a) /\ Quiet(b) => Quiet(tc)
  BY <1>4, Suffix
<1>10. skip => a # <<>>
  <2>1. Len(<<>>) = 0 /\ ~(0 > 0)
    OBVIOUS
  <2> QED
    BY <1>8, <2>1
<1> HIDE DEF a, b
<1>11. /\ u \in Seq(MsgType)
       /\ Quiet(a) => Quiet(u)
       /\ ErrorLast(a) => ErrorLast(u)
       /\ OnlyReply(a) => OnlyReply(u)
       /\ HasError(u) => HasError(a)
       /\ ToSet(u) \subseteq ToSet(a)
       /\ ~skip => u = a
  <2>1. CASE skip
    <3>1. Tail(a) \in Seq(MsgType)
      BY <1>8, <1>10, <2>1, TailIs
    <3>2. DOMAIN Tail(a) = 1 .. Len(Tail(a))
      BY <3>1
    <3>3. ToSet(Tail(a)) \subseteq ToSet(a)
      BY <1>8, <1>10, <2>1, <3>2, TailKeeps DEF ToSet
    <3> QED
      BY <1>8, <1>10, <2>1, <3>1, <3>3, TailKeeps
  <2>2. CASE ~skip
    BY <1>8, <2>2
  <2> QED
    BY <2>1, <2>2
<1> HIDE DEF u, torn, skip
<1>12. /\ ClientOK(d) /\ d.stack = cl.stack /\ d.sockfd = cl.sockfd /\ d.inConn = cl.inConn
       /\ d.exs = cl.exs /\ d.play = cl.play /\ d.playok = cl.playok /\ d.unread = u
       /\ d.crashed = cl.crashed
  BY <1>2, <1>7, <1>11 DEF ClientOK, ClientType
<1>13. /\ q \in ConType /\ q.toClient = b /\ q.toServer = p.toServer /\ q.up = p.up /\ q.st = p.st
       /\ q.req = p.req /\ q.can = p.can /\ (~q.gap => ~p.gap /\ ~skip)
  BY <1>3, <1>7, <1>9 DEF ConType
<1> HIDE DEF d, q
<1>14. ServerOK(q)
  BY <1>3, <1>9, <1>13 DEF ServerOK, tc
<1>15. LinesOK(con') /\ Len(con') = Len(con) /\ con'[cl.sockfd] = q
  <2>1. /\ LinesOK([con EXCEPT ![cl.sockfd] = q]) /\ Len([con EXCEPT ![cl.sockfd] = q]) = Len(con)
        /\ [con EXCEPT ![cl.sockfd] = q][cl.sockfd] = q
    BY <1>2, <1>3, <1>13, <1>14, SetLine
  <2> QED
    BY <1>6, <2>1
<1>16. Shape(d) /\ Gaming(d)
  BY <1>2, <1>12, ShapeSame DEF Gaming
<1>17. ErrorLast(u) /\ (HasError(u) => ~p.up)
  BY <1>3, <1>8, <1>11 DEF ServerOK, tc
<1>18. \A m : FitsIn(cl, m) <=> FitsIn(d, m)
  BY <1>12 DEF FitsIn, PlayIdOf
<1>19. /\ DOMAIN u = 1 .. Len(u) /\ DOMAIN b = 1 .. Len(b)
       /\ \A i \in 1 .. Len(u) : u[i] \in ToSet(tc)
       /\ \A i \in 1 .. Len(b) : b[i] \in ToSet(tc)
  <2>1. DOMAIN u = 1 .. Len(u) /\ DOMAIN b = 1 .. Len(b)
    BY <1>9, <1>11
  <2> QED
    BY <1>8, <1>9, <1>11, <2>1 DEF ToSet
<1>20. CASE t.pc = "check"
  <2>1. /\ Quiet(tc) /\ p.toServer = <<>>
        /\ p.up => p.st = IF t.call = "menu" THEN "main" ELSE "wait"
    BY <1>2, <1>3, <1>20 DEF LineOK, Rest, tc
  <2>2. BufferOK(d)
    BY <1>2, <1>3, <1>8, <1>11, <1>12, <1>17, <1>20, <2>1 DEF BufferOK
  <2>3. Rest(d, q) /\ Waits(d, q)
    BY <1>2, <1>9, <1>12, <1>13, <1>20, <2>1 DEF Rest, Waits
  <2>4. LineOK(d, q)
    BY <1>2, <1>3, <1>12, <1>13, <1>17, <2>3 DEF LineOK
  <2> QED
    BY <1>2, <1>3, <1>6, <1>12, <1>15, <1>16, <2>2, <2>4 DEF Good
<1>21. CASE t.pc = "recv"
  <2>1. /\ p.toServer # <<>> => /\ p.toServer[1] = Msg(t.key, t.id)
                                /\ p.up => p.st = Due(t.key)
        /\ p.up /\ p.st = "game" => t.call \in {"play", "exit"}
        /\ \A i \in 1 .. Len(tc) : FitsIn(cl, tc[i])
        /\ OnlyReply(tc)
        /\ \A m \in ToSet(tc) :
             m.k \notin Async => /\ p.toServer = <<>> /\ p.st # "game"
                                 /\ p.up => p.st = After(m.k)
        /\ p.up /\ ~p.gap => ~Quiet(cl.unread) \/ ~Quiet(tc) \/ p.toServer # <<>> \/ p.st = "game"
    BY <1>2, <1>3, <1>21 DEF LineOK, Waits, tc
  <2>2. Quiet(cl.unread)
    BY <1>1 DEF Quiet
  <2>3. \A m \in ToSet(tc) : FitsIn(d, m)
    BY <1>4, <1>18, <2>1 DEF ToSet
  <2>4. BufferOK(d)
    BY <1>2, <1>3, <1>8, <1>11, <1>12, <1>17, <1>19, <1>21, <2>1, <2>3 DEF BufferOK
  <2>5. Rest(d, q)
    BY <1>2, <1>12, <1>21 DEF Rest
  <2>6. Waits(d, q)
    <3>1. q.up /\ ~q.gap => ~Quiet(u) \/ ~Quiet(b) \/ q.toServer # <<>> \/ q.st = "game"
      BY <1>9, <1>11, <1>13, <2>1, <2>2
    <3>2. Quiet(u) \/ Quiet(b)
      BY <1>9, <1>11, <2>1
    <3>3. \A m \in ToSet(u) \cup ToSet(b) :
             m.k \notin Async => /\ q.toServer = <<>> /\ q.st # "game"
                                 /\ q.up => q.st = After(m.k)
      BY <1>8, <1>9, <1>11, <1>13, <2>1
    <3>4. OnlyReply(b) /\ \A i \in 1 .. Len(b) : FitsIn(d, b[i])
      BY <1>9, <1>19, <2>1, <2>3
    <3>5. Last(d.stack) = t
      BY <1>2, <1>12
    <3> HIDE DEF t
    <3> QED
      BY <1>12, <1>13, <2>1, <3>1, <3>2, <3>3, <3>4, <3>5 DEF Waits
  <2>7. LineOK(d, q)
    BY <1>2, <1>3, <1>12, <1>13, <1>17, <2>5, <2>6 DEF LineOK
  <2> QED
    BY <1>2, <1>3, <1>6, <1>12, <1>15, <1>16, <2>4, <2>7 DEF Good
<1> QED
  BY <1>1, <1>20, <1>21

-----------------------------------------------------------------------------
\* A message is handled

\* The client without the first message of its buffer
Taken == [cl EXCEPT !.unread = Tail(@)]

LEMMA TakenIs ==
  ASSUME NetInv, ~cl.crashed, Top.pc = "recv", cl.unread # <<>>
  PROVE  LET c == Taken
             p == con[cl.sockfd]
             m == Head(cl.unread)
         IN  /\ ClientOK(c) /\ Shape(c) /\ Gaming(c)
             /\ c.stack = cl.stack /\ c.sockfd = cl.sockfd /\ c.inConn = cl.inConn
             /\ c.exs = cl.exs /\ c.play = cl.play /\ c.playok = cl.playok
             /\ c.crashed = cl.crashed /\ c.unread = Tail(cl.unread)
             /\ c.unread \in Seq(MsgType) /\ ErrorLast(c.unread) /\ m \in MsgType
             /\ FitsIn(cl, m)
             /\ m.k \in Errors => Quiet(c.unread)
             /\ m.k \notin Async => /\ Quiet(c.unread) /\ Quiet(p.toClient) /\ p.toServer = <<>>
                                    /\ p.st # "game" /\ (p.up => p.st = After(m.k))
                                    /\ HasError(c.unread) => ~p.up
<1> DEFINE c == Taken
           q == Tail(cl.unread)
           p == con[cl.sockfd]
           m == Head(cl.unread)
<1>1. /\ LinesOK(con) /\ Len(con) \in Nat /\ ClientOK(cl) /\ Shape(cl) /\ Gaming(cl) /\ BufferOK(cl)
      /\ Last(cl.stack) = Top /\ cl.unread \in Seq(MsgType) /\ LineOK(cl, p)
  BY Running, Busy DEF Top
<1>2. q \in Seq(MsgType) /\ m = cl.unread[1] /\ 1 \in 1 .. Len(cl.unread) /\ m \in MsgType
  BY <1>1, TailIs
<1>3. /\ ErrorLast(cl.unread) /\ OnlyReply(cl.unread)
      /\ \A i \in 1 .. Len(cl.unread) : FitsIn(cl, cl.unread[i])
  BY <1>1 DEF BufferOK
<1>4. /\ ErrorLast(q)
      /\ m.k \notin Async => Quiet(q)
      /\ m.k \in Errors => Quiet(q)
      /\ HasError(q) => HasError(cl.unread)
  BY <1>1, <1>2, <1>3, TailKeeps
<1>5. m.k \notin Async => /\ ~Quiet(cl.unread)
                          /\ m \in ToSet(cl.unread)
  <2>1. DOMAIN cl.unread = 1 .. Len(cl.unread)
    BY <1>1
  <2> QED
    BY <1>2, <2>1 DEF Quiet, ToSet
<1>6. m.k \notin Async => /\ Quiet(p.toClient) /\ p.toServer = <<>> /\ p.st # "game"
                          /\ p.up => p.st = After(m.k)
  BY <1>1, <1>5 DEF LineOK, Waits
<1>7. m.k \notin Async => (HasError(q) => ~p.up)
  BY <1>1, <1>4, <1>5 DEF LineOK
<1>8. FitsIn(cl, m)
  BY <1>2, <1>3
<1> HIDE DEF q, m, p, MsgType
<1>9. /\ ClientOK(c) /\ c.stack = cl.stack /\ c.sockfd = cl.sockfd /\ c.inConn = cl.inConn
      /\ c.exs = cl.exs /\ c.play = cl.play /\ c.playok = cl.playok /\ c.unread = q
      /\ c.crashed = cl.crashed
  BY <1>1, <1>2 DEF ClientOK, ClientType, Taken, q
<1>10. Shape(c) /\ Gaming(c)
  BY <1>1, <1>9, ShapeSame DEF Gaming
<1> HIDE DEF c
<1>11. c.unread = q
  BY <1>9
<1> QED
  BY <1>2, <1>4, <1>6, <1>7, <1>8, <1>9, <1>10, <1>11 DEF q, m, p, c

LEMMA CancelTakenGood ==
  ASSUME NetInv, ~cl.crashed, Top.pc = "recv", cl.unread # <<>>, Head(cl.unread).k = "cancel"
  PROVE  Good([Taken EXCEPT !.cancelled = TRUE], con)
<1> DEFINE c == Taken
           d == [c EXCEPT !.cancelled = TRUE]
           q == Tail(cl.unread)
           p == con[cl.sockfd]
<1>1. /\ LinesOK(con) /\ Len(con) \in Nat /\ ClientOK(cl) /\ Shape(cl) /\ Gaming(cl) /\ BufferOK(cl)
      /\ Last(cl.stack) = Top /\ cl.unread \in Seq(MsgType) /\ LineOK(cl, p)
      /\ cl.sockfd \in 1 .. Len(con) /\ cl.sockfd # 0
  BY Running, Busy DEF Top
<1>2. /\ ClientOK(c) /\ Shape(c) /\ Gaming(c) /\ c.unread = q /\ ErrorLast(q) /\ q \in Seq(MsgType)
      /\ c.stack = cl.stack /\ c.sockfd = cl.sockfd /\ c.inConn = cl.inConn
      /\ c.exs = cl.exs /\ c.play = cl.play /\ c.playok = cl.playok
  BY TakenIs
<1> HIDE DEF c, q
<1>3. /\ ClientOK(d) /\ d.unread = q /\ d.stack = cl.stack /\ d.sockfd = cl.sockfd
      /\ d.inConn = c.inConn /\ d.exs = c.exs /\ d.play = cl.play /\ d.playok = cl.playok
      /\ d.inConn = cl.inConn /\ d.exs = cl.exs
  BY <1>2 DEF ClientOK, ClientType
<1> HIDE DEF d
<1>4. Shape(d) /\ Gaming(d)
  BY <1>1, <1>3, ShapeSame DEF Gaming
<1>5. \A m : FitsIn(cl, m) <=> FitsIn(d, m)
  BY <1>3 DEF FitsIn, PlayIdOf
<1>6. /\ OnlyReply(cl.unread) => OnlyReply(q)
      /\ HasError(q) => HasError(cl.unread)
      /\ Quiet(cl.unread) => Quiet(q)
      /\ \A i \in 1 .. Len(q) : q[i] \in ToSet(cl.unread)
  BY <1>1, TailKeeps DEF q
<1>7. DOMAIN q = 1 .. Len(q) /\ DOMAIN cl.unread = 1 .. Len(cl.unread)
  BY <1>1, <1>2 DEF MsgType
<1>8. ToSet(q) \subseteq ToSet(cl.unread)
  BY <1>6, <1>7 DEF ToSet
<1>9. BufferOK(d)
  <2>1. \A m \in ToSet(cl.unread) : FitsIn(d, m)
    BY <1>1, <1>5, <1>7 DEF BufferOK, ToSet
  <2> QED
    BY <1>1, <1>2, <1>3, <1>6, <2>1 DEF BufferOK
<1>10. ~Quiet(cl.unread) => ~Quiet(q)
  <2> SUFFICES ASSUME Quiet(q), NEW i \in 1 .. Len(cl.unread) PROVE cl.unread[i].k \in Async
    BY DEF Quiet
  <2>1. CASE i = 1
    <3>1. Head(cl.unread) = cl.unread[1]
      BY <1>1, TailIs
    <3> QED
      BY <2>1, <3>1 DEF Async
  <2>2. CASE i # 1
    <3>1. Len(q) = Len(cl.unread) - 1 /\ Len(cl.unread) \in Nat
          /\ \A j \in 1 .. Len(q) : q[j] = cl.unread[j + 1]
      BY <1>1, TailIs DEF q
    <3>2. i - 1 \in 1 .. Len(q) /\ (i - 1) + 1 = i
      BY <2>2, <3>1
    <3> QED
      BY <3>1, <3>2 DEF Quiet
  <2> QED
    BY <2>1, <2>2
<1>11. LineOK(d, p)
  <2>1. /\ p.toServer # <<>> => /\ p.toServer[1] = Msg(Top.key, Top.id)
                                /\ p.up => p.st = Due(Top.key)
        /\ p.up /\ p.st = "game" => Top.call \in {"play", "exit"}
        /\ \A i \in 1 .. Len(p.toClient) : FitsIn(d, p.toClient[i])
        /\ OnlyReply(p.toClient)
        /\ Quiet(cl.unread) \/ Quiet(p.toClient)
        /\ \A m \in ToSet(cl.unread) \cup ToSet(p.toClient) :
             m.k \notin Async => /\ p.toServer = <<>> /\ p.st # "game"
                                 /\ p.up => p.st = After(m.k)
        /\ p.up /\ ~p.gap =>
             ~Quiet(cl.unread) \/ ~Quiet(p.toClient) \/ p.toServer # <<>> \/ p.st = "game"
    BY <1>1, <1>5 DEF LineOK, Waits
  <2>2. Last(d.stack) = Top
    BY <1>1, <1>3
  <2>3. Waits(d, p)
    BY <1>3, <1>6, <1>8, <1>10, <2>1, <2>2 DEF Waits
  <2>4. Rest(d, p)
    BY <2>2 DEF Rest
  <2>5. HasError(q) => ~p.up \/ (Top.call = "auth" /\ Quiet(q))
    BY <1>1, <1>6 DEF LineOK
  <2>6. p.up /\ p.st \in {"game", "wait"} =>
          Len(d.stack) > 1 /\ d.stack[2].call = "play" /\ p.req = d.stack[2].id
    BY <1>1, <1>3 DEF LineOK
  <2> QED
    BY <1>3, <2>2, <2>3, <2>4, <2>5, <2>6 DEF LineOK
<1>12. d.sockfd <= Len(con)
  BY <1>1, <1>3
<1>13. Good(d, con)
  BY <1>1, <1>3, <1>4, <1>9, <1>11, <1>12 DEF Good
<1> QED
  BY <1>13 DEF d, c

\* The first message after a play_game request sets playgame_jmp_buf.
Marked == IF Top.key = "play" THEN [Taken EXCEPT !.playok = TRUE, !.play = Depth] ELSE Taken

LEMMA MarkedIs ==
  ASSUME NetInv, ~cl.crashed, Top.pc = "recv", cl.unread # <<>>
  PROVE  LET d == Marked
         IN  /\ ClientOK(d) /\ Shape(d) /\ Gaming(d)
             /\ d.stack = cl.stack /\ d.sockfd = cl.sockfd /\ d.inConn = cl.inConn
             /\ d.exs = cl.exs /\ d.crashed = cl.crashed /\ d.unread = Taken.unread
             /\ Top.key = "play" => d.playok /\ d.play = 2
             /\ d.playok \in BOOLEAN
<1>1. /\ ClientOK(Taken) /\ Shape(Taken) /\ Gaming(Taken)
      /\ Taken.stack = cl.stack /\ Taken.sockfd = cl.sockfd /\ Taken.inConn = cl.inConn
      /\ Taken.exs = cl.exs /\ Taken.crashed = cl.crashed
  BY TakenIs
<1>2. Taken.playok \in BOOLEAN
  BY <1>1 DEF ClientOK, ClientType
<1>3. CASE Top.key # "play"
  BY <1>1, <1>2, <1>3 DEF Marked
<1>4. CASE Top.key = "play"
  <2> DEFINE c == Taken
             n == Len(cl.stack)
             d == [c EXCEPT !.playok = TRUE, !.play = 2]
  <2>1. Top = cl.stack[n] /\ FrameOK(cl, n) /\ Depth = n /\ n \in Nat
    BY Running
  <2>2. Top.call = "play" /\ n = 2
    BY <1>4, <2>1 DEF FrameOK
  <2>3. Marked = d
    BY <1>4, <2>1, <2>2 DEF Marked
  <2> HIDE DEF c
  <2>4. /\ ClientOK(d) /\ d.stack = c.stack /\ d.sockfd = c.sockfd /\ d.inConn = c.inConn
        /\ d.exs = c.exs /\ d.crashed = c.crashed /\ d.unread = c.unread /\ d.playok /\ d.play = 2
    <3>1. ClientOK(c) /\ Len(c.stack) = 2
      BY <1>1, <2>2 DEF c
    <3>2. /\ d \in ClientType /\ d.stack = c.stack /\ d.sockfd = c.sockfd /\ d.inConn = c.inConn
          /\ d.exs = c.exs /\ d.crashed = c.crashed /\ d.unread = c.unread /\ d.playok /\ d.play = 2
          /\ d.ex = c.ex /\ d.calls = c.calls
      BY <3>1 DEF ClientOK, ClientType
    <3> HIDE DEF d
    <3>3. d.play <= Len(d.stack)
      <4>1. d.play = 2 /\ Len(d.stack) = 2
        BY <3>1, <3>2
      <4>2. 2 <= 2
        OBVIOUS
      <4> QED
        BY <4>1, <4>2, Zenon
    <3>4. d.ex <= Len(d.stack) /\ d.exs <= d.calls /\ Len(d.stack) >= 1
      BY <3>1, <3>2 DEF ClientOK
    <3>5. ClientOK(d)
      BY <3>2, <3>3, <3>4 DEF ClientOK
    <3> QED
      BY <3>2, <3>5
  <2> HIDE DEF d
  <2>5. Shape(d) /\ Gaming(d)
    <3>1. ClientOK(c) /\ Shape(c) /\ Gaming(c) /\ c.stack = cl.stack
      BY <1>1 DEF c
    <3>2. /\ Len(d.stack) = Len(c.stack) /\ d.stack[Len(c.stack)] = Top
          /\ \A i \in 1 .. Len(c.stack) : i < Len(c.stack) => d.stack[i] = c.stack[i]
          /\ Top = c.stack[Len(c.stack)]
      BY <2>1, <2>4, <3>1
    <3>3. Len(c.stack) = 2 /\ c.stack[2].call = "play"
      BY <2>1, <2>2, <3>1
    <3>4. /\ Top.key = Top.call
          /\ Top.pc \notin {"prompt", "check"} /\ Top.call # "menu"
      BY <1>4, <2>2
    <3> QED
      BY <2>4, <3>1, <3>2, <3>3, <3>4, TopShape
  <2> QED
    BY <1>1, <1>4, <2>3, <2>4, <2>5 DEF c
<1> QED
  BY <1>3, <1>4

LEMMA PlayTakenGood ==
  ASSUME NetInv, ~cl.crashed, Top.pc = "recv", cl.unread # <<>>, Head(cl.unread).k = "play"
  PROVE  Good(JumpPlay(Marked), con)
<1> DEFINE d == Marked
           p == con[cl.sockfd]
<1>1. LinesOK(con) /\ cl.sockfd \in 1 .. Len(con)
  BY Running, Busy
<1>2. /\ ClientOK(d) /\ Shape(d) /\ d.sockfd = cl.sockfd /\ d.unread = Taken.unread
  BY MarkedIs
<1>3. "play" \notin Async /\ After("play") = "main"
  BY DEF Async, Errors, After
<1>4. /\ Quiet(Taken.unread) /\ Quiet(p.toClient) /\ p.toServer = <<>>
      /\ p.up => p.st = "main"
      /\ HasError(Taken.unread) => ~p.up
      /\ ErrorLast(Taken.unread)
  BY <1>3, TakenIs
<1> HIDE DEF d
<1>5. /\ ClientOK(JumpPlay(d)) /\ JumpPlay(d).sockfd = d.sockfd /\ JumpPlay(d).unread = d.unread
      /\ JumpPlay(d).crashed \/ AtMenu(JumpPlay(d))
  BY <1>2, <1>4, JumpPlayLands
<1>6. Good(JumpPlay(d), con)
  BY <1>1, <1>2, <1>4, <1>5, MenuGood
<1> QED
  BY <1>6 DEF d

LEMMA PromptTakenGood ==
  ASSUME NetInv, ~cl.crashed, Top.pc = "recv", cl.unread # <<>>, Head(cl.unread).k = "prompt"
  PROVE  Good(Now(Marked, "prompt"), con)
<1> DEFINE c == Marked
           n == Len(cl.stack)
           d == Now(c, "prompt")
           g == [Top EXCEPT !.pc = "prompt"]
           p == con[cl.sockfd]
<1>1. /\ LinesOK(con) /\ Len(con) \in Nat /\ ClientOK(cl) /\ BufferOK(cl) /\ Gaming(cl)
      /\ Last(cl.stack) = Top /\ LineOK(cl, p) /\ Top = cl.stack[n] /\ Top \in FrameType
      /\ FrameOK(cl, n) /\ cl.sockfd \in 1 .. Len(con) /\ cl.sockfd # 0
  BY Running, Busy DEF Top
<1>2. /\ ClientOK(c) /\ Shape(c) /\ Gaming(c)
      /\ c.stack = cl.stack /\ c.sockfd = cl.sockfd /\ c.inConn = cl.inConn
      /\ c.exs = cl.exs /\ c.crashed = cl.crashed /\ c.unread = Taken.unread
      /\ Top.key = "play" => c.playok /\ c.play = 2
  BY MarkedIs
<1>3. "prompt" \notin Async /\ After("prompt") = "wait"
  BY DEF Async, Errors, After
<1>4. /\ Quiet(Taken.unread) /\ Quiet(p.toClient) /\ p.toServer = <<>>
      /\ p.up => p.st = "wait"
      /\ HasError(Taken.unread) => ~p.up
      /\ ErrorLast(Taken.unread) /\ FitsIn(cl, Head(cl.unread))
  BY <1>3, TakenIs
<1>5. Top.call \in {"play", "exit"}
  <2>1. Top.call # "prompt"
    BY <1>1 DEF FrameType, Calls
  <2> QED
    BY <1>1, <1>4, <2>1 DEF FitsIn, Errors
<1>6. Top.call = "play" => c.playok /\ c.play = 2
  <2>1. Top.call = "play" /\ Top.key # "play" => Playing(Top)
    BY <1>1 DEF FrameOK, Playing
  <2>2. Playing(Top) => c.playok /\ c.play = 2
    <3>1. n \in 1 .. Len(c.stack) /\ c.stack[n] = Top
      BY <1>1, <1>2, ClientFacts
    <3> QED
      BY <1>2, <3>1 DEF Gaming
  <2> QED
    BY <1>2, <2>1, <2>2
<1> HIDE DEF c, g
<1>7. "prompt" \in Pcs /\ Len(c.stack) = n /\ c.stack[n] = Top
  BY <1>1, <1>2 DEF Pcs
<1>8. /\ ClientOK(d) /\ SameRest(c, d) /\ d.play = c.play
      /\ Len(d.stack) = n /\ d.stack[n] = g
      /\ \A i \in 1 .. n : i < n => d.stack[i] = cl.stack[i]
  <2> HIDE DEF n
  <2>1. /\ ClientOK(d) /\ SameRest(c, d) /\ d.play = c.play
        /\ Len(d.stack) = Len(c.stack)
        /\ d.stack[Len(c.stack)] = [c.stack[Len(c.stack)] EXCEPT !.pc = "prompt"]
        /\ \A i \in 1 .. Len(c.stack) : i < Len(c.stack) => d.stack[i] = c.stack[i]
    BY <1>2, <1>7, NowIs
  <2> QED
    BY <1>2, <1>7, <2>1 DEF g
<1>9. Shape(d) /\ Gaming(d)
  BY <1>2, <1>5, <1>6, <1>7, NowShape
<1>10. g.pc = "prompt" /\ g.call = Top.call /\ g.id = Top.id
  BY <1>1 DEF FrameType, g
<1> HIDE DEF d
<1>11. d.sockfd = cl.sockfd /\ d.unread = Taken.unread /\ Last(d.stack) = g
  BY <1>2, <1>8 DEF SameRest, Last
<1>12. BufferOK(d)
  BY <1>1, <1>4, <1>10, <1>11 DEF BufferOK
<1>13. n > 1 => d.stack[2].call = cl.stack[2].call /\ d.stack[2].id = cl.stack[2].id
  BY <1>1, <1>8, <1>10, SecondSame
<1>14. LineOK(d, p)
  <2>1. p.up /\ p.st \in {"game", "wait"} =>
          Len(cl.stack) > 1 /\ cl.stack[2].call = "play" /\ p.req = cl.stack[2].id
    BY <1>1 DEF LineOK
  <2>2. p.up /\ p.st \in {"game", "wait"} =>
          Len(d.stack) > 1 /\ d.stack[2].call = "play" /\ p.req = d.stack[2].id
    BY <1>8, <1>13, <2>1
  <2>3. Rest(d, p) /\ Waits(d, p)
    BY <1>4, <1>5, <1>10, <1>11 DEF Rest, Waits
  <2> QED
    BY <1>4, <1>11, <2>2, <2>3 DEF LineOK
<1>15. d.sockfd <= Len(con)
  BY <1>1, <1>11
<1>16. Good(d, con)
  BY <1>1, <1>8, <1>9, <1>11, <1>12, <1>14, <1>15 DEF Good
<1> QED
  BY <1>16 DEF d, c

LEMMA ReturnTakenGood ==
  ASSUME NetInv, ~cl.crashed, Top.pc = "recv", cl.unread # <<>>,
         Head(cl.unread).k = Top.call, Head(cl.unread).k \in {"create", "query"}
  PROVE  Good(Returned(Taken), con)
<1> DEFINE c == Taken
           n == Len(cl.stack)
           k == n - 1
           u == Unwind(c, k)
           d == [u EXCEPT !.exs = @ - 1]
           t == cl.stack[k]
           p == con[cl.sockfd]
<1>1. /\ LinesOK(con) /\ Len(con) \in Nat /\ ClientOK(cl) /\ Shape(cl)
      /\ LineOK(cl, p) /\ Top = cl.stack[n] /\ FrameOK(cl, n) /\ n \in Nat /\ n > 1
      /\ Last(cl.stack) = Top /\ cl.sockfd \in 1 .. Len(con) /\ cl.sockfd # 0
  BY Running, Busy DEF Top
<1>2. /\ ClientOK(c) /\ Shape(c) /\ Gaming(c)
      /\ c.stack = cl.stack /\ c.sockfd = cl.sockfd
      /\ c.exs = cl.exs /\ c.crashed = cl.crashed /\ c.unread \in Seq(MsgType)
  BY TakenIs
<1>3. Head(cl.unread).k \notin Async /\ After(Top.call) = IF Top.call = "query" THEN "wait" ELSE "main"
  BY DEF Async, Errors, After
<1>4. /\ Quiet(c.unread) /\ Quiet(p.toClient) /\ p.toServer = <<>>
      /\ p.up => p.st = After(Top.call)
      /\ HasError(c.unread) => ~p.up
      /\ ErrorLast(c.unread)
  BY <1>3, TakenIs
<1>5. /\ k \in 1 .. n /\ k \in Nat /\ k >= 1 /\ k < n /\ k + 1 = n /\ k \in 1 .. k
      /\ k \in 1 .. Len(c.stack)
  BY <1>1, <1>2
<1>6. FrameOK(cl, k)
  BY <1>1, <1>5 DEF Shape
<1>7. /\ t.pc = "prompt"
      /\ Top.call = "create" => n = 2 /\ t.call = "menu"
      /\ Top.call = "query" => n = 3 /\ t.call = "play"
      /\ cl.exs >= n - 1
  <2>1. Suspended(t, Top)
    BY <1>1, <1>5, <1>6 DEF FrameOK
  <2>2. Top.cont \in {"none", "user"}
    BY <1>1 DEF FrameOK
  <2>3. t.pc = "prompt"
    BY <2>1, <2>2 DEF Suspended
  <2>4. Top.call = "create" => n = 2
    BY <1>1 DEF FrameOK
  <2>5. Top.call = "query" => n = 3 /\ cl.stack[2].call = "play"
    BY <1>1 DEF FrameOK
  <2>6. Top.call = "create" => k = 1
    BY <2>4
  <2>7. Top.call = "query" => k = 2
    BY <2>5
  <2>8. cl.exs >= n - 1
    BY <1>1 DEF FrameOK
  <2> QED
    BY <1>6, <2>3, <2>4, <2>5, <2>6, <2>7, <2>8 DEF FrameOK
<1>8. cl.exs \in Nat /\ cl.exs - 1 \in 0 .. MaxCalls /\ cl.exs - 1 >= k - 1 /\ cl.exs - 1 <= cl.calls
      /\ Len(c.stack) - 2 = k - 1
  <2>1. cl.exs \in 0 .. MaxCalls /\ cl.exs <= cl.calls /\ cl.calls \in Nat /\ MaxCalls \in Nat
    BY <1>1, NetAssumption DEF ClientOK, ClientType
  <2>2. cl.exs >= k
    BY <1>7
  <2>3. k \in Nat /\ k >= 1 /\ Len(c.stack) - 2 = k - 1
    BY <1>1, <1>2, <1>5
  <2> HIDE DEF k, c
  <2> QED
    BY <2>1, <2>2, <2>3
<1>9. Returned(c) = d
  BY <1>2 DEF Returned
<1> HIDE DEF c
<1>10. /\ ClientOK(u) /\ SameRest(c, u) /\ Len(u.stack) = k
       /\ \A i \in 1 .. k : u.stack[i] = c.stack[i]
       /\ u.play = IF c.play <= k THEN c.play ELSE 0
  BY <1>2, <1>5, UnwindIs
<1> HIDE DEF u
<1>11. u.exs = cl.exs /\ u.sockfd = cl.sockfd /\ u.unread = c.unread /\ u.playok = c.playok
       /\ u.crashed = c.crashed /\ u.calls = c.calls /\ c.calls = cl.calls
  BY <1>1, <1>2, <1>10 DEF SameRest, c, Taken, ClientOK, ClientType
<1>12. /\ ClientOK(d) /\ d.stack = u.stack /\ d.unread = u.unread /\ d.play = u.play
       /\ d.exs = u.exs - 1 /\ d.playok = u.playok /\ d.sockfd = u.sockfd
  <2>1. u.exs - 1 \in 0 .. MaxCalls /\ u.exs - 1 <= u.calls
    BY <1>8, <1>11
  <2> QED
    BY <1>10, <2>1 DEF ClientOK, ClientType
<1> HIDE DEF d
<1>13. Len(d.stack) = k /\ \A i \in 1 .. k : d.stack[i] = cl.stack[i]
  BY <1>2, <1>10, <1>12
<1>14. Shape(d) /\ Gaming(d)
  <2>1. d.exs \in Nat /\ d.exs >= Len(c.stack) - 2
    BY <1>8, <1>11, <1>12
  <2>2. Len(d.stack) = Len(c.stack) - 1 /\ \A i \in 1 .. (Len(c.stack) - 1) : d.stack[i] = c.stack[i]
    BY <1>2, <1>13
  <2>3. d.play = IF c.play <= Len(c.stack) - 1 THEN c.play ELSE 0
    BY <1>2, <1>10, <1>12
  <2>4. Len(c.stack) > 1 /\ d.playok = c.playok
    BY <1>1, <1>2, <1>11, <1>12
  <2> QED
    BY <1>2, <2>1, <2>2, <2>3, <2>4, PopShape
<1>15. Last(d.stack) = t /\ d.sockfd = cl.sockfd /\ d.unread = c.unread
  BY <1>5, <1>11, <1>12, <1>13 DEF Last
<1>16. BufferOK(d)
  BY <1>1, <1>4, <1>7, <1>15 DEF BufferOK
<1>17. LineOK(d, p)
  <2>1. /\ p.up /\ p.st \in {"game", "wait"} => cl.stack[2].call = "play" /\ p.req = cl.stack[2].id
    BY <1>1 DEF LineOK
  <2>2. p.up /\ p.st \in {"game", "wait"} => k = 2
    BY <1>3, <1>4, <1>7
  <2>3. k = 2 => Len(d.stack) > 1 /\ d.stack[2] = cl.stack[2]
    <3>1. 2 > 1 /\ 2 \in 1 .. 2
      OBVIOUS
    <3> QED
      BY <1>13, <3>1
  <2>4. Rest(d, p) /\ Waits(d, p)
    BY <1>3, <1>4, <1>7, <1>15 DEF Rest, Waits
  <2> QED
    BY <1>4, <1>15, <2>1, <2>2, <2>3, <2>4 DEF LineOK
<1>18. d.sockfd <= Len(con)
  BY <1>1, <1>15
<1>19. Good(d, con)
  BY <1>1, <1>12, <1>14, <1>15, <1>16, <1>17, <1>18 DEF Good
<1> QED
  BY <1>9, <1>19 DEF c

LEMMA ReceiveGood ==
  ASSUME NetInv, Receive
  PROVE  Good(cl', con')
<1> DEFINE m == Head(cl.unread)
           c == Taken
           d == Marked
           n == Len(cl.stack)
           p == con[cl.sockfd]
<1>1. ~cl.crashed /\ Top.pc = "recv" /\ cl.unread # <<>>
  BY DEF Receive, At
<1>2. /\ LinesOK(con) /\ Len(con) \in Nat /\ ClientOK(cl) /\ Top = cl.stack[n] /\ n > 1 /\ n \in Nat
      /\ cl.sockfd \in 1 .. Len(con) /\ cl.sockfd # 0 /\ FrameOK(cl, n)
  BY <1>1, Running, Busy
<1>3. /\ ClientOK(c) /\ Shape(c) /\ Gaming(c)
      /\ c.stack = cl.stack /\ c.sockfd = cl.sockfd /\ c.inConn = cl.inConn
      /\ c.exs = cl.exs /\ c.play = cl.play /\ c.playok = cl.playok /\ c.crashed = cl.crashed
      /\ ErrorLast(c.unread)
      /\ m.k \in Errors => Quiet(c.unread)
      /\ m.k \notin Async => /\ Quiet(c.unread) /\ Quiet(p.toClient) /\ p.toServer = <<>>
                             /\ p.st # "game" /\ (p.up => p.st = After(m.k))
                             /\ HasError(c.unread) => ~p.up
  BY <1>1, TakenIs
<1>4. /\ ClientOK(d) /\ Shape(d) /\ Gaming(d)
      /\ d.stack = cl.stack /\ d.sockfd = cl.sockfd /\ d.unread = c.unread /\ d.crashed = cl.crashed
  BY <1>1, MarkedIs
<1>5. \/ m.k = "cancel" /\ cl' = [c EXCEPT !.cancelled = TRUE] /\ UNCHANGED con
      \/ m.k = "play" /\ cl' = JumpPlay(d) /\ UNCHANGED con
      \/ m.k = Top.call /\ m.k \in {"create", "query"} /\ cl' = Returned(c) /\ UNCHANGED con
      \/ /\ m.k = "auth" /\ Top.call = "auth"
         /\ cl' = Restarted(NoAnswer(c), Top.cont)
         /\ con' = IF Top.cont = "error" /\ ~c.playok THEN Closed(con, c.sockfd) ELSE con
      \/ /\ m.k = "shutdown" /\ Top.call = "shutdown"
         /\ cl' = [NoAnswer(c) EXCEPT !.sockfd = 0]
         /\ con' = Closed(con, c.sockfd)
      \/ m.k = "prompt" /\ cl' = Now(d, "prompt") /\ UNCHANGED con
      \/ m.k \in Errors /\ Restart(d, IF m.k = "quit" THEN "again" ELSE "error")
  BY DEF Receive, Handle, Taken, Marked
<1> HIDE DEF c, d
<1>6. CASE m.k = "cancel" /\ cl' = [c EXCEPT !.cancelled = TRUE] /\ UNCHANGED con
  BY <1>1, <1>6, CancelTakenGood DEF c
<1>7. CASE m.k = "play" /\ cl' = JumpPlay(d) /\ UNCHANGED con
  BY <1>1, <1>7, PlayTakenGood DEF d
<1>8. CASE m.k = Top.call /\ m.k \in {"create", "query"} /\ cl' = Returned(c) /\ UNCHANGED con
  BY <1>1, <1>8, ReturnTakenGood DEF c
<1>9. CASE /\ m.k = "auth" /\ Top.call = "auth"
           /\ cl' = Restarted(NoAnswer(c), Top.cont)
           /\ con' = IF Top.cont = "error" /\ ~c.playok THEN Closed(con, c.sockfd) ELSE con
  <2>1. "auth" \notin Async /\ After("auth") = "main"
    BY DEF Async, Errors, After
  <2>2. /\ Top.cont = "error" /\ ~c.playok => con' = Closed(con, c.sockfd)
        /\ ~(Top.cont = "error" /\ ~c.playok) => con' = con
    BY <1>9
  <2>3. c.stack[Len(c.stack)] = Top
    BY <1>2, <1>3
  <2>4. /\ Quiet(c.unread) /\ Quiet(p.toClient) /\ p.toServer = <<>>
        /\ p.up => p.st = "main"
        /\ HasError(c.unread) => ~p.up
    BY <1>3, <1>9, <2>1
  <2> HIDE DEF p
  <2>5. p = con[c.sockfd]
    BY <1>3 DEF p
  <2>6. c.sockfd \in 1 .. Len(con) /\ ~c.crashed
    BY <1>1, <1>2, <1>3
  <2> QED
    BY <1>2, <1>3, <1>9, <2>2, <2>3, <2>4, <2>5, <2>6, RestartedGood
<1>10. CASE /\ m.k = "shutdown" /\ Top.call = "shutdown"
            /\ cl' = [NoAnswer(c) EXCEPT !.sockfd = 0]
            /\ con' = Closed(con, c.sockfd)
  <2> DEFINE e == NoAnswer(c)
             f == [e EXCEPT !.sockfd = 0]
  <2>1. "shutdown" \notin Async
    BY DEF Async, Errors
  <2>2. n = 2 /\ Quiet(c.unread)
    BY <1>2, <1>3, <1>10, <2>1 DEF FrameOK
  <2>3. /\ ClientOK(e) /\ Shape(e) /\ e.unread = c.unread /\ Len(e.stack) = 1
        /\ e.stack[1] = cl.stack[1]
    <3>1. Len(c.stack) > 1 /\ Len(c.stack) - 1 = 1 /\ 1 \in 1 .. 1
      BY <1>2, <1>3, <2>2
    <3>2. /\ ClientOK(e) /\ Shape(e) /\ e.unread = c.unread /\ Len(e.stack) = Len(c.stack) - 1
          /\ \A i \in 1 .. (Len(c.stack) - 1) : e.stack[i] = c.stack[i]
      BY <1>3, <3>1, NoAnswerIs
    <3> QED
      BY <1>3, <3>1, <3>2
  <2> HIDE DEF e
  <2>4. AtMenu(e)
    <3>1. ClientOK(cl) /\ Shape(cl) /\ Len(cl.stack) > 1
      BY <1>1, <1>2, Running
    <3> QED
      BY <1>3, <2>2, <2>3, <3>1, MenuBelow DEF AtMenu
  <2>5. ClientOK(f) /\ f.sockfd = 0 /\ f.stack = e.stack /\ f.unread = e.unread
    <3>1. 0 \in 0 .. MaxConns
      BY NetAssumption
    <3> QED
      BY <2>3, <3>1 DEF ClientOK, ClientType
  <2>6. cl' = f
    BY <1>10 DEF e
  <2> HIDE DEF f
  <2>7. Settled(f)
    BY <2>4, <2>5 DEF Settled, AtMenu
  <2>8. LinesOK(con')
    <3>1. c.sockfd \in 0 .. Len(con)
      BY <1>2, <1>3
    <3> QED
      BY <1>2, <1>10, <3>1, ClosedOK
  <2> QED
    BY <2>6, <2>7, <2>8, SettledGood
<1>11. CASE m.k = "prompt" /\ cl' = Now(d, "prompt") /\ UNCHANGED con
  BY <1>1, <1>11, PromptTakenGood DEF d
<1>12. CASE m.k \in Errors /\ Restart(d, IF m.k = "quit" THEN "again" ELSE "error")
  <2> DEFINE x == IF m.k = "quit" THEN "again" ELSE "error"
  <2>1. Restart(d, x) /\ x \in {"again", "error"}
    BY <1>12
  <2>2. /\ Quiet(d.unread) /\ ErrorLast(d.unread) /\ Len(d.stack) > 1
        /\ d.stack[Len(d.stack)].pc = "recv" /\ d.sockfd \in 1 .. Len(con)
    BY <1>1, <1>2, <1>3, <1>4, <1>12
  <2> HIDE DEF x
  <2> QED
    BY <1>2, <1>4, <2>1, <2>2, RestartGood
<1> QED
  BY <1>5, <1>6, <1>7, <1>8, <1>9, <1>10, <1>11, <1>12

-----------------------------------------------------------------------------
\* The server processes

\* The invariant after a step of a server process or of the network
LEMMA ServerStep ==
  ASSUME NetInv, cl' = cl, NEW s \in 1 .. Len(con), NEW q \in ConType, ServerOK(q),
         con' = [con EXCEPT ![s] = q], ~cl.crashed /\ s = cl.sockfd => LineOK(cl, q)
  PROVE  Good(cl', con')
<1>1. LinesOK(con) /\ Good(cl, con)
  BY DEF NetInv, Good
<1>2. LinesOK(con') /\ Len(con') = Len(con) /\ con'[s] = q
  <2> DEFINE es == [con EXCEPT ![s] = q]
  <2>1. LinesOK(es)
    BY <1>1, SetLine
  <2>2. Len(es) = Len(con)
    BY <1>1, SetLine
  <2>3. es[s] = q
    <3>1. con \in Seq(ConType)
      BY <1>1 DEF LinesOK
    <3> HIDE DEF ConType
    <3> QED
      BY <3>1
  <2> HIDE DEF es
  <2>4. con' = es
    BY DEF es
  <2> QED
    BY <2>1, <2>2, <2>3, <2>4
<1>3. \A i \in 1 .. Len(con) : i # s => con'[i] = con[i]
  <2>1. con \in Seq(ConType)
    BY <1>1 DEF LinesOK
  <2> HIDE DEF ConType
  <2> QED
    BY <2>1, ExceptSeq
<1>4. cl.sockfd # 0 => cl.sockfd \in 1 .. Len(con)
  <2>1. cl.sockfd \in Nat /\ cl.sockfd <= Len(con) /\ Len(con) \in Nat
    BY <1>1 DEF Good, LinesOK, ClientOK, ClientType
  <2> QED
    BY <2>1
<1>5. ASSUME ~cl.crashed, cl.sockfd # 0 PROVE LineOK(cl, con'[cl.sockfd])
  <2>1. CASE s = cl.sockfd
    BY <1>2, <1>5, <2>1
  <2>2. CASE s # cl.sockfd
    <3>1. con'[cl.sockfd] = con[cl.sockfd]
      BY <1>3, <1>4, <1>5, <2>2
    <3> QED
      BY <1>1, <1>5, <3>1 DEF Good
  <2> QED
    BY <2>1, <2>2
<1> QED
  BY <1>1, <1>2, <1>5 DEF Good

\* A line that is down, or goes down, and on which less is on its way than before.
LEMMA LineDown ==
  ASSUME NEW c, NEW p, LineOK(c, p), NEW q, ~q.up,
         \/ q.toServer = p.toServer \/ q.toServer = <<>>
         \/ q.toServer # <<>> /\ p.toServer # <<>> /\ q.toServer[1] = p.toServer[1],
         q.st # "game" \/ q.st = p.st \/ p.toServer # <<>>,
         Quiet(p.toClient) => Quiet(q.toClient),
         OnlyReply(p.toClient) => OnlyReply(q.toClient),
         \A i \in 1 .. Len(q.toClient) : i \in 1 .. Len(p.toClient) /\ q.toClient[i] = p.toClient[i],
         ToSet(q.toClient) \subseteq ToSet(p.toClient)
  PROVE  LineOK(c, q)
<1>1. Rest(c, q)
  BY DEF LineOK, Rest
<1>2. Waits(c, q)
  <2> DEFINE t == Last(c.stack)
  <2> SUFFICES ASSUME t.pc = "recv"
               PROVE  /\ q.toServer # <<>> => q.toServer[1] = Msg(t.key, t.id)
                      /\ \A i \in 1 .. Len(q.toClient) : FitsIn(c, q.toClient[i])
                      /\ OnlyReply(q.toClient)
                      /\ Quiet(c.unread) \/ Quiet(q.toClient)
                      /\ \A m \in ToSet(c.unread) \cup ToSet(q.toClient) :
                           m.k \notin Async => q.toServer = <<>> /\ q.st # "game"
    BY DEF Waits
  <2>1. /\ p.toServer # <<>> => p.toServer[1] = Msg(t.key, t.id)
        /\ \A i \in 1 .. Len(p.toClient) : FitsIn(c, p.toClient[i])
        /\ OnlyReply(p.toClient)
        /\ Quiet(c.unread) \/ Quiet(p.toClient)
        /\ \A m \in ToSet(c.unread) \cup ToSet(p.toClient) :
             m.k \notin Async => p.toServer = <<>> /\ p.st # "game"
    BY DEF LineOK, Waits
  <2> HIDE DEF t
  <2>2. q.toServer # <<>> => q.toServer[1] = Msg(t.key, t.id)
    BY <2>1
  <2>3. \A i \in 1 .. Len(q.toClient) : FitsIn(c, q.toClient[i])
    BY <2>1
  <2>4. \A m \in ToSet(c.unread) \cup ToSet(q.toClient) :
          m.k \notin Async => q.toServer = <<>> /\ q.st # "game"
    <3>1. \A m \in ToSet(c.unread) \cup ToSet(q.toClient) : m \in ToSet(c.unread) \cup ToSet(p.toClient)
      OBVIOUS
    <3> QED
      BY <2>1, <3>1
  <2> QED
    BY <2>1, <2>2, <2>3, <2>4
<1> QED
  BY <1>1, <1>2 DEF LineOK

LEMMA AppendIs ==
  ASSUME NEW tc \in Seq(MsgType), NEW m \in MsgType
  PROVE  LET a == Append(tc, m)
         IN  /\ a \in Seq(MsgType)
             /\ \A i \in 1 .. Len(a) : a[i] = m \/ (i \in 1 .. Len(tc) /\ a[i] = tc[i])
             /\ Quiet(a) <=> Quiet(tc) /\ m.k \in Async
             /\ ~HasError(tc) => ErrorLast(a)
             /\ HasError(a) => HasError(tc) \/ m.k \in Errors
             /\ Quiet(tc) => OnlyReply(a)
             /\ OnlyReply(tc) /\ m.k \in Async => OnlyReply(a)
             /\ \A x \in ToSet(a) : x \in ToSet(tc) \/ x = m
<1> DEFINE a == Append(tc, m)
           n == Len(tc)
<1> HIDE DEF MsgType
<1>1. n \in Nat /\ DOMAIN tc = 1 .. n
  OBVIOUS
<1>2. a \in Seq(MsgType) /\ Len(a) = n + 1 /\ (\A i \in 1 .. n : a[i] = tc[i]) /\ a[n + 1] = m
  BY AppendProperties
<1> HIDE DEF a
<1>3. /\ \A i \in 1 .. Len(a) : i \in 1 .. n \/ i = n + 1
      /\ \A i \in 1 .. n : i \in 1 .. Len(a) /\ i # n + 1
      /\ n + 1 \in 1 .. Len(a)
      /\ DOMAIN a = 1 .. Len(a)
  BY <1>1, <1>2
<1> HIDE DEF n
<1>4. \A i \in 1 .. Len(a) : a[i] = m \/ (i \in 1 .. n /\ a[i] = tc[i])
  BY <1>2, <1>3
<1>5. Quiet(a) <=> Quiet(tc) /\ m.k \in Async
  <2>1. Quiet(a) => Quiet(tc) /\ m.k \in Async
    BY <1>2, <1>3 DEF Quiet, n
  <2>2. Quiet(tc) /\ m.k \in Async => Quiet(a)
    BY <1>4 DEF Quiet, n
  <2> QED
    BY <2>1, <2>2
<1>6. ~HasError(tc) => ErrorLast(a)
  BY <1>2, <1>3 DEF HasError, ErrorLast, n
<1>7. HasError(a) => HasError(tc) \/ m.k \in Errors
  BY <1>4 DEF HasError, n
<1>8. Quiet(tc) => OnlyReply(a)
  BY <1>2, <1>3 DEF Quiet, OnlyReply, n
<1>9. OnlyReply(tc) /\ m.k \in Async => OnlyReply(a)
  BY <1>2, <1>3 DEF OnlyReply, n
<1>10. \A x \in ToSet(a) : x \in ToSet(tc) \/ x = m
  BY <1>1, <1>3, <1>4 DEF ToSet
<1> QED
  BY <1>2, <1>4, <1>5, <1>6, <1>7, <1>8, <1>9, <1>10 DEF a, n

LEMMA ClientMsgIs ==
  ASSUME NEW u \in ConType, u.can, NEW m \in MsgType
  PROVE  LET r == ClientMsg(u, m)
         IN  /\ r \in ConType /\ r.up = u.up /\ r.toServer = u.toServer /\ r.gap = u.gap
             /\ r.req = u.req
             /\ ~u.up => r.toClient = u.toClient /\ r.st = "gone"
             /\ u.up => r.toClient = Append(u.toClient, m) /\ r.st = u.st
<1> DEFINE a == Append(u.toClient, m)
<1>1. a \in Seq(MsgType)
  <2>1. u.toClient \in Seq(MsgType)
    BY DEF ConType
  <2> HIDE DEF MsgType
  <2> QED
    BY <2>1, AppendProperties
<1> HIDE DEF a
<1>2. CASE ~u.up
  <2>1. ClientMsg(u, m) = [u EXCEPT !.st = "gone"]
    BY <1>2 DEF ClientMsg
  <2> QED
    BY <1>2, <2>1 DEF ConType
<1>3. CASE u.up
  <2>1. ClientMsg(u, m) = [u EXCEPT !.toClient = a, !.can = FALSE]
    BY <1>3 DEF ClientMsg, a
  <2>2. LET r == [u EXCEPT !.toClient = a, !.can = FALSE]
        IN  /\ r \in ConType /\ r.up = u.up /\ r.toServer = u.toServer /\ r.gap = u.gap
            /\ r.req = u.req /\ r.toClient = a /\ r.st = u.st
    BY <1>1 DEF ConType
  <2> QED
    BY <1>3, <2>1, <2>2 DEF a
<1> QED
  BY <1>2, <1>3

LEMMA TurnIs ==
  ASSUME NEW p \in ConType, ServerOK(p), p.toServer # <<>>
  PROVE  LET u == Turn(p)
         IN  /\ u \in ConType /\ u.toServer = <<>> /\ u.can
             /\ u.up = p.up /\ u.gap = p.gap /\ u.req = p.req /\ u.st = p.st
             /\ u.toClient = p.toClient
             /\ Head(p.toServer) = p.toServer[1] /\ p.toServer[1] \in MsgType
<1>1. p.toServer \in Seq(MsgType) /\ Len(p.toServer) <= 1
  BY DEF ConType, ServerOK
<1> DEFINE t == Tail(p.toServer)
<1>2. /\ t = <<>> /\ t \in Seq(MsgType) /\ Head(p.toServer) = p.toServer[1]
      /\ p.toServer[1] \in MsgType
  <2>1. /\ t \in Seq(MsgType) /\ Head(p.toServer) = p.toServer[1] /\ p.toServer[1] \in MsgType
        /\ Len(p.toServer) \in Nat /\ Len(p.toServer) >= 1 /\ Len(t) = Len(p.toServer) - 1
    BY <1>1, TailIs
  <2> HIDE DEF t, MsgType
  <2>2. Len(t) = 0
    <3>1. \A k \in Nat : k <= 1 /\ k >= 1 => k - 1 = 0
      OBVIOUS
    <3> QED
      BY <1>1, <2>1, <3>1, Zenon
  <2>3. t = <<>>
    BY <2>1, <2>2, EmptySeq
  <2> QED
    BY <2>1, <2>3
<1> HIDE DEF t
<1>3. Turn(p) = [p EXCEPT !.toServer = t, !.can = TRUE]
  BY DEF Turn, t
<1> QED
  BY <1>2, <1>3 DEF ConType

\* What the server process makes of a request that has come: it answers, or the game runs.
AnsweredWith(p, q) ==
  LET m == p.toServer[1] IN
  /\ q.toServer = <<>> /\ q.gap = p.gap
  /\ m.k \in {"auth", "create", "query", "shutdown", "play", "answer", "exit"}
  /\ ~p.up => ~q.up /\ q.toClient = p.toClient
  /\ p.up /\ m.k \in {"auth", "create", "query", "shutdown"} =>
       /\ q.toClient = Append(p.toClient, m) /\ q.st # "game" /\ q.req = p.req
       /\ q.up => q.st = After(m.k)
       /\ q.st = "wait" => p.st = "wait"
  /\ p.up /\ m.k \in {"play", "answer", "exit"} =>
       /\ q.up /\ q.toClient = p.toClient /\ q.st = "game"
       /\ m.k = "play" => q.req = m.id
       /\ m.k # "play" => p.st = "wait" /\ q.req = p.req

LEMMA ServeIs ==
  ASSUME NEW p \in ConType, ServerOK(p), p.toServer # <<>>, p.st \in {"auth", "main", "wait"}
  PROVE  LET q == Serve(Turn(p), Head(p.toServer))
         IN  q \in ConType /\ ServerOK(q) /\ AnsweredWith(p, q)
<1> DEFINE u == Turn(p)
           m == p.toServer[1]
           q == Serve(u, m)
<1>1. /\ u \in ConType /\ u.toServer = <<>> /\ u.can
      /\ u.up = p.up /\ u.gap = p.gap /\ u.req = p.req /\ u.st = p.st /\ u.toClient = p.toClient
      /\ Head(p.toServer) = m /\ m \in MsgType
  BY TurnIs
<1>2. /\ p.st = "auth" => m.k = "auth"
      /\ p.st = "main" => m.k \in {"play", "create", "shutdown"}
      /\ p.st = "wait" => m.k \in {"answer", "exit", "query"}
      /\ m.k = "play" => m.id \in 0 .. MaxCalls
      /\ ErrorLast(p.toClient) /\ (HasError(p.toClient) => ~p.up)
  BY DEF ServerOK
<1> HIDE DEF u, m
<1>3. ASSUME NEW w \in ConType, w.can, w.toServer = <<>>, w.up = p.up, w.gap = p.gap,
             w.req = p.req, w.st \notin {"game", "gone", "bad"}, w.toClient = p.toClient,
             NEW r \in ConType, r.toServer = <<>>, r.gap = p.gap, r.req = p.req,
             r.toClient = ClientMsg(w, m).toClient, r.up => ClientMsg(w, m).up,
             r.st = ClientMsg(w, m).st \/ (r.st = "gone" /\ ~r.up),
             m.k \in {"auth", "create", "query", "shutdown"},
             w.st = After(m.k) \/ ~r.up, r.st = "wait" => p.st = "wait"
      PROVE  ServerOK(r) /\ AnsweredWith(p, r)
  <2> DEFINE x == ClientMsg(w, m)
  <2>1. /\ x.up = p.up
        /\ ~p.up => x.toClient = p.toClient /\ x.st = "gone"
        /\ p.up => x.toClient = Append(p.toClient, m) /\ x.st = w.st
    BY <1>1, <1>3, ClientMsgIs
  <2> HIDE DEF x
  <2>2. r.toClient = x.toClient /\ (r.up => x.up) /\ (r.st = x.st \/ (r.st = "gone" /\ ~r.up))
    BY <1>3 DEF x
  <2>3. p.toClient \in Seq(MsgType) /\ m.k \notin Errors
    BY <1>3 DEF ConType, Errors
  <2>4. p.up => ErrorLast(r.toClient) /\ ~HasError(r.toClient)
    <3> DEFINE a == Append(p.toClient, m)
    <3>1. /\ ~HasError(p.toClient) => ErrorLast(a)
          /\ HasError(a) => HasError(p.toClient) \/ m.k \in Errors
      BY <1>1, <2>3, AppendIs
    <3>2. p.up => r.toClient = a
      BY <2>1, <2>2
    <3> HIDE DEF a
    <3> QED
      BY <1>2, <2>3, <3>1, <3>2
  <2>5. ErrorLast(r.toClient) /\ (HasError(r.toClient) => ~r.up)
    BY <1>2, <2>1, <2>2, <2>4
  <2>6. r.st # "bad" /\ r.st # "game" /\ (r.st = "gone" => ~r.up)
    BY <1>3, <2>1, <2>2
  <2>7. ServerOK(r)
    BY <1>3, <2>5, <2>6 DEF ServerOK
  <2>8. AnsweredWith(p, r)
    BY <1>3, <2>1, <2>2, <2>6 DEF AnsweredWith, m
  <2> QED
    BY <2>7, <2>8
<1>4. ASSUME NEW r \in ConType, r.toServer = <<>>, r.up = p.up, r.gap = p.gap, r.can,
             r.toClient = p.toClient, r.st = "game", m.k \in {"play", "answer", "exit"},
             m.k = "play" => r.req = m.id, m.k # "play" => p.st = "wait" /\ r.req = p.req
      PROVE  ServerOK(r) /\ AnsweredWith(p, r)
  <2>1. ServerOK(r)
    BY <1>2, <1>4 DEF ServerOK
  <2>2. AnsweredWith(p, r)
    BY <1>4 DEF AnsweredWith, m
  <2> QED
    BY <2>1, <2>2
<1>5. p.st = "auth" => q \in ConType /\ ServerOK(q) /\ AnsweredWith(p, q)
  <2> SUFFICES ASSUME p.st = "auth" PROVE q \in ConType /\ ServerOK(q) /\ AnsweredWith(p, q)
    OBVIOUS
  <2> DEFINE w == [u EXCEPT !.st = "main"]
  <2>1. q = ClientMsg(w, m) /\ m.k = "auth"
    BY <1>1, <1>2 DEF Serve
  <2>2. w \in ConType /\ w.can /\ w.toServer = <<>> /\ w.up = p.up /\ w.gap = p.gap
        /\ w.req = p.req /\ w.st = "main" /\ w.toClient = p.toClient
    BY <1>1 DEF ConType
  <2> HIDE DEF w, q
  <2>3. q \in ConType /\ q.toServer = <<>> /\ q.gap = p.gap /\ q.req = p.req
        /\ (q.st = "main" \/ q.st = "gone")
    BY <1>1, <2>1, <2>2, ClientMsgIs
  <2>4. "main" = After("auth")
    BY DEF After
  <2> QED
    BY <1>3, <2>1, <2>2, <2>3, <2>4
<1>6. p.st \in {"main", "wait"} /\ m.k \in {"create", "query"} =>
        q \in ConType /\ ServerOK(q) /\ AnsweredWith(p, q)
  <2> SUFFICES ASSUME p.st \in {"main", "wait"}, m.k \in {"create", "query"}
               PROVE  q \in ConType /\ ServerOK(q) /\ AnsweredWith(p, q)
    OBVIOUS
  <2>1. q = ClientMsg(u, m) /\ u.st = After(m.k)
    BY <1>1, <1>2 DEF Serve, After
  <2> HIDE DEF q
  <2>2. q \in ConType /\ q.toServer = <<>> /\ q.gap = p.gap /\ q.req = p.req
        /\ (q.st = "wait" => p.st = "wait")
    BY <1>1, <2>1, ClientMsgIs
  <2> QED
    BY <1>1, <1>3, <2>1, <2>2
<1>7. p.st = "main" /\ m.k = "shutdown" => q \in ConType /\ ServerOK(q) /\ AnsweredWith(p, q)
  <2> SUFFICES ASSUME p.st = "main", m.k = "shutdown"
               PROVE  q \in ConType /\ ServerOK(q) /\ AnsweredWith(p, q)
    OBVIOUS
  <2> DEFINE x == ClientMsg(u, m)
  <2>1. q = [x EXCEPT !.up = FALSE, !.st = "gone"]
    BY <1>1, <1>2 DEF Serve
  <2>2. x \in ConType /\ x.toServer = <<>> /\ x.gap = p.gap /\ x.req = p.req
    BY <1>1, ClientMsgIs
  <2> HIDE DEF x, q
  <2>3. q \in ConType /\ q.toServer = <<>> /\ q.gap = p.gap /\ q.req = p.req
        /\ q.toClient = x.toClient /\ q.st = "gone" /\ ~q.up
    BY <2>1, <2>2 DEF ConType
  <2> QED
    BY <1>1, <1>3, <2>3 DEF x
<1>8. p.st \in {"main", "wait"} /\ m.k \in {"play", "answer", "exit"} =>
        q \in ConType /\ ServerOK(q) /\ AnsweredWith(p, q)
  <2> SUFFICES ASSUME p.st \in {"main", "wait"}, m.k \in {"play", "answer", "exit"}
               PROVE  q \in ConType /\ ServerOK(q) /\ AnsweredWith(p, q)
    OBVIOUS
  <2> DEFINE y == IF m.k = "play" THEN m.id ELSE u.req
             v == [u EXCEPT !.st = "game", !.req = y]
  <2>1. m.k = "play" => p.st = "main"
    BY <1>2
  <2>2. m.k # "play" => p.st = "wait"
    BY <1>2
  <2>3. q = v
    <3>1. m.k = "play" => q = [u EXCEPT !.st = "game", !.req = m.id]
      BY <1>1, <2>1 DEF Serve
    <3>2. m.k # "play" => q = [u EXCEPT !.st = "game"]
      BY <1>1, <2>2 DEF Serve
    <3>3. [u EXCEPT !.st = "game"] = [u EXCEPT !.st = "game", !.req = u.req]
      BY <1>1 DEF ConType
    <3> QED
      BY <3>1, <3>2, <3>3
  <2>4. y \in 0 .. MaxCalls
    BY <1>1, <1>2 DEF ConType
  <2> HIDE DEF y, q
  <2>5. v \in ConType /\ v.toServer = <<>> /\ v.up = p.up /\ v.gap = p.gap /\ v.can
        /\ v.toClient = p.toClient /\ v.st = "game" /\ v.req = y
    BY <1>1, <2>4 DEF ConType
  <2> HIDE DEF v
  <2>6. (m.k = "play" => v.req = m.id) /\ (m.k # "play" => p.st = "wait" /\ v.req = p.req)
    BY <1>1, <2>2, <2>5 DEF y
  <2> QED
    BY <1>4, <2>3, <2>5, <2>6
<1>9. q \in ConType /\ ServerOK(q) /\ AnsweredWith(p, q)
  BY <1>2, <1>5, <1>6, <1>7, <1>8
<1>10. Serve(Turn(p), Head(p.toServer)) = q
  BY <1>1 DEF u
<1> HIDE DEF q
<1> QED
  BY <1>9, <1>10

\* An answer that the client waits for: the request is done, and nothing else is under way.
LEMMA ReplyKeeps ==
  ASSUME NEW c, NEW p, LineOK(c, p), NEW q, NEW m \in MsgType, p.toClient \in Seq(MsgType),
         c.unread \in Seq(MsgType), p.up,
         Last(c.stack).pc \in {"recv", "fail"}, q.toServer = <<>>, q.toClient = Append(p.toClient, m),
         ~HasError(c.unread) \/ ~q.up \/ (Last(c.stack).call = "auth" /\ Quiet(c.unread)),
         q.up /\ q.st = "wait" /\ Last(c.stack).pc # "fail" =>
           Len(c.stack) > 1 /\ c.stack[2].call = "play" /\ q.req = c.stack[2].id,
         q.st # "game", q.up => q.st = After(m.k), m.k \notin Async,
         Last(c.stack).pc = "recv" => Quiet(c.unread) /\ Quiet(p.toClient) /\ FitsIn(c, m)
  PROVE  LineOK(c, q)
<1> DEFINE t == Last(c.stack)
           a == Append(p.toClient, m)
<1>1. Rest(c, q)
  BY DEF Rest
<1>2. ASSUME t.pc = "recv" PROVE Waits(c, q)
  <2>1. Quiet(c.unread) /\ Quiet(p.toClient) /\ FitsIn(c, m)
    BY <1>2
  <2>2. /\ a \in Seq(MsgType)
        /\ \A i \in 1 .. Len(a) : a[i] = m \/ (i \in 1 .. Len(p.toClient) /\ a[i] = p.toClient[i])
        /\ Quiet(a) <=> Quiet(p.toClient) /\ m.k \in Async
        /\ Quiet(p.toClient) => OnlyReply(a)
        /\ \A x \in ToSet(a) : x \in ToSet(p.toClient) \/ x = m
    BY AppendIs
  <2>3. /\ \A i \in 1 .. Len(p.toClient) : FitsIn(c, p.toClient[i])
        /\ \A x \in ToSet(p.toClient) : x.k \in Async
        /\ \A x \in ToSet(c.unread) : x.k \in Async
    BY <2>1, QuietQueue
  <2> HIDE DEF a, MsgType
  <2>4. q.toClient = a
    BY DEF a
  <2>5. \A i \in 1 .. Len(q.toClient) : FitsIn(c, q.toClient[i])
    BY <2>1, <2>2, <2>3, <2>4
  <2>6. \A x \in ToSet(c.unread) \cup ToSet(q.toClient) : x.k \notin Async => x = m
    BY <2>2, <2>3, <2>4
  <2>7. OnlyReply(q.toClient) /\ ~Quiet(q.toClient)
    BY <2>1, <2>2, <2>4
  <2>8. \A x \in ToSet(c.unread) \cup ToSet(q.toClient) :
          x.k \notin Async => q.toServer = <<>> /\ q.st # "game" /\ (q.up => q.st = After(x.k))
    BY <2>6
  <2> QED
    BY <2>1, <2>5, <2>7, <2>8 DEF Waits
<1>3. Waits(c, q)
  BY <1>2 DEF Waits
<1> QED
  BY <1>1, <1>3 DEF LineOK

\* The game runs for the client, and nothing is under way.
LEMMA GameKeeps ==
  ASSUME NEW c, NEW p, LineOK(c, p), NEW q, p.toClient \in Seq(MsgType), c.unread \in Seq(MsgType),
         p.up, Last(c.stack).pc \in {"recv", "fail"}, q.toServer = <<>>, q.toClient = p.toClient,
         q.st = "game",
         Last(c.stack).pc = "recv" =>
           /\ Quiet(c.unread) /\ Quiet(p.toClient) /\ Last(c.stack).call \in {"play", "exit"}
           /\ Len(c.stack) > 1 /\ c.stack[2].call = "play" /\ q.req = c.stack[2].id
  PROVE  ~HasError(c.unread) \/ (Last(c.stack).call = "auth" /\ Quiet(c.unread)) => LineOK(c, q)
<1> SUFFICES ASSUME ~HasError(c.unread) \/ (Last(c.stack).call = "auth" /\ Quiet(c.unread))
             PROVE  LineOK(c, q)
  OBVIOUS
<1>1. Rest(c, q)
  BY DEF Rest
<1>2. ASSUME Last(c.stack).pc = "recv" PROVE Waits(c, q)
  <2>1. /\ \A x \in ToSet(q.toClient) : x.k \in Async
        /\ \A x \in ToSet(c.unread) : x.k \in Async
        /\ \A i \in 1 .. Len(q.toClient) : FitsIn(c, q.toClient[i])
        /\ OnlyReply(q.toClient)
    BY <1>2, QuietQueue
  <2> QED
    BY <1>2, <2>1 DEF Waits
<1>3. Waits(c, q)
  BY <1>2 DEF Waits
<1> QED
  BY <1>1, <1>3 DEF LineOK

LEMMA ReadInputGood ==
  ASSUME NetInv, NEW s \in DOMAIN con, ReadInput(s)
  PROVE  Good(cl', con')
<1> DEFINE p == con[s]
           q == Serve(Turn(p), Head(p.toServer))
           t == Top
           m == p.toServer[1]
<1>1. LinesOK(con) /\ s \in 1 .. Len(con) /\ p \in ConType /\ ServerOK(p)
      /\ con' = [con EXCEPT ![s] = q] /\ cl' = cl
      /\ p.st \in {"auth", "main", "wait"} /\ p.toServer # <<>>
  <2>1. LinesOK(con)
    BY DEF NetInv, Good
  <2>2. con \in Seq(ConType) /\ DOMAIN con = 1 .. Len(con)
    <3> HIDE DEF ConType
    <3>1. con \in Seq(ConType)
      BY <2>1 DEF LinesOK
    <3> QED
      BY <3>1, LenProperties
  <2>3. p \in ConType
    <3> HIDE DEF ConType
    <3> QED
      BY <2>2
  <2>4. con' = [con EXCEPT ![s] = q] /\ cl' = cl /\ p.st \in {"auth", "main", "wait"}
        /\ p.toServer # <<>>
    BY DEF ReadInput
  <2> QED
    BY <2>1, <2>2, <2>3, <2>4 DEF LinesOK
<1>2. q \in ConType /\ ServerOK(q) /\ AnsweredWith(p, q)
  BY <1>1, ServeIs
<1>3. p.toServer \in Seq(MsgType) /\ p.toClient \in Seq(MsgType) /\ m \in MsgType
  <2>1. p.toServer \in Seq(MsgType) /\ p.toClient \in Seq(MsgType)
    BY <1>1 DEF ConType
  <2> HIDE DEF m
  <2> QED
    BY <1>1, <2>1, TailIs DEF m
<1> HIDE DEF q
<1>4. ASSUME ~cl.crashed, s = cl.sockfd PROVE LineOK(cl, q)
  <2>1. /\ cl.sockfd # 0 /\ ClientOK(cl) /\ LineOK(cl, p) /\ cl.unread \in Seq(MsgType)
        /\ t \in FrameType /\ t = cl.stack[Len(cl.stack)] /\ Last(cl.stack) = t
        /\ FrameOK(cl, Len(cl.stack)) /\ Len(cl.stack) \in Nat
    <3>1. cl.sockfd # 0
      BY <1>1, <1>4
    <3> QED
      BY <1>4, <3>1, Running DEF Top
  <2>2. t.pc \in {"recv", "fail"}
    <3>1. t.pc \in Pcs
      BY <2>1 DEF FrameType
    <3> QED
      BY <1>1, <2>1, <3>1 DEF LineOK, Rest, Pcs
  <2>3. t.pc = "recv" /\ p.up =>
          /\ m = Msg(t.key, t.id)
          /\ \A x \in ToSet(cl.unread) \cup ToSet(p.toClient) : x.k \in Async
    BY <1>1, <2>1 DEF LineOK, Waits
  <2>4. t.pc = "recv" /\ p.up => Quiet(cl.unread) /\ Quiet(p.toClient)
    <3>1. ASSUME NEW b \in Seq(MsgType), \A x \in ToSet(b) : x.k \in Async PROVE Quiet(b)
      <4>1. DOMAIN b = 1 .. Len(b)
        BY DEF MsgType
      <4> QED
        BY <3>1, <4>1 DEF ToSet, Quiet
    <3> QED
      BY <1>3, <2>1, <2>3, <3>1
  <2>5. p.up => ~HasError(cl.unread) \/ (t.call = "auth" /\ Quiet(cl.unread))
    BY <2>1 DEF LineOK
  <2>6. p.up /\ p.st = "wait" /\ t.pc # "fail" =>
          Len(cl.stack) > 1 /\ cl.stack[2].call = "play" /\ p.req = cl.stack[2].id
    BY <2>1 DEF LineOK
  <2> HIDE DEF p, m, t
  <2>7. CASE ~p.up
    <3>1. ~q.up /\ q.toClient = p.toClient /\ q.toServer = <<>> /\ p.toServer # <<>>
      BY <1>1, <1>2, <2>7 DEF AnsweredWith
    <3> QED
      BY <2>1, <3>1, LineDown
  <2>8. CASE p.up /\ m.k \in {"auth", "create", "query", "shutdown"}
    <3>1. /\ q.toClient = Append(p.toClient, m) /\ q.st # "game" /\ q.req = p.req
          /\ q.up => q.st = After(m.k)
          /\ q.st = "wait" => p.st = "wait"
          /\ q.toServer = <<>>
      BY <1>2, <2>8 DEF AnsweredWith, m
    <3>2. m.k \notin Async
      BY <2>8 DEF Async, Errors
    <3>3. t.pc = "recv" => FitsIn(cl, m)
      <4>1. t.pc = "recv" => m.k = t.key /\ m.id = t.id
        BY <2>3, <2>8 DEF Msg
      <4>2. t.key = t.call \/ t.key = "answer"
        BY <2>1 DEF FrameOK
      <4> QED
        BY <2>1, <2>8, <4>1, <4>2 DEF FitsIn
    <3>4. q.up /\ q.st = "wait" /\ t.pc # "fail" =>
            Len(cl.stack) > 1 /\ cl.stack[2].call = "play" /\ q.req = cl.stack[2].id
      BY <2>6, <2>8, <3>1
    <3> QED
      BY <1>3, <2>1, <2>2, <2>4, <2>5, <2>8, <3>1, <3>2, <3>3, <3>4, ReplyKeeps
  <2>9. CASE p.up /\ m.k \in {"play", "answer", "exit"}
    <3>1. /\ q.toClient = p.toClient /\ q.st = "game" /\ q.toServer = <<>>
          /\ m.k = "play" => q.req = m.id
          /\ m.k # "play" => p.st = "wait" /\ q.req = p.req
      BY <1>2, <2>9 DEF AnsweredWith, m
    <3>2. t.pc = "recv" => m.k = t.key /\ m.id = t.id
      BY <2>3, <2>9 DEF Msg
    <3>3. /\ t.key = t.call \/ (t.key = "answer" /\ t.call \in {"play", "exit"})
          /\ t.call = "play" => Len(cl.stack) = 2
      BY <2>1 DEF FrameOK
    <3>4. t.pc = "recv" => t.call \in {"play", "exit"}
      <4>1. t.call # "answer"
        BY <2>1 DEF FrameType, Calls
      <4> QED
        BY <2>9, <3>2, <3>3, <4>1
    <3>5. t.pc = "recv" /\ m.k = "play" =>
            Len(cl.stack) > 1 /\ cl.stack[2].call = "play" /\ q.req = cl.stack[2].id
      <4>1. t.pc = "recv" /\ m.k = "play" => t.call = "play" /\ Len(cl.stack) = 2
        BY <3>2, <3>3
      <4>2. 2 > 1
        OBVIOUS
      <4> QED
        BY <2>1, <3>1, <3>2, <4>1, <4>2
    <3>6. t.pc = "recv" /\ m.k # "play" =>
            Len(cl.stack) > 1 /\ cl.stack[2].call = "play" /\ q.req = cl.stack[2].id
      BY <2>6, <2>9, <3>1
    <3> QED
      BY <1>3, <2>1, <2>2, <2>4, <2>5, <2>9, <3>1, <3>4, <3>5, <3>6, GameKeeps
  <2>10. m.k \in {"auth", "create", "query", "shutdown", "play", "answer", "exit"}
    BY <1>2 DEF AnsweredWith, m
  <2> QED
    BY <2>7, <2>8, <2>9, <2>10
<1> HIDE DEF p
<1> QED
  BY <1>1, <1>2, <1>4, ServerStep

\* What is true of any line, and of the client's own line while it runs.
LEMMA LineFacts ==
  ASSUME NetInv, NEW s \in DOMAIN con
  PROVE  /\ LinesOK(con) /\ s \in 1 .. Len(con) /\ con[s] \in ConType /\ ServerOK(con[s])
         /\ con[s].toServer \in Seq(MsgType) /\ con[s].toClient \in Seq(MsgType)
         /\ ~cl.crashed /\ s = cl.sockfd =>
              /\ ClientOK(cl) /\ Shape(cl) /\ Gaming(cl) /\ LineOK(cl, con[s])
              /\ cl.unread \in Seq(MsgType)
              /\ Top \in FrameType /\ Top = cl.stack[Len(cl.stack)] /\ Last(cl.stack) = Top
              /\ FrameOK(cl, Len(cl.stack)) /\ Len(cl.stack) \in Nat
<1>1. LinesOK(con)
  BY DEF NetInv, Good
<1>2. con \in Seq(ConType) /\ DOMAIN con = 1 .. Len(con) /\ con[s] \in ConType
  <2> HIDE DEF ConType
  <2>1. con \in Seq(ConType)
    BY <1>1 DEF LinesOK
  <2> QED
    BY <2>1, LenProperties
<1>3. ServerOK(con[s])
  BY <1>1, <1>2 DEF LinesOK
<1>4. con[s].toServer \in Seq(MsgType) /\ con[s].toClient \in Seq(MsgType)
  BY <1>2 DEF ConType
<1>5. ASSUME ~cl.crashed, s = cl.sockfd
      PROVE  /\ ClientOK(cl) /\ Shape(cl) /\ Gaming(cl) /\ LineOK(cl, con[s])
             /\ cl.unread \in Seq(MsgType)
             /\ Top \in FrameType /\ Top = cl.stack[Len(cl.stack)] /\ Last(cl.stack) = Top
             /\ FrameOK(cl, Len(cl.stack)) /\ Len(cl.stack) \in Nat
  <2>1. cl.sockfd # 0
    BY <1>2, <1>5
  <2> QED
    BY <1>5, <2>1, Running DEF Top
<1> QED
  BY <1>1, <1>2, <1>3, <1>4, <1>5

\* While the game runs for the client, the client waits for what the game sends.
LEMMA GameRuns ==
  ASSUME NetInv, NEW s \in DOMAIN con, ~cl.crashed, s = cl.sockfd, con[s].up, con[s].st = "game"
  PROVE  /\ Top.pc \in {"recv", "fail"}
         /\ Top.pc = "recv" =>
              /\ Top.call \in {"play", "exit"}
              /\ Quiet(cl.unread) /\ Quiet(con[s].toClient)
              /\ Len(cl.stack) > 1 /\ cl.stack[2].call = "play" /\ con[s].req = cl.stack[2].id
<1> DEFINE p == con[s]
<1>1. /\ LineOK(cl, p) /\ p.toClient \in Seq(MsgType) /\ cl.unread \in Seq(MsgType)
      /\ Top \in FrameType /\ Last(cl.stack) = Top
  BY LineFacts
<1>2. Top.pc \in {"recv", "fail"}
  <2>1. p.st \notin {"main", "wait", Due(Top.key)}
    BY DEF Due
  <2>2. Top.pc \in Pcs
    BY <1>1 DEF FrameType
  <2> QED
    BY <1>1, <2>1, <2>2 DEF LineOK, Rest, Pcs
<1> HIDE DEF p
<1>3. p.up /\ p.st = "game"
  BY DEF p
<1>4. ASSUME Top.pc = "recv"
      PROVE  /\ Top.call \in {"play", "exit"}
             /\ Quiet(cl.unread) /\ Quiet(p.toClient)
             /\ Len(cl.stack) > 1 /\ cl.stack[2].call = "play" /\ p.req = cl.stack[2].id
  <2>1. /\ Top.call \in {"play", "exit"}
        /\ \A m \in ToSet(cl.unread) \cup ToSet(p.toClient) : m.k \in Async
    BY <1>1, <1>3, <1>4 DEF LineOK, Waits
  <2>2. ASSUME NEW b \in Seq(MsgType), \A x \in ToSet(b) : x.k \in Async PROVE Quiet(b)
    <3>1. DOMAIN b = 1 .. Len(b)
      BY DEF MsgType
    <3> QED
      BY <2>2, <3>1 DEF ToSet, Quiet
  <2>3. Len(cl.stack) > 1 /\ cl.stack[2].call = "play" /\ p.req = cl.stack[2].id
    BY <1>1, <1>3, <1>4 DEF LineOK
  <2> QED
    BY <1>1, <2>1, <2>2, <2>3
<1> QED
  BY <1>2, <1>4 DEF p

\* A server process sends a message and does nothing more.
LEMMA SentOK ==
  ASSUME NEW w \in ConType, w.can, w.toServer = <<>>, NEW m \in MsgType, m.k \notin Errors,
         w.st \in {"main", "wait"}, ErrorLast(w.toClient), HasError(w.toClient) => ~w.up
  PROVE  ServerOK(ClientMsg(w, m))
<1> DEFINE q == ClientMsg(w, m)
           a == Append(w.toClient, m)
<1>1. /\ q.up = w.up /\ q.toServer = <<>>
      /\ ~w.up => q.toClient = w.toClient /\ q.st = "gone"
      /\ w.up => q.toClient = a /\ q.st = w.st
  BY ClientMsgIs
<1>2. (~HasError(w.toClient) => ErrorLast(a)) /\ (HasError(a) => HasError(w.toClient) \/ m.k \in Errors)
  <2>1. w.toClient \in Seq(MsgType)
    BY DEF ConType
  <2> QED
    BY <2>1, AppendIs
<1> HIDE DEF q, a
<1>3. ErrorLast(q.toClient) /\ (HasError(q.toClient) => ~q.up)
  BY <1>1, <1>2
<1>4. ServerOK(q)
  BY <1>1, <1>3 DEF ServerOK
<1> QED
  BY <1>4 DEF q

LEMMA GameGood ==
  ASSUME NetInv, NEW s \in DOMAIN con, Game(s)
  PROVE  Good(cl', con')
<1> DEFINE p == con[s]
<1>1. /\ LinesOK(con) /\ s \in 1 .. Len(con) /\ p \in ConType /\ ServerOK(p)
      /\ p.toClient \in Seq(MsgType) /\ p.st = "game" /\ cl' = cl
  BY LineFacts DEF Game
<1>2. p.can /\ p.toServer = <<>> /\ ErrorLast(p.toClient) /\ (HasError(p.toClient) => ~p.up)
  BY <1>1 DEF ServerOK
<1>3. ASSUME NEW x \in {"wait", "main"}, NEW m \in MsgType, m.k \in {"prompt", "play"}, x = After(m.k),
             m.k = "play" => m.id = p.req,
             con' = [con EXCEPT ![s] = ClientMsg([p EXCEPT !.st = x], m)]
      PROVE  Good(cl', con')
  <2> DEFINE w == [p EXCEPT !.st = x]
             q == ClientMsg(w, m)
  <2>1. w \in ConType /\ w.can /\ w.toServer = <<>> /\ w.up = p.up /\ w.req = p.req /\ w.st = x
        /\ w.toClient = p.toClient
    BY <1>1, <1>2 DEF ConType
  <2> HIDE DEF w
  <2>2. /\ q \in ConType /\ q.up = p.up /\ q.toServer = <<>> /\ q.req = p.req
        /\ ~p.up => q.toClient = p.toClient /\ q.st = "gone"
        /\ p.up => q.toClient = Append(p.toClient, m) /\ q.st = x
    BY <2>1, ClientMsgIs
  <2>3. m.k \notin Async /\ m.k \notin Errors
    BY <1>3 DEF Async, Errors
  <2>4. ServerOK(q)
    BY <1>2, <2>1, <2>3, SentOK
  <2>5. con' = [con EXCEPT ![s] = q]
    BY <1>3 DEF w
  <2> HIDE DEF p, q
  <2>6. ASSUME ~cl.crashed, s = cl.sockfd PROVE LineOK(cl, q)
    <3>1. /\ ClientOK(cl) /\ Gaming(cl) /\ LineOK(cl, p) /\ cl.unread \in Seq(MsgType)
          /\ Top = cl.stack[Len(cl.stack)] /\ Last(cl.stack) = Top
          /\ FrameOK(cl, Len(cl.stack)) /\ Len(cl.stack) \in Nat
      BY <2>6, LineFacts DEF p
    <3>2. CASE ~p.up
      <4>1. ~q.up /\ q.toClient = p.toClient /\ q.st = "gone" /\ q.toServer = <<>>
        BY <2>2, <3>2
      <4> QED
        BY <3>1, <4>1, LineDown
    <3>3. CASE p.up
      <4>1. /\ Top.pc \in {"recv", "fail"}
            /\ Top.pc = "recv" =>
                 /\ Top.call \in {"play", "exit"}
                 /\ Quiet(cl.unread) /\ Quiet(p.toClient)
                 /\ Len(cl.stack) > 1 /\ cl.stack[2].call = "play" /\ p.req = cl.stack[2].id
        BY <1>1, <2>6, <3>3, GameRuns DEF p
      <4>2. ASSUME Top.pc = "recv", m.k = "play" PROVE p.req = PlayIdOf(cl)
        <5>1. cl.play \in {0, 2}
          BY <3>1 DEF ClientOK, ClientType
        <5>2. Top.call = "exit" => cl.play = 2
          <6>1. Len(cl.stack) \in 1 .. Len(cl.stack)
            BY <3>1, ClientFacts
          <6> QED
            BY <3>1, <6>1 DEF Gaming, Playing
        <5>3. Top.call = "play" => Len(cl.stack) = 2
          BY <3>1 DEF FrameOK
        <5> QED
          BY <3>1, <4>1, <4>2, <5>1, <5>2, <5>3 DEF PlayIdOf
      <4>3. Top.pc = "recv" => FitsIn(cl, m)
        BY <1>3, <3>1, <4>1, <4>2 DEF FitsIn
      <4>4. ~HasError(cl.unread) \/ (Top.call = "auth" /\ Quiet(cl.unread))
        BY <3>1, <3>3 DEF LineOK
      <4>5. q.st # "game" /\ q.st = After(m.k) /\ q.toClient = Append(p.toClient, m) /\ q.req = p.req
            /\ q.toServer = <<>>
        BY <1>3, <2>2, <3>3
      <4>6. q.up /\ q.st = "wait" /\ Top.pc # "fail" =>
              Len(cl.stack) > 1 /\ cl.stack[2].call = "play" /\ q.req = cl.stack[2].id
        BY <4>1, <4>5
      <4> QED
        BY <1>1, <1>3, <2>3, <3>1, <3>3, <4>1, <4>3, <4>4, <4>5, <4>6, ReplyKeeps
    <3> QED
      BY <3>2, <3>3
  <2> QED
    BY <1>1, <2>2, <2>4, <2>5, <2>6, ServerStep
<1>4. \/ con' = [con EXCEPT ![s] = ClientMsg([p EXCEPT !.st = "wait"], Msg("prompt", 0))]
      \/ con' = [con EXCEPT ![s] = ClientMsg([p EXCEPT !.st = "main"], Msg("play", p.req))]
  BY <1>1 DEF Game
<1>5. /\ Msg("prompt", 0) \in MsgType /\ Msg("prompt", 0).k = "prompt" /\ After("prompt") = "wait"
      /\ Msg("play", p.req) \in MsgType /\ Msg("play", p.req).k = "play" /\ Msg("play", p.req).id = p.req
      /\ After("play") = "main"
  <2>1. 0 \in 0 .. (MaxCalls + MaxConns) /\ p.req \in 0 .. (MaxCalls + MaxConns)
    <3>1. p.req \in 0 .. MaxCalls
      BY <1>1 DEF ConType
    <3> QED
      BY <3>1, NetAssumption
  <2> QED
    BY <2>1 DEF Msg, MsgType, After
<1> HIDE DEF p
<1>6. CASE con' = [con EXCEPT ![s] = ClientMsg([p EXCEPT !.st = "wait"], Msg("prompt", 0))]
  BY <1>3, <1>5, <1>6
<1>7. CASE con' = [con EXCEPT ![s] = ClientMsg([p EXCEPT !.st = "main"], Msg("play", p.req))]
  BY <1>3, <1>5, <1>7
<1> QED
  BY <1>4, <1>6, <1>7

\* A message that may come at any time changes nothing for the client that waits.
LEMMA AsyncKeeps ==
  ASSUME NEW c, NEW p, LineOK(c, p), NEW q, NEW m \in MsgType, m.k \in Async,
         p.toClient \in Seq(MsgType), q.toServer = p.toServer, q.gap = p.gap,
         q.toClient = Append(p.toClient, m), q.up => p.up /\ q.st = p.st /\ q.req = p.req,
         q.st # "game" \/ p.st = "game"
  PROVE  LineOK(c, q)
<1> DEFINE t == Last(c.stack)
           a == Append(p.toClient, m)
<1>1. /\ \A i \in 1 .. Len(a) : a[i] = m \/ (i \in 1 .. Len(p.toClient) /\ a[i] = p.toClient[i])
      /\ Quiet(a) <=> Quiet(p.toClient) /\ m.k \in Async
      /\ OnlyReply(p.toClient) /\ m.k \in Async => OnlyReply(a)
      /\ \A x \in ToSet(a) : x \in ToSet(p.toClient) \/ x = m
  BY AppendIs
<1> HIDE DEF a, MsgType
<1>2. q.toClient = a
  BY DEF a
<1>3. Rest(c, q)
  BY <1>1, <1>2 DEF LineOK, Rest
<1>4. ASSUME t.pc = "recv" PROVE Waits(c, q)
  <2>1. FitsIn(c, m)
    BY DEF FitsIn, Async
  <2>2. /\ p.toServer # <<>> => p.toServer[1] = Msg(t.key, t.id) /\ (p.up => p.st = Due(t.key))
        /\ p.up /\ p.st = "game" => t.call \in {"play", "exit"}
        /\ \A i \in 1 .. Len(p.toClient) : FitsIn(c, p.toClient[i])
        /\ OnlyReply(p.toClient)
        /\ Quiet(c.unread) \/ Quiet(p.toClient)
        /\ \A x \in ToSet(c.unread) \cup ToSet(p.toClient) :
             x.k \notin Async => p.toServer = <<>> /\ p.st # "game" /\ (p.up => p.st = After(x.k))
        /\ p.up /\ ~p.gap =>
             ~Quiet(c.unread) \/ ~Quiet(p.toClient) \/ p.toServer # <<>> \/ p.st = "game"
    BY <1>4 DEF LineOK, Waits
  <2> HIDE DEF t
  <2>3. q.toServer # <<>> => q.toServer[1] = Msg(t.key, t.id) /\ (q.up => q.st = Due(t.key))
    BY <2>2
  <2>4. q.up /\ q.st = "game" => t.call \in {"play", "exit"}
    BY <2>2
  <2>5. \A i \in 1 .. Len(q.toClient) : FitsIn(c, q.toClient[i])
    BY <1>1, <1>2, <2>1, <2>2
  <2>6. OnlyReply(q.toClient) /\ (Quiet(c.unread) \/ Quiet(q.toClient))
    BY <1>1, <1>2, <2>2
  <2>7. \A x \in ToSet(c.unread) \cup ToSet(q.toClient) :
          x.k \notin Async => q.toServer = <<>> /\ q.st # "game" /\ (q.up => q.st = After(x.k))
    <3>1. \A x \in ToSet(c.unread) \cup ToSet(q.toClient) :
            x.k \notin Async => x \in ToSet(c.unread) \cup ToSet(p.toClient)
      BY <1>1, <1>2
    <3> QED
      BY <2>2, <3>1
  <2>8. q.up /\ ~q.gap =>
          ~Quiet(c.unread) \/ ~Quiet(q.toClient) \/ q.toServer # <<>> \/ q.st = "game"
    BY <1>1, <1>2, <2>2
  <2> QED
    BY <2>3, <2>4, <2>5, <2>6, <2>7, <2>8 DEF Waits, t
<1>5. Waits(c, q)
  BY <1>4 DEF Waits
<1> QED
  BY <1>3, <1>5 DEF LineOK

LEMMA CancelGood ==
  ASSUME NetInv, NEW s \in DOMAIN con, Cancel(s)
  PROVE  Good(cl', con')
<1> DEFINE p == con[s]
           m == Msg("cancel", 0)
           a == Append(p.toClient, m)
           q == [p EXCEPT !.toClient = a]
<1>1. /\ s \in 1 .. Len(con) /\ p \in ConType /\ ServerOK(p) /\ p.toClient \in Seq(MsgType)
      /\ p.up /\ con' = [con EXCEPT ![s] = q] /\ cl' = cl
  BY LineFacts DEF Cancel
<1>2. m \in MsgType /\ m.k \in Async /\ m.k \notin Errors
  <2>1. 0 \in 0 .. (MaxCalls + MaxConns)
    BY NetAssumption
  <2> QED
    BY <2>1 DEF Msg, MsgType, Async, Errors
<1> HIDE DEF m
<1>3. /\ a \in Seq(MsgType)
      /\ ~HasError(p.toClient) => ErrorLast(a)
      /\ HasError(a) => HasError(p.toClient) \/ m.k \in Errors
  BY <1>1, <1>2, AppendIs
<1> HIDE DEF a
<1>4. q \in ConType /\ q.toClient = a /\ q.toServer = p.toServer /\ q.up = p.up /\ q.st = p.st
      /\ q.req = p.req /\ q.gap = p.gap /\ q.can = p.can
  BY <1>1, <1>3 DEF ConType
<1> HIDE DEF q
<1>5. ServerOK(q)
  BY <1>1, <1>2, <1>3, <1>4 DEF ServerOK
<1>6. ASSUME ~cl.crashed, s = cl.sockfd PROVE LineOK(cl, q)
  <2>1. LineOK(cl, p)
    BY <1>6, LineFacts
  <2> HIDE DEF p
  <2> QED
    BY <1>1, <1>2, <1>4, <2>1, AsyncKeeps DEF a
<1> QED
  BY <1>1, <1>4, <1>5, <1>6, ServerStep

LEMMA LostGood ==
  ASSUME NetInv, NEW s \in DOMAIN con, Lost(s)
  PROVE  Good(cl', con')
<1> DEFINE p == con[s]
           q == [p EXCEPT !.st = "gone"]
<1>1. /\ s \in 1 .. Len(con) /\ p \in ConType /\ ServerOK(p) /\ p.toClient \in Seq(MsgType)
      /\ ~p.up /\ con' = [con EXCEPT ![s] = q] /\ cl' = cl
  BY LineFacts DEF Lost
<1>2. q \in ConType /\ q.toClient = p.toClient /\ q.toServer = p.toServer /\ q.up = p.up
      /\ q.st = "gone"
  BY <1>1 DEF ConType
<1> HIDE DEF q
<1>3. ServerOK(q)
  BY <1>1, <1>2 DEF ServerOK
<1>4. ASSUME ~cl.crashed, s = cl.sockfd PROVE LineOK(cl, q)
  <2>1. LineOK(cl, p)
    BY <1>4, LineFacts
  <2> HIDE DEF p
  <2> QED
    BY <1>1, <1>2, <2>1, LineDown
<1> QED
  BY <1>1, <1>2, <1>3, <1>4, ServerStep

LEMMA TerminateGood ==
  ASSUME NetInv, NEW s \in DOMAIN con, Terminate(s)
  PROVE  Good(cl', con')
<1> DEFINE p == con[s]
           m == Msg(IF p.st = "main" THEN "quit" ELSE "error", 0)
           w == [p EXCEPT !.can = TRUE]
           x == ClientMsg(w, m)
           q == [x EXCEPT !.up = FALSE, !.st = "gone"]
<1>1. /\ s \in 1 .. Len(con) /\ p \in ConType /\ ServerOK(p) /\ p.toClient \in Seq(MsgType)
      /\ p.up /\ con' = [con EXCEPT ![s] = q] /\ cl' = cl
  BY LineFacts DEF Terminate
<1>2. m \in MsgType /\ m.k \in Async
  <2>1. 0 \in 0 .. (MaxCalls + MaxConns)
    BY NetAssumption
  <2> QED
    BY <2>1 DEF Msg, MsgType, Async, Errors
<1> HIDE DEF m
<1>3. w \in ConType /\ w.can /\ w.toServer = p.toServer /\ w.up = p.up /\ w.gap = p.gap
      /\ w.toClient = p.toClient
  BY <1>1 DEF ConType
<1> HIDE DEF w
<1>4. x \in ConType /\ x.toServer = p.toServer /\ x.gap = p.gap
      /\ x.toClient = Append(p.toClient, m)
  <2>1. /\ x \in ConType /\ x.toServer = w.toServer /\ x.gap = w.gap
        /\ w.up => x.toClient = Append(w.toClient, m)
    BY <1>2, <1>3, ClientMsgIs
  <2> HIDE DEF x
  <2> QED
    BY <1>1, <1>3, <2>1
<1> HIDE DEF x
<1>5. q \in ConType /\ q.toClient = Append(p.toClient, m) /\ q.toServer = p.toServer
      /\ q.gap = p.gap /\ ~q.up /\ q.st = "gone"
  BY <1>4 DEF ConType
<1> HIDE DEF q
<1>6. ~HasError(p.toClient) => ErrorLast(Append(p.toClient, m))
  BY <1>1, <1>2, AppendIs
<1>7. ServerOK(q)
  BY <1>1, <1>5, <1>6 DEF ServerOK
<1>8. ASSUME ~cl.crashed, s = cl.sockfd PROVE LineOK(cl, q)
  <2>1. LineOK(cl, p)
    BY <1>8, LineFacts
  <2> HIDE DEF p
  <2> QED
    BY <1>1, <1>2, <1>5, <2>1, AsyncKeeps
<1> QED
  BY <1>1, <1>5, <1>7, <1>8, ServerStep

LEMMA BreakGood ==
  ASSUME NetInv, NEW s \in DOMAIN con, Break(s)
  PROVE  Good(cl', con')
<1> DEFINE p == con[s]
<1>1. /\ s \in 1 .. Len(con) /\ p \in ConType /\ ServerOK(p) /\ cl' = cl
      /\ p.toServer \in Seq(MsgType) /\ p.toClient \in Seq(MsgType)
  BY LineFacts DEF Break
<1>0. PICK i \in 0 .. Len(con[s].toServer), j \in 0 .. Len(con[s].toClient) :
        \E part \in {b \in BOOLEAN : b => j < Len(con[s].toClient)} :
          con' = [con EXCEPT ![s].up = FALSE, ![s].cut = part,
                             ![s].toServer = SubSeq(@, 1, i), ![s].toClient = SubSeq(@, 1, j)]
  BY Zenon DEF Break
<1>2. PICK part \in {b \in BOOLEAN : b => j < Len(con[s].toClient)} :
        con' = [con EXCEPT ![s].up = FALSE, ![s].cut = part,
                           ![s].toServer = SubSeq(@, 1, i), ![s].toClient = SubSeq(@, 1, j)]
  BY <1>0, Zenon
<1> DEFINE a == SubSeq(p.toServer, 1, i)
           b == SubSeq(p.toClient, 1, j)
           q == [p EXCEPT !.up = FALSE, !.cut = part, !.toServer = a, !.toClient = b]
<1>3. con' = [con EXCEPT ![s] = q]
  BY <1>2
<1>4. a \in Seq(MsgType) /\ Len(a) = i /\ \A k \in 1 .. Len(a) : a[k] = p.toServer[k]
  BY <1>1, Prefix
<1>5. /\ b \in Seq(MsgType)
      /\ \A k \in 1 .. Len(b) : k \in 1 .. Len(p.toClient) /\ b[k] = p.toClient[k]
      /\ Quiet(p.toClient) => Quiet(b)
      /\ ErrorLast(p.toClient) => ErrorLast(b)
      /\ OnlyReply(p.toClient) => OnlyReply(b)
      /\ ToSet(b) \subseteq ToSet(p.toClient)
  BY <1>1, Prefix
<1> HIDE DEF a, b
<1>6. q \in ConType /\ q.toServer = a /\ q.toClient = b /\ ~q.up /\ q.st = p.st /\ q.can = p.can
  BY <1>1, <1>4, <1>5 DEF ConType
<1>7. a # <<>> => p.toServer # <<>> /\ a[1] = p.toServer[1]
  <2> HIDE DEF MsgType
  <2>1. a # <<>> => Len(a) \in Nat \ {0}
    BY <1>4, EmptySeq
  <2>2. Len(p.toServer) \in Nat /\ i \in 0 .. Len(p.toServer)
    BY <1>1
  <2>3. a # <<>> => 1 \in 1 .. Len(a) /\ Len(p.toServer) # 0
    BY <1>4, <2>1, <2>2
  <2>4. Len(p.toServer) # 0 => p.toServer # <<>>
    OBVIOUS
  <2> QED
    BY <1>4, <2>3, <2>4
<1> HIDE DEF q
<1>8. ServerOK(q)
  <2>1. Len(a) <= 1
    <3>1. Len(p.toServer) \in Nat /\ Len(p.toServer) <= 1 /\ i \in 0 .. Len(p.toServer)
      BY <1>1 DEF ServerOK
    <3> QED
      BY <1>4, <3>1
  <2> QED
    BY <1>1, <1>5, <1>6, <1>7, <2>1 DEF ServerOK
<1>9. ASSUME ~cl.crashed, s = cl.sockfd PROVE LineOK(cl, q)
  <2>1. LineOK(cl, p)
    BY <1>9, LineFacts
  <2> HIDE DEF p
  <2> QED
    BY <1>5, <1>6, <1>7, <2>1, LineDown
<1> QED
  BY <1>1, <1>3, <1>6, <1>8, <1>9, ServerStep

-----------------------------------------------------------------------------
\* The invariant is inductive

LEMMA NetInit == Init => NetInv
<1> SUFFICES ASSUME Init PROVE NetInv
  OBVIOUS
<1>1. con = <<>> /\ cancels = 0
  BY DEF Init
<1>2. /\ cl.sockfd = 0 /\ cl.stack = <<Menu>> /\ cl.unread = <<>> /\ cl.torn = FALSE
      /\ cl.ex = 0 /\ cl.exs = 0 /\ cl.play = 0 /\ cl.playok = FALSE /\ cl.inConn = FALSE
      /\ cl.cancelled = FALSE /\ cl.calls = 0 /\ cl.crashed = FALSE
  BY DEF Init
<1>3. {Retries, MaxConns, MaxCalls, MaxCancels} \subseteq Nat
  BY NetAssumption
<1>4. Menu \in FrameType
  BY <1>3 DEF Menu, FrameType, Calls, Pcs, Ids
<1>5. cl \in ClientType
  <2>1. <<Menu>> \in Seq(FrameType)
    <3> HIDE DEF FrameType, Menu
    <3> QED
      BY <1>4
  <2>2. <<>> \in Seq(MsgType)
    BY EmptySeq
  <2>3. cl = [sockfd |-> 0, stack |-> <<Menu>>, unread |-> <<>>, torn |-> FALSE,
              ex |-> 0, exs |-> 0, play |-> 0, playok |-> FALSE, inConn |-> FALSE,
              cancelled |-> FALSE, calls |-> 0, crashed |-> FALSE]
    BY DEF Init
  <2> HIDE DEF Menu, MsgType, FrameType
  <2> QED
    BY <1>3, <2>1, <2>2, <2>3 DEF ClientType
<1>6. Len(cl.stack) = 1 /\ cl.stack[1] = Menu
  <2> HIDE DEF Menu
  <2> QED
    BY <1>2
<1>7. ClientOK(cl)
  BY <1>2, <1>5, <1>6 DEF ClientOK
<1>8. AtMenu(cl)
  BY <1>2, <1>6 DEF AtMenu, Menu, Quiet, ErrorLast
<1>9. Shape(cl) /\ Gaming(cl) /\ BufferOK(cl)
  BY <1>7, <1>8, MenuOK
<1>10. LinesOK(con)
  <2>1. <<>> \in Seq(ConType) /\ Len(<<>>) = 0
    <3> HIDE DEF ConType
    <3> QED
      BY EmptySeq
  <2>2. 0 <= MaxConns
    BY <1>3
  <2> QED
    BY <1>1, <2>1, <2>2 DEF LinesOK
<1>11. cl.sockfd <= Len(con) /\ cancels \in 0 .. MaxCancels
  BY <1>1, <1>2, <1>3
<1> QED
  BY <1>2, <1>7, <1>9, <1>10, <1>11 DEF NetInv, Good

LEMMA NetNext == NetInv /\ [Next]_vars => NetInv'
<1> SUFFICES ASSUME NetInv, [Next]_vars PROVE NetInv'
  OBVIOUS
<1>1. ASSUME UNCHANGED vars PROVE NetInv'
  BY <1>1 DEF NetInv, Good, vars
<1>2. ASSUME Next PROVE Good(cl', con')
  <2>1. CASE Connect
    BY <2>1, ConnectGood
  <2>2. CASE Disconnect
    BY <2>2, DisconnectGood
  <2>3. CASE Answer \/ TakeCancel
    BY <2>3, AnswerTakeCancelGood
  <2>4. CASE \E k \in {"play", "create", "query", "exit"} : Call(k)
    BY <2>4, CallGood
  <2>5. CASE Send
    BY <2>5, SendGood
  <2>6. CASE Retry
    BY <2>6, RetryGood
  <2>7. CASE Recv
    BY <2>7, RecvGood
  <2>8. CASE EndOfFile \/ Timeout
    BY <2>8, EndOfFileTimeoutGood
  <2>9. CASE Receive
    BY <2>9, ReceiveGood
  <2>10. CASE Check
    BY <2>10, CheckGood
  <2>11. CASE Checked
    BY <2>11, CheckedGood
  <2>12. CASE \E s \in DOMAIN con : Server(s) \/ Cancel(s) \/ Terminate(s) \/ Break(s)
    BY <2>12, ReadInputGood, GameGood, LostGood, CancelGood, TerminateGood, BreakGood DEF Server
  <2> QED
    BY <1>2, <2>1, <2>2, <2>3, <2>4, <2>5, <2>6, <2>7, <2>8, <2>9, <2>10, <2>11, <2>12
       DEF Next, Library, User
<1>3. ASSUME Next PROVE cancels' \in 0 .. MaxCancels
  <2>1. cancels \in 0 .. MaxCancels /\ MaxCancels \in Nat
    BY NetAssumption DEF NetInv
  <2>2. cancels' = cancels \/ (cancels < MaxCancels /\ cancels' = cancels + 1)
    BY <1>3 DEF Next, Library, User, Server, Connect, Disconnect, Answer, TakeCancel, Call, Send,
         Retry, Recv, EndOfFile, Timeout, Receive, Check, Checked, ReadInput, Game, Lost, Cancel,
         Terminate, Break
  <2> QED
    BY <2>1, <2>2
<1> QED
  BY <1>1, <1>2, <1>3 DEF NetInv

\* NetInv holds in every reachable state: the calls on the client's stack wait for each other
\* in the ways that send_receive_msg and restart_connection make possible, the jump buffers
\* lead to calls that are there, and what is on the line fits what both ends wait for.
THEOREM NetProtocol == Spec => []NetInv
<1> QED
  BY NetInit, NetNext, PTL DEF Spec

-----------------------------------------------------------------------------
\* What follows from it

LEMMA NetTypes == NetInv => TypeOK
<1> SUFFICES ASSUME NetInv PROVE TypeOK
  OBVIOUS
<1>1. LinesOK(con) /\ ClientOK(cl) /\ cl.sockfd <= Len(con) /\ cancels \in 0 .. MaxCancels
  BY DEF NetInv, Good
<1>2. con \in Seq(ConType) /\ Len(con) <= MaxConns
  BY <1>1 DEF LinesOK
<1>3. con \in Seq([up : BOOLEAN, toServer : Seq(MsgType), toClient : Seq(MsgType),
                   cut : BOOLEAN, gap : BOOLEAN, can : BOOLEAN, req : 0 .. MaxCalls,
                   st : {"auth", "main", "game", "wait", "gone", "bad"}])
  BY <1>2, Zenon DEF ConType
<1>4. Len(con) \in Nat
  <2> HIDE DEF ConType
  <2> QED
    BY <1>2, LenProperties
<1>5. cl \in ClientType /\ cl.ex <= Len(cl.stack) /\ cl.play <= Len(cl.stack)
  BY <1>1 DEF ClientOK
<1>6. /\ cl.sockfd \in 0 .. MaxConns /\ cl.unread \in Seq(MsgType)
      /\ cl.ex \in {0, 2} /\ cl.play \in {0, 2} /\ cl.exs \in 0 .. MaxCalls
      /\ cl.calls \in 0 .. MaxCalls
  BY <1>5 DEF ClientType
<1>7. cl.sockfd \in 0 .. Len(con)
  BY <1>1, <1>4, <1>6
<1>8. /\ Len(cl.stack) \in Nat /\ DOMAIN cl.stack = 1 .. Len(cl.stack)
      /\ \A i \in 1 .. Len(cl.stack) : cl.stack[i] \in FrameType
  BY <1>1, ClientFacts
<1>9. ASSUME NEW f \in ToSet(cl.stack)
      PROVE  f.pc \in {"send", "recv", "fail", "prompt", "check"} /\ f.retry \in 0 .. Retries
  <2>1. f \in FrameType
    BY <1>8, <1>9 DEF ToSet
  <2> QED
    BY <2>1 DEF FrameType, Pcs
<1>10. cl.ex \in 0 .. Depth /\ cl.play \in 0 .. Depth
  BY <1>5, <1>6, <1>8 DEF Depth
<1> HIDE DEF MsgType
<1> QED
  BY <1>1, <1>2, <1>3, <1>6, <1>7, <1>9, <1>10 DEF TypeOK

\* Every variable keeps its type, and the client's descriptor and jump buffers lead to a
\* connection and to calls that there are.
THEOREM NetPlayTypes == Spec => []TypeOK
<1> QED
  BY NetProtocol, NetTypes, PTL

LEMMA NetServed == NetInv => Served
<1> SUFFICES ASSUME NetInv, NEW s \in DOMAIN con PROVE con[s].st # "bad"
  BY DEF Served
<1> QED
  BY LineFacts DEF ServerOK

\* However often the connection breaks and restart_connection takes the client back, no
\* server process ever gets a message out of sequence.
THEOREM NetPlayServed == Spec => []Served
<1> QED
  BY NetProtocol, NetServed, PTL

LEMMA NetInStep == NetInv => InStep
<1> SUFFICES ASSUME NetInv, At("recv"), cl.unread # <<>> PROVE Fits(Head(cl.unread))
  BY DEF InStep
<1>1. ~cl.crashed /\ Top.pc = "recv" /\ Last(cl.stack) = Top
  BY DEF At, Top
<1>2. cl.unread \in Seq(MsgType) /\ BufferOK(cl)
  BY <1>1, Running
<1>3. Head(cl.unread) = cl.unread[1] /\ 1 \in 1 .. Len(cl.unread)
  BY <1>2, TailIs
<1>4. FitsIn(cl, Head(cl.unread))
  BY <1>1, <1>2, <1>3 DEF BufferOK
<1> QED
  BY <1>1, <1>4 DEF FitsIn, Fits, PlayIdOf, PlayId

\* The message that send_receive_msg takes out of its buffer is for the request that waits
\* there, over all connections and however often the request was sent again.
THEOREM NetPlayInStep == Spec => []InStep
<1> QED
  BY NetProtocol, NetInStep, PTL

LEMMA NetNoMutualWait == NetInv => NoMutualWait
<1> SUFFICES ASSUME NetInv, At("recv"), Line.up, ~Line.gap
             PROVE  \/ cl.unread # <<>> \/ Line.toClient # <<>> \/ Line.toServer # <<>>
                    \/ Line.st = "game"
  BY DEF NoMutualWait
<1>1. ~cl.crashed /\ Top.pc = "recv" /\ Last(cl.stack) = Top
  BY DEF At, Top
<1>2. cl.sockfd # 0
  BY <1>1, Busy
<1>3. LineOK(cl, Line)
  BY <1>1, <1>2, Running DEF Line
<1>4. ~Quiet(cl.unread) \/ ~Quiet(Line.toClient) \/ Line.toServer # <<>> \/ Line.st = "game"
  BY <1>1, <1>3 DEF LineOK, Waits
<1>5. Quiet(<<>>)
  BY DEF Quiet
<1> QED
  BY <1>4, <1>5

\* The client and the server never wait for each other, unless the client has thrown a
\* message away.
THEOREM NetPlayNoMutualWait == Spec => []NoMutualWait
<1> QED
  BY NetProtocol, NetNoMutualWait, PTL
=============================================================================
