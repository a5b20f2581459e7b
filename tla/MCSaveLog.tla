------------------------------ MODULE MCSaveLog ------------------------------
(***************************************************************************)
(* A small game for SaveLog: command "b" asks one question, whose answer   *)
(* "b" kills; the character also dies at the first save after MaxLen       *)
(* lines, which bounds the file.                                           *)
(***************************************************************************)
EXTENDS SaveLog, TLC

CONSTANTS p1, p2, p3, MaxLen

Players    == {p1, p2}
Everyone   == {p1, p2, p3}
TwoPlayers == (p1 :> "PLAY") @@ (p2 :> "PLAY")
PlayerAndWatcher == (p1 :> "PLAY") @@ (p2 :> "WATCH")
OneOfEach  == (p1 :> "PLAY") @@ (p2 :> "WATCH") @@ (p3 :> "REPLAY")

TinyGame(h) ==
  LET n == Len(h)
      last == h[n]
  IN  CASE last.kind \in SaveKinds -> IF n >= MaxLen THEN "over" ELSE "cmd"
        [] last.kind \in {"cmd", "input"} -> "time"
        [] last.kind = "over" -> "over"
        [] OTHER ->
             IF n > 1 /\ h[n-1] = Ev("cmd", "b") THEN "input"
             ELSE IF n > 1 /\ h[n-1] = Ev("input", "b") THEN "over" ELSE "save"

\* A game of short turns: "a" is followed by a save line at once, the answer to
\* "b" kills or is followed by one.
QuickGame(h) ==
  LET n == Len(h)
  IN  CASE h[n].kind \in SaveKinds -> IF n >= MaxLen THEN "over" ELSE "cmd"
        [] h[n].kind = "over" -> "over"
        [] h[n] = Ev("cmd", "b") -> "input"
        [] h[n] = Ev("input", "b") -> "over"
        [] OTHER -> "save"

Swap == Permutations({p1, p2})

\* A watcher with a current recovery count reads every line that is in the
\* file, unless it restarts, leaves or the file is recovered (log_want_replay).
WatcherCatchesUp ==
  \A p \in Procs, n \in 1 .. MaxLen :
    (/\ pc[p] \in Playing /\ mode[p] = "WATCH" /\ view[p].expected = count
     /\ Len(lines) >= n)
    ~> (view[p].eog >= n \/ pc[p] \notin Playing \/ view[p].expected # count)
=============================================================================
