---------------------------- MODULE ConsoleInput ----------------------------
(***************************************************************************)
(* Input of the guest's console (console.c): the line buffer between the   *)
(* keyboard interrupt and read().                                          *)
(***************************************************************************)
EXTENDS Pipe

CONSTANT INPUT_BUF   \* size of the line buffer

VARIABLES
    cons,   \* the characters from cons.r to cons.e, and how many of them
            \* lie before cons.w
    keys    \* what the user has still to type

pvars == <<state, chan, killed, parent, xstate, pid, ofile, cpu, locked, lock,
           nextpid, pc, want, arg, user, file, nyield, failed, panic, pipe, cons, keys>>

ASSUME BufferHoldsSomething == INPUT_BUF \in Nat \ {0}

consoleinit == [buf |-> <<>>, ready |-> 0]

\* A reader is woken by a whole line or an end of file.
EndsLine(c) == c \in {"\n", "^D"}

\* The character as it is stored.
Stored(c) == IF c = "\r" THEN "\n" ELSE c

\* The line buffer after a key.
Typed(c) ==
    LET n == Len(cons.buf) IN
    CASE c = "^U" ->
           LET kept == {i \in cons.ready .. n : i = cons.ready \/ cons.buf[i] = "\n"}
           IN  [cons EXCEPT !.buf = SubSeq(@, 1, Max(kept))]
      [] c \in {"^H", "DEL"} ->
           [cons EXCEPT !.buf = SubSeq(@, 1, Max({cons.ready, n - 1}))]
      [] c \notin {"^U", "^H", "DEL", "^P"} /\ n < INPUT_BUF ->
           [buf |-> Append(cons.buf, Stored(c)),
            ready |-> IF EndsLine(Stored(c)) \/ n + 1 = INPUT_BUF THEN n + 1
                      ELSE cons.ready]
      [] OTHER -> cons

\* consoleintr(), for a character that uartintr() has received.
consoleintr ==
    /\ keys # <<>> /\ lock["cons"] = None /\ CanWake /\ ~panic
    /\ cons' = Typed(Head(keys))
    /\ keys' = Tail(keys)
    /\ state' = IF cons'.ready > cons.ready THEN Woken(state, {InputChan}, None)
                ELSE state
    /\ UNCHANGED <<chan, killed, parent, xstate, pid, ofile, sched, nextpid, pc,
                   want, arg, user, file, flags, pipe>>

-----------------------------------------------------------------------------
\* Where the loop of consoleread() ends: at the end of a line, with n
\* bytes, or at a byte that cannot be copied out.
Stops(p) ==
    {i \in 1 .. cons.ready :
        \/ EndsLine(cons.buf[i])
        \/ Len(arg[p]) + i \in {Call(p).n, Call(p).room + 1}}

\* The first k bytes leave the buffer.
Consume(k) ==
    cons' = [buf |-> SubSeq(cons.buf, k + 1, Len(cons.buf)), ready |-> cons.ready - k]

\* The program has read s.
GotLine(p, s) ==
    /\ user' = [user EXCEPT ![p].prog = Tail(@)]
    /\ failed' = (failed \/ (Call(p).op = "line" /\ s \notin Call(p).lines))
    /\ Goto(p, "user")
    /\ arg' = [arg EXCEPT ![p] = None]

\* consoleread() with cons.lock held, to its return or to sleep().  An end of
\* file after other bytes stays in the buffer for the next call.
consoleread(p) ==
    /\ At(p, "consoleread") /\ lock["cons"] = None
    /\ \/ \E k \in Stops(p) :
            /\ k = Min(Stops(p))
            /\ LET eof == cons.buf[k] = "^D"
                   copied == Len(arg[p]) + k <= Call(p).room /\ ~eof
                   s == arg[p] \o SubSeq(cons.buf, 1, IF copied THEN k ELSE k - 1)
               IN  /\ Consume(IF eof /\ s # <<>> THEN k - 1 ELSE k)
                   /\ GotLine(p, s)
            /\ UNCHANGED <<lock, want>>
       \/ /\ Stops(p) = {} /\ killed[p]
          /\ Consume(cons.ready)
          /\ Return(p, -1)
          /\ arg' = [arg EXCEPT ![p] = None]
          /\ UNCHANGED <<lock, want>>
       \/ /\ Stops(p) = {} /\ ~killed[p]
          /\ Consume(cons.ready)
          /\ arg' = [arg EXCEPT ![p] = @ \o SubSeq(cons.buf, 1, cons.ready)]
          /\ SleepOn(p, InputChan)
          /\ UNCHANGED <<user, failed>>
    /\ UNCHANGED <<table, ofile, cpu, locked, nextpid, file, panic, nyield, pipe, keys>>
=============================================================================
