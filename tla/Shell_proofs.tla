----------------------------- MODULE Shell_proofs -----------------------------
(***************************************************************************)
(* Proofs about the history of Shell, for every line size, history size    *)
(* and alphabet.                                                           *)
(***************************************************************************)
EXTENDS Shell, SequenceTheorems, IndexLemmas, TLAPS

USE ShellAssumption

Chars == Letters \cup {" "}

(* skip_spaces and trim_right return a part of the line, and a command     *)
(* that was trimmed once has nothing left to trim.                         *)
LEMMA TrimmedOnce ==
    ASSUME NEW text \in Seq(Chars), NEW t, t = trimmed(text)
    PROVE  t \in Seq(Chars) /\ Len(t) <= Len(text) /\ trimmed(t) = t
  <1> DEFINE inked(s) == {i \in DOMAIN s : ~is_space(s[i])}
  <1>1. CASE inked(text) = {}
    <2>1. t = <<>>
      BY <1>1 DEF trimmed
    <2>2. inked(t) = {}
      BY <2>1
    <2>3. trimmed(t) = <<>>
      BY <2>2 DEF trimmed
    <2> QED BY <2>1, <2>3
  <1>2. CASE inked(text) # {}
    <2> DEFINE lo == Min(inked(text))
               hi == Max(inked(text))
    <2>1. inked(text) \in SUBSET Nat /\ \A i \in inked(text) : i <= Len(text)
      OBVIOUS
    <2>2. lo \in inked(text) /\ hi \in inked(text) /\ lo <= hi
      <3> DEFINE S == inked(text)
      <3> HIDE DEF S
      <3>1. S \in SUBSET Nat /\ S # {} /\ Len(text) \in Nat /\ \A i \in S : i <= Len(text)
        BY <1>2, <2>1 DEF S
      <3>2. Min(S) \in S /\ \A y \in S : Min(S) <= y
        BY <3>1, MinIsLeast
      <3>3. Max(S) \in S
        BY <3>1, MaxIsGreatest
      <3>4. Min(S) <= Max(S)
        BY <3>2, <3>3
      <3> QED BY <3>2, <3>3, <3>4 DEF S
    <2>3. t = SubSeq(text, lo, hi)
      BY <1>2 DEF trimmed
    <2> HIDE DEF lo, hi
    <2>4. /\ lo \in 1 .. Len(text) /\ hi \in 1 .. Len(text)
          /\ ~is_space(text[lo]) /\ ~is_space(text[hi])
      BY <2>2
    <2>5. /\ t \in Seq(Chars) /\ Len(t) = hi - lo + 1
          /\ \A i \in 1 .. hi - lo + 1 : t[i] = text[lo + i - 1]
      BY <2>2, <2>3, <2>4
    <2>6. Len(t) \in Nat /\ 1 <= Len(t) /\ t[1] = text[lo] /\ t[Len(t)] = text[hi]
      BY <2>2, <2>4, <2>5
    <2>7. 1 \in inked(t) /\ Len(t) \in inked(t)
      BY <2>4, <2>5, <2>6
    <2>8. Min(inked(t)) = 1 /\ Max(inked(t)) = Len(t)
      <3> DEFINE S == inked(t)
      <3>1. S \in SUBSET Nat /\ \A i \in S : 1 <= i /\ i <= Len(t)
        BY <2>5
      <3>2. S # {} /\ 1 \in S /\ Len(t) \in S
        BY <2>7
      <3> HIDE DEF S
      <3>3. Min(S) \in S /\ \A y \in S : Min(S) <= y
        BY <3>1, <3>2, MinIsLeast
      <3>4. Max(S) \in S /\ \A y \in S : Max(S) >= y
        BY <2>6, <3>1, <3>2, MaxIsGreatest
      <3>5. Min(S) \in Nat /\ Max(S) \in Nat /\ Len(t) \in Nat
        BY <2>6, <3>1, <3>3, <3>4, Zenon
      <3>6. /\ Min(S) <= 1 /\ 1 <= Min(S) /\ Max(S) >= Len(t) /\ Max(S) <= Len(t)
        BY <3>1, <3>2, <3>3, <3>4, Zenon
      <3>7. Min(S) = 1 /\ Max(S) = Len(t)
        BY <3>5, <3>6
      <3> QED BY <3>7 DEF S
    <2>9. trimmed(t) = SubSeq(t, 1, Len(t))
      BY <2>7, <2>8 DEF trimmed
    <2>10. SubSeq(t, 1, Len(t)) = t
      BY <2>5
    <2>11. Len(t) <= Len(text)
      BY <2>4, <2>5
    <2> QED BY <2>5, <2>9, <2>10, <2>11
  <1> QED BY <1>1, <1>2

-----------------------------------------------------------------------------
(* Histories.                                                              *)

Command(c) == c \in Seq(Chars) /\ trimmed(c) = c /\ Len(c) \in 1 .. LINE_SIZE - 1

IsHistory(h) ==
    /\ h \in Seq(Seq(Chars)) /\ Len(h) <= HISTORY_SIZE
    /\ \A i \in 1 .. Len(h) : Command(h[i])
    /\ \A i \in 1 .. Len(h) - 1 : h[i] # h[i + 1]

(* push_history keeps a history one, and makes the command its newest.     *)
LEMMA PushedHistory ==
    ASSUME NEW h, IsHistory(h), NEW c, Command(c), NEW p, p = push_history(h, c)
    PROVE  IsHistory(p) /\ p # <<>> /\ Last(p) = c
  <1>1. h \in Seq(Seq(Chars)) /\ c \in Seq(Chars) /\ Len(h) \in Nat
    BY DEF IsHistory, Command
  <1>2. ASSUME NEW g \in Seq(Seq(Chars)), IsHistory(g), Len(g) < HISTORY_SIZE,
               g = <<>> \/ g[Len(g)] # c, p = Append(g, c)
        PROVE  IsHistory(p) /\ p # <<>> /\ Last(p) = c
    <2>1. /\ p \in Seq(Seq(Chars)) /\ Len(p) = Len(g) + 1 /\ p[Len(g) + 1] = c
          /\ \A i \in 1 .. Len(g) : p[i] = g[i]
      BY <1>1, <1>2
    <2>2. \A i \in 1 .. Len(p) : Command(p[i])
      BY <1>2, <2>1 DEF IsHistory
    <2>3. \A i \in 1 .. Len(p) - 1 : p[i] # p[i + 1]
      BY <1>2, <2>1 DEF IsHistory
    <2>4. p # <<>> /\ Last(p) = c
      BY <2>1 DEF Last
    <2> QED BY <1>2, <2>1, <2>2, <2>3, <2>4 DEF IsHistory
  <1>3. CASE h # <<>> /\ Last(h) = c
    BY <1>3 DEF push_history
  <1>4. CASE ~(h # <<>> /\ Last(h) = c) /\ Len(h) < HISTORY_SIZE
    <2>1. p = Append(h, c)
      BY <1>4 DEF push_history
    <2> QED BY <1>1, <1>2, <1>4, <2>1 DEF Last
  <1>5. CASE ~(h # <<>> /\ Last(h) = c) /\ ~(Len(h) < HISTORY_SIZE)
    <2>1. p = Append(Tail(h), c)
      BY <1>5 DEF push_history
    <2>2. h # <<>> /\ Len(h) \in Nat \ {0} /\ h[Len(h)] # c /\ Len(h) = HISTORY_SIZE
      BY <1>1, <1>5 DEF Last, IsHistory
    <2> DEFINE g == Tail(h)
    <2>3. /\ g \in Seq(Seq(Chars)) /\ Len(g) = Len(h) - 1
          /\ \A i \in 1 .. Len(g) : g[i] = h[i + 1]
      BY <1>1, <2>2
    <2> HIDE DEF g
    <2>4. IsHistory(g)
      <3>1. \A i \in 1 .. Len(g) : Command(g[i])
        BY <2>2, <2>3 DEF IsHistory
      <3>2. \A i \in 1 .. Len(g) - 1 : g[i] # g[i + 1]
        BY <2>2, <2>3 DEF IsHistory
      <3>3. Len(g) <= HISTORY_SIZE
        BY <2>2, <2>3
      <3> QED BY <2>3, <3>1, <3>2, <3>3 DEF IsHistory
    <2>5. g = <<>> \/ g[Len(g)] # c
      BY <2>2, <2>3
    <2>6. Len(g) < HISTORY_SIZE
      BY <2>2, <2>3
    <2> QED BY <1>2, <2>1, <2>3, <2>4, <2>5, <2>6 DEF g
  <1> QED BY <1>3, <1>4, <1>5

(* The line fits in its buffer, and the history is one; its newest command *)
(* is the last that was run.                                               *)
ShellInv ==
    /\ line \in Seq(Chars) /\ Len(line) < LINE_SIZE
    /\ IsHistory(history)
    /\ last # <<>> => history # <<>> /\ Last(history) = last
    /\ history_cursor \in 0 .. Len(history)

(* What set_line makes of a text is a line.                                *)
LEMMA LineSet ==
    ASSUME NEW text \in Seq(Chars), set_line(text)
    PROVE  line' \in Seq(Chars) /\ Len(line') < LINE_SIZE
  <1> DEFINE S == {LINE_SIZE - 1, Len(text)}
  <1>1. S \in SUBSET Nat /\ S # {} /\ LINE_SIZE - 1 \in S /\ Len(text) \in S
    OBVIOUS
  <1>2. line' = SubSeq(text, 1, Min(S))
    BY DEF set_line
  <1> HIDE DEF S
  <1>3. Min(S) \in S /\ \A y \in S : Min(S) <= y
    BY <1>1, MinIsLeast
  <1>4. Min(S) \in Nat /\ Min(S) <= LINE_SIZE - 1 /\ Min(S) <= Len(text)
    BY <1>1, <1>3
  <1> QED BY <1>2, <1>4

LEMMA Remembered ==
    ASSUME ShellInv, trimmed(line) # <<>>, Remember(trimmed(line)),
           line' \in Seq(Chars), Len(line') < LINE_SIZE
    PROVE  ShellInv'
  <1> DEFINE c == trimmed(line)
  <1>1. c \in Seq(Chars) /\ Len(c) <= Len(line) /\ trimmed(c) = c /\ c # <<>>
    BY TrimmedOnce DEF ShellInv
  <1>2. /\ history' = push_history(history, c) /\ history_cursor' = Len(history')
        /\ last' = c
    BY DEF Remember
  <1> HIDE DEF c
  <1>3. Len(c) \in 1 .. LINE_SIZE - 1
    <2>1. Len(line) \in Nat /\ Len(line) < LINE_SIZE /\ Len(c) \in Nat /\ Len(c) # 0
      BY <1>1 DEF ShellInv
    <2> QED BY <1>1, <2>1
  <1>4. Command(c)
    BY <1>1, <1>3 DEF Command
  <1>5. IsHistory(history') /\ history' # <<>> /\ Last(history') = c
    BY <1>2, <1>4, PushedHistory DEF ShellInv
  <1>6. history_cursor' \in 0 .. Len(history')
    BY <1>2, <1>5 DEF IsHistory
  <1> QED BY <1>2, <1>5, <1>6 DEF ShellInv

(* Whatever is typed, recalled and run, the history holds the commands as  *)
(* they were run, the newest last, none twice in a row, within the bounds  *)
(* of history[][] and of every line; and the cursor stays in it.           *)
THEOREM HistoryIsKept == Spec => []HistoryKept
  <1>1. Init => ShellInv
    <2> SUFFICES ASSUME Init PROVE ShellInv
      OBVIOUS
    <2>1. line = <<>> /\ history = <<>> /\ history_cursor = 0 /\ last = <<>>
      BY DEF Init
    <2>2. IsHistory(history)
      BY <2>1 DEF IsHistory
    <2> QED BY <2>1, <2>2 DEF ShellInv
  <1>2. ShellInv /\ [Next]_vars => ShellInv'
    <2> SUFFICES ASSUME ShellInv, [Next]_vars PROVE ShellInv'
      OBVIOUS
    <2>0. ASSUME UNCHANGED <<history, history_cursor, last>>,
                 line' \in Seq(Chars), Len(line') < LINE_SIZE
          PROVE  ShellInv'
      BY <2>0 DEF ShellInv
    <2>1. <<>> \in Seq(Chars) /\ Len(<<>>) < LINE_SIZE
      OBVIOUS
    <2>2. CASE Backspace
      <3>1. line # <<>> /\ line' = Front(line) /\ line \in Seq(Chars) /\ Len(line) < LINE_SIZE
        BY <2>2 DEF Backspace, ShellInv
      <3>2. line' \in Seq(Chars) /\ Len(line') < LINE_SIZE
        BY <3>1 DEF Front
      <3> QED BY <2>0, <2>2, <3>2 DEF Backspace
    <2>3. CASE Insert
      <3>1. PICK ch \in Chars : Len(line) + 1 < LINE_SIZE /\ line' = Append(line, ch)
        BY <2>3 DEF Insert, Chars
      <3>2. line' \in Seq(Chars) /\ Len(line') < LINE_SIZE
        BY <3>1 DEF ShellInv
      <3> QED BY <2>0, <2>3, <3>2 DEF Insert
    <2>4. CASE EnterNothing \/ CtrlC
      <3>1. line' = <<>> /\ UNCHANGED <<history, history_cursor, last>>
        BY <2>4 DEF EnterNothing, CtrlC, NewPrompt
      <3> QED BY <2>0, <2>1, <3>1
    <2>5. CASE EnterCommand \/ EnterExit
      <3>1. trimmed(line) # <<>> /\ Remember(trimmed(line)) /\ line' = <<>>
        BY <2>5 DEF EnterCommand, EnterExit, NewPrompt
      <3> QED BY <2>1, <3>1, Remembered
    <2>6. CASE CtrlL
      BY <2>0, <2>6 DEF CtrlL, ShellInv
    <2>7. CASE history_previous
      <3>1. /\ history # <<>> /\ history_cursor' = Max({history_cursor - 1, 0})
            /\ set_line(history[history_cursor' + 1])
            /\ history' = history /\ last' = last
        BY <2>7 DEF history_previous
      <3>2. history \in Seq(Seq(Chars)) /\ Len(history) \in Nat \ {0}
            /\ history_cursor \in 0 .. Len(history)
        BY <3>1 DEF ShellInv, IsHistory
      <3> DEFINE S == {history_cursor - 1, 0}
      <3>3. \E x \in S : \A y \in S : x >= y
        BY <3>2
      <3>4. Max(S) \in S /\ \A y \in S : Max(S) >= y
        BY <3>3 DEF Max
      <3>5. history_cursor' \in 0 .. Len(history) - 1
        BY <3>1, <3>2, <3>4
      <3>6. history[history_cursor' + 1] \in Seq(Chars)
        BY <3>2, <3>5
      <3>7. line' \in Seq(Chars) /\ Len(line') < LINE_SIZE
        BY <3>1, <3>6, LineSet
      <3>8. history_cursor' \in 0 .. Len(history')
        BY <3>1, <3>2, <3>5
      <3> QED BY <3>1, <3>7, <3>8 DEF ShellInv
    <2>8. CASE history_next
      <3>1. /\ history_cursor < Len(history) /\ history_cursor' = history_cursor + 1
            /\ set_line(IF history_cursor' = Len(history) THEN <<>>
                        ELSE history[history_cursor' + 1])
            /\ history' = history /\ last' = last
        BY <2>8 DEF history_next
      <3>2. history \in Seq(Seq(Chars)) /\ Len(history) \in Nat
            /\ history_cursor \in 0 .. Len(history)
        BY <3>1 DEF ShellInv, IsHistory
      <3> DEFINE text == IF history_cursor' = Len(history) THEN <<>>
                         ELSE history[history_cursor' + 1]
      <3>3. text \in Seq(Chars)
        BY <3>1, <3>2
      <3> HIDE DEF text
      <3>4. line' \in Seq(Chars) /\ Len(line') < LINE_SIZE
        BY <3>1, <3>3, LineSet DEF text
      <3>5. history_cursor' \in 0 .. Len(history')
        BY <3>1, <3>2
      <3> QED BY <3>1, <3>4, <3>5 DEF ShellInv
    <2>9. CASE UNCHANGED vars
      BY <2>9 DEF vars, ShellInv
    <2> QED BY <2>2, <2>3, <2>4, <2>5, <2>6, <2>7, <2>8, <2>9 DEF Next, handle_event
  <1>3. ShellInv => HistoryKept
    BY DEF ShellInv, IsHistory, Command, HistoryKept
  <1> QED BY <1>1, <1>2, <1>3, PTL DEF Spec

=============================================================================
