------------------------------- MODULE PamStack -------------------------------
(***************************************************************************)
(* What `tess install` does to the text of a PAM service file.  A stack is *)
(* a sequence of lines; of a line only what the edit and its safety check  *)
(* look at is kept.                                                        *)
(***************************************************************************)
EXTENDS Naturals, Sequences, FiniteSetsExt

\* A control flag: a keyword, "required" for all but "optional", or "[]" and the
\* pairs of a bracket group.
Control(word, pairs) == [word |-> word, pairs |-> pairs]

Begin == [kind |-> "begin"]     \* BEGIN_MARKER and END_MARKER
End == [kind |-> "end"]
Other == [kind |-> "other"]     \* a line of another module, a comment
Malformed == [kind |-> "malformed"]
TessLine(control) == [kind |-> "tess", control |-> control]

\* The files that are no regular file stand beside the stacks.
Missing == <<[kind |-> "missing"]>>
Symlink == <<[kind |-> "symlink"]>>
Torn == <<[kind |-> "torn"]>>   \* written in part

Line ==
    [kind : {"begin", "end", "other", "malformed", "missing", "symlink"}]
    \cup [kind : {"tess"},
          control : [word : {"optional", "required", "[]"},
                     pairs : Seq(STRING \X STRING)]]

BlockText == <<Begin, TessLine(Control("optional", <<>>)), End>>

-----------------------------------------------------------------------------

\* The ends of blocks: an end marker with a begin marker before it.
BlockEnds(s) ==
    {e \in DOMAIN s : s[e] = End /\ \E b \in 1..e : s[b] = Begin}

HasBlock(s) == BlockEnds(s) # {}

\* Mutant: an end is paired with the first begin marker.
SpanFromFirst(s) ==
    LET e == Min(BlockEnds(s))
    IN  <<Min({b \in 1..e : s[b] = Begin}), e>>

\* The first end pairs with the last begin marker before it.
MarkerSpan(s) ==
    LET e == Min(BlockEnds(s))
    IN  <<Max({b \in 1..e : s[b] = Begin}), e>>

Without(s, span) ==
    SubSeq(s, 1, span[1] - 1) \o SubSeq(s, span[2] + 1, Len(s))

\* One turn of the loop; mutant of RemoveBlock: only the first block goes.
RemoveFirstBlock(s) == IF HasBlock(s) THEN Without(s, MarkerSpan(s)) ELSE s

\* Every block goes, and what the removal of one makes a block of.
RemoveBlock(s) ==
    LET removed[n \in Nat] ==
            IF n = 0 THEN s ELSE RemoveFirstBlock(removed[n - 1])
    IN  removed[Len(s)]

AddBlock(s) == RemoveBlock(s) \o BlockText

-----------------------------------------------------------------------------

\* Mutant: a group that ignores by default is taken for safe.
DefaultIgnores(control) ==
    control.word = "optional" \/ <<"default", "ignore">> \in
        {control.pairs[i] : i \in DOMAIN control.pairs}

\* Every code but success falls through, the default included.
ControlIsFailOpen(control) ==
    \/ control.word = "optional"
    \/ /\ control.word = "[]"
       /\ \E i \in DOMAIN control.pairs : control.pairs[i][1] = "default"
       /\ \A i \in DOMAIN control.pairs :
             control.pairs[i][2] \in
                 IF control.pairs[i][1] = "success" THEN {"ok", "done", "ignore"}
                 ELSE {"ignore"}

ValidateStack(s) ==
    \A i \in DOMAIN s :
        /\ s[i] # Malformed
        /\ s[i].kind = "tess" => ControlIsFailOpen(s[i].control)

-----------------------------------------------------------------------------
(* What PAM makes of a control flag: the last pair that names a code counts, *)
(* then the default, and without one the stack fails.                        *)

PamAction(control, code) ==
    LET pairs == control.pairs
        naming(key) == {i \in DOMAIN pairs : pairs[i][1] = key}
    IN  CASE control.word = "optional" ->
               IF code = "success" THEN "ok" ELSE "ignore"
          [] control.word = "required" ->
               IF code = "success" THEN "ok" ELSE "bad"
          [] control.word = "[]" /\ naming(code) # {} ->
               pairs[Max(naming(code))][2]
          [] control.word = "[]" /\ naming(code) = {} /\ naming("default") # {} ->
               pairs[Max(naming("default"))][2]
          [] OTHER -> "bad"

-----------------------------------------------------------------------------
(* What belongs to the administrator, whatever the edit makes of it: tess    *)
(* owns the lines of a block, a begin marker and the end that is the next    *)
(* marker after it.                                                          *)

IsBlock(s, b, e) ==
    /\ b < e /\ s[b] = Begin /\ s[e] = End
    /\ \A i \in DOMAIN s : b < i /\ i < e => s[i] # Begin /\ s[i] # End

Foreign(s) ==
    {i \in DOMAIN s :
        /\ s[i] # Begin /\ s[i] # End
        /\ \A b, e \in DOMAIN s : IsBlock(s, b, e) => ~(b < i /\ i < e)}

\* A begin and an end after it that belong to no block: there is one between.
Nested(s) ==
    \E b, e \in DOMAIN s :
        /\ b < e /\ s[b] = Begin /\ s[e] = End
        /\ \A x \in DOMAIN s : ~IsBlock(s, b, x) /\ ~IsBlock(s, x, e)

\* The foreign lines of s are those of t, in their order.
SameForeign(s, t) ==
    \E at \in [Foreign(s) -> Foreign(t)] :
        /\ \A i \in Foreign(s) : t[at[i]] = s[i]
        /\ \A i, j \in Foreign(s) : i < j => at[i] < at[j]
        /\ \A k \in Foreign(t) : \E i \in Foreign(s) : at[i] = k

\* A stack in which no failure of tess counts for or against a login.
FailsOpen(s) ==
    \A i \in DOMAIN s : s[i].kind = "tess" =>
        \A code \in {"auth_err", "session_err"} :
            PamAction(s[i].control, code) = "ignore"
=============================================================================
