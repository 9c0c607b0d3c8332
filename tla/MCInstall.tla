------------------------------ MODULE MCInstall ------------------------------
(* PamInstall for TLC: the stacks of up to three lines with markers put in   *)
(* any order, some of them longer, and the tess lines an administrator might *)
(* have written himself.                                                     *)
EXTENDS PamInstall

Upto(n, lines) == UNION {[1..k -> lines] : k \in 0..n}

HandWritten ==
    {Control("optional", <<>>), Control("required", <<>>),
     Control("[]", << <<"success", "done">>, <<"default", "ignore">> >>),
     Control("[]", << <<"default", "ignore">>, <<"auth_err", "die">> >>),
     Control("[]", << <<"session_err", "ok">>, <<"default", "ignore">> >>),
     Control("[]", << <<"default", "die">> >>),
     Control("[]", << <<"success", "ok">> >>)}

Stacks ==
    Upto(3, {Begin, End, Other})
    \cup {<<Other, TessLine(c)>> : c \in HandWritten}
    \cup {BlockText \o <<Other>> \o BlockText,
          <<Begin, Other>> \o BlockText \o <<End>>,
          <<End, Other, Begin, Other>> \o BlockText
              \o <<TessLine(Control("optional", <<>>)), Begin>>,
          <<Malformed>>, Missing, Symlink}
=============================================================================
