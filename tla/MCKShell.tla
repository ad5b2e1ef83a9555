------------------------------ MODULE MCKShell ------------------------------
\* One-letter commands: u(se) with the core k, z (sleep), x (exit), r (reboot), l(ist);
\* a screen of two rows of six, a buffer of four characters, two words to a line.
EXTENDS KShell

MCUse == <<117>>
MCCore == {<<107>>}
MCCommand == [w \in {MCUse, <<122>>, <<120>>, <<114>>, <<108>>} |->
                 CASE w = MCUse   -> "use"
                   [] w = <<122>> -> "sleep"
                   [] w = <<120>> -> "exit"
                   [] w = <<114>> -> "reboot"
                   [] OTHER       -> "list"]
MCPrompt == <<62, 62>>
MCReply == <<60, NEWLINE>>
MCBehind == {<<>>, <<SPACE, 107>>}
MCGarbage == {<<>>, <<33>>}
MCKey == {117, 107, 122, 120, 114, SPACE, NEWLINE, BACKSPACE, HTAB, HELP, PERCENT}
=============================================================================
