---------------------------- MODULE MCTerminal ----------------------------
EXTENDS Terminal

MCSizes == {<<4, 3>>, <<3, 3>>, <<4, 2>>}
MCTexts == {<<"a">>, <<"b", "c">>, <<"W">>, <<Mark>>}
MCCounts == {1, 2}

Row(text) == Chars(text) \o Item("CRLF", 1)
Abcd == <<"a", "b", "c", "d">>
Rows(n) == FoldLeft(LAMBDA all, i : all \o Row(<<"a">>), <<>>, Upto(n))

Region(top, bottom) ==
  <<[op |-> "region", n |-> 0, text |-> <<top, bottom>>]>>

\* Nothing; short rows; a full row; a wrapped line above the cursor; rows
\* that have scrolled away; a wide character that wraps; the alternate screen;
\* a screen of wrapped lines; a continuation that is erased, then left alone;
\* a scroll region with insert mode or origin mode.
MCPast ==
  {<<>>,
   Row(<<"a">>) \o Chars(<<"b", "c">>),
   Chars(Abcd),
   Row(Abcd \o Abcd) \o Item("CUU", 1),
   Row(<<"a">>) \o Row(<<"b">>) \o Row(<<"c">>) \o Row(<<"d">>)
     \o Row(<<"e">>) \o Chars(<<"f">>),
   Row(<<"f">>) \o Row(<<"a", "b", "c", "W", "d">>),
   Chars(<<"a">>) \o Item("alt", 1) \o Row(<<"b">>) \o Chars(<<"c", "W">>),
   Row(Abcd \o <<"e", "f">>) \o Row(<<"g", "W", "h", "W">>) \o Chars(<<"i">>),
   Chars(Abcd \o <<"e">>) \o Item("CUB", 1) \o Item("ECH", 1)
     \o Item("CRLF", 1) \o Rows(3) \o Chars(<<"b">>),
   Row(<<"a">>) \o Chars(<<"W", "b">>) \o Region(1, 2) \o Item("insert", 1),
   Row(Abcd) \o Region(1, 2) \o Item("origin", 1) \o Chars(<<"e">>)}
=============================================================================
