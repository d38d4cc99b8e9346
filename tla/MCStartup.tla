------------------------------ MODULE MCStartup ------------------------------
(* Startup with some responses, for model checking.                        *)
EXTENDS Startup

StatusLine(code) ==
  <<Char("HTTP/"), Char("1.1"), Char("SP"), Token("digits", code), Char("SP"), Char("\n")>>

EmptyLine == <<Char("\n")>>

\* A final status line and the first token after it, two of them after an informational
\* one, with the empty line that ends it and without; a line that ends in the place of
\* the version, one without a code, no status line, and a line that breaks off.
MCResponses ==
  { StatusLine(200) \o <<Char("text")>>,
    StatusLine(404),
    StatusLine(101),
    StatusLine(100) \o StatusLine(200),
    StatusLine(100) \o EmptyLine \o StatusLine(200),
    <<Char("HTTP/"), Char("\n"), Char("SP"), Token("digits", 200), Char("\n")>>,
    <<Char("HTTP/"), Char("1.1"), Char("SP"), Char("text"), Char("\n")>> \o StatusLine(200),
    <<Char("text"), Char("\n")>>,
    SubSeq(StatusLine(200), 1, 4) }
=============================================================================
