------------------------------ MODULE CodeLinks ------------------------------
(***************************************************************************)
(* The links of an answer of codex (renderable-content.tsx): which file a  *)
(* text means, at which line, and how the page carries that from the text  *)
(* to the preview.                                                         *)
(*                                                                         *)
(* The path of a text is the sequence of the pieces between its slashes,   *)
(* as in PathField; after it there may be a suffix, ":line" or             *)
(* ":line:column", and a hash, "#Lline" or "#LlineCcolumn", each the       *)
(* sequence of its numbers.  Number 0 is the code's null.  Only a name has *)
(* a suffix.  Brackets and blanks around a text, backslashes, drives and   *)
(* the case of names are left out, and so is what is not a link.           *)
(***************************************************************************)
EXTENDS Naturals, Sequences, SequencesExt

CONSTANTS LinkTexts,  \* the texts of links
          LinkCwds,   \* directories of threads as texts, or NoCwd
          NoCwd,
          Roots,      \* names below / that hold homes: "Users" and "home"
          Code,       \* names with an extension of code
          Extended,   \* names with an extension
          Makefiles,  \* "Makefile" and "Dockerfile"
          NoLink,
          Served(_),      \* resolveWorkspacePath() of the server, on a text
          Resolved(_, _)  \* resolve() of a text against a directory

VARIABLE link  \* what is shown of a text: its address, and what a click opens

Special == {"", ".", "..", "~"}

Local(path, hash) == [kind |-> "local", path |-> path, hash |-> hash]
Proxy(path, hash) == [kind |-> "proxy", path |-> path, hash |-> hash]

Path(pieces, suffix) == [pieces |-> pieces, suffix |-> suffix]

-----------------------------------------------------------------------------
Line(numbers) == IF numbers = <<>> THEN 0 ELSE numbers[1]
Column(numbers) == IF Len(numbers) < 2 THEN 0 ELSE numbers[2]

\* A suffix that is no position, after a name without extension, stays in the path.
parseInlineLineSuffix(path) ==
  IF Last(path.pieces) \in Extended
  THEN [path |-> Path(path.pieces, <<>>), line |-> Line(path.suffix), column |-> Column(path.suffix)]
  ELSE [path |-> path, line |-> 0, column |-> 0]

looksLikeAbsolutePosixFilePath(path) ==
  /\ Len(path.pieces) > 1 /\ path.pieces[1] = "" /\ path.pieces[2] # ""
  /\ Last(path.pieces) \in Extended \/ (Last(path.pieces) \in Makefiles /\ path.suffix = <<>>)

\* "name:3" reads as an address of the scheme "name".
LooksLikeScheme(path) ==
  Len(path.pieces) = 1 /\ path.pieces[1] \notin Special /\ path.suffix # <<>>

\* One piece of a relative path.  Mutation: "..", whatever is left.
JoinAlways(stack, piece) ==
  IF piece \in {"", "."} THEN stack
  ELSE IF piece # ".." THEN Append(stack, piece)
  ELSE IF stack = <<>> THEN stack ELSE Front(stack)

JoinPiece(stack, piece) ==
  IF piece \in {"", "."} THEN stack
  ELSE IF piece # ".." THEN Append(stack, piece)
  ELSE IF Len(stack) > 1 THEN Front(stack) ELSE stack

joinPosixPath(base, relative) ==
  LET joined == FoldLeft(JoinPiece, IF Last(base) = "" THEN Front(base) ELSE base, relative)
  IN IF joined \in {<<>>, <<"">>} THEN <<"", "">> ELSE joined

resolveLocalResourcePath(path, cwd) ==
  LET pieces == path.pieces
  IN IF \/ Len(pieces) > 1 /\ pieces[1] = "~"
        \/ Len(pieces) > 2 /\ pieces[1] = "" /\ pieces[2] \in Roots
        \/ looksLikeAbsolutePosixFilePath(path)
     THEN path
     ELSE IF cwd # NoCwd /\ (pieces[1] # "" \/ Len(pieces) = 1) /\ ~LooksLikeScheme(path)
     THEN Path(joinPosixPath(cwd, pieces), path.suffix)
     ELSE NoLink

Reference(path, line, column) == [path |-> path, line |-> line, column |-> column]

resolveLocalReference(text, cwd) ==
  IF text.kind = "web" \/ (text.kind = "local" /\ text.path.pieces = <<"">> /\ text.hash = <<>>)
  THEN NoLink
  ELSE IF text.kind = "proxy"
  THEN Reference(text.path, Line(text.hash), Column(text.hash))
  ELSE LET suffix == parseInlineLineSuffix(text.path)
           path == resolveLocalResourcePath(suffix.path, cwd)
       IN IF path = NoLink THEN NoLink
          ELSE Reference(path, IF suffix.line # 0 THEN suffix.line ELSE Line(text.hash),
                               IF suffix.column # 0 THEN suffix.column ELSE Column(text.hash))

buildProxyResourceUrl(r) ==
  Proxy(r.path, IF r.line = 0 THEN <<>>
                ELSE IF r.column = 0 THEN <<r.line>> ELSE <<r.line, r.column>>)

\* An address of the web, and a place in the page, stay as they are.
resolveRenderableResourceUrl(text, cwd) ==
  LET r == resolveLocalReference(text, cwd)
  IN IF text.kind # "local" \/ text.path.pieces = <<"">> \/ r = NoLink THEN text
     ELSE buildProxyResourceUrl(r)

looksLikeCodePath(path) == path.suffix = <<>> /\ Last(path.pieces) \in Code \cup Makefiles

detectCodeLinkReference(text, cwd) ==
  LET r == resolveLocalReference(text, cwd)
  IN IF r # NoLink /\ looksLikeCodePath(r.path) THEN r ELSE NoLink

-----------------------------------------------------------------------------
\* react-markdown gives the anchor an address that is resolved already (urlTransform), and
\* the anchor takes the reference from that.
Shown(text, cwd) ==
  LET href == resolveRenderableResourceUrl(text, cwd)
  IN [text |-> text, cwd |-> cwd, href |-> resolveRenderableResourceUrl(href, cwd),
      codeLink |-> detectCodeLinkReference(href, cwd)]

Init == link = NoLink

\* Each text by itself: what is shown depends on nothing else.
Render(text, cwd) == link' = Shown(text, cwd)

Next == link = NoLink /\ \E text \in LinkTexts, cwd \in LinkCwds : Render(text, cwd)

Spec == Init /\ [][Next]_link

-----------------------------------------------------------------------------
\* What a text means, by its reading: "~" is home, the rest is relative to the directory.
Meant(pieces, cwd) ==
  IF pieces[1] = "~" /\ Len(pieces) > 1 THEN Served(pieces)
  ELSE Resolved(IF cwd = NoCwd THEN <<>> ELSE Resolved(<<>>, cwd), pieces)

(* A click opens what the text says: the file the server finds for the address is the one *)
(* the text means in the directory of the thread, at the line and column of the text, and *)
(* neither a place in the page nor an address of the web opens a file.  A column without  *)
(* a line is lost; and in a directory that is named like a file of code every place in    *)
(* the page is taken for that file (renderable-content.tsx:474, 224).                     *)
LinksAreTrue ==
  link # NoLink =>
    LET text == link.text
        direct == detectCodeLinkReference(text, link.cwd)
    IN /\ \/ link.codeLink = direct
          \/ direct # NoLink /\ direct.line = 0 /\ link.codeLink = [direct EXCEPT !.column = 0]
       /\ (link.href.kind = "proxy" /\ text.kind = "local") =>
             /\ Served(link.href.path.pieces) = Meant(text.path.pieces, link.cwd)
             /\ looksLikeCodePath(link.href.path) <=> link.codeLink # NoLink
       /\ (link.codeLink # NoLink /\ link.href.kind # "proxy") =>
             text.path.pieces = <<"">> /\ Last(Resolved(<<>>, link.cwd)) \in Code \cup Makefiles
=============================================================================
