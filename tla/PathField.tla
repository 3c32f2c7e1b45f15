------------------------------ MODULE PathField ------------------------------
(***************************************************************************)
(* The path in the form of a workspace (WorkspaceModal) and what the       *)
(* server makes of it (home-paths.ts): which directory a text denotes,     *)
(* whether it lies at home, and which directories complete it.             *)
(*                                                                         *)
(* A text is the sequence of the pieces between its slashes: "~/p" is      *)
(* <<"~", "p">>, "/" is <<"", "">> and no text at all is <<"">>.  A        *)
(* directory is the sequence of its names.  Blanks around a text, the case *)
(* of names, the order of suggestions and their limit of twelve, and       *)
(* answers kept for a text that is typed again are left out.               *)
(***************************************************************************)
EXTENDS Naturals, Sequences, SequencesExt, FiniteSets

CONSTANTS Home,      \* the home directory
          Texts,     \* what a user types
          Tree,      \* the directories there may be
          Starts,    \* pairs of names of which the first begins the second
          NoAnswer,  \* no answer yet
          MaxTyped   \* bound: texts typed

VARIABLES
  dirs,      \* the directories there are
  absPath,   \* the text in the field
  response,  \* the response that is shown: of this text or, until it is answered, of an
             \* earlier one
  entered,   \* history: what the user entered last and the directory it denotes
  typed      \* counter of the bound

vars == <<dirs, absPath, response, entered, typed>>

-----------------------------------------------------------------------------
(* home-paths.ts                                                           *)

\* One piece of a path, as resolve() takes it.
Step(d, piece) ==
  IF piece \in {"", "."} THEN d
  ELSE IF piece # ".." THEN Append(d, piece)
  ELSE IF d = <<>> THEN d ELSE Front(d)

resolve(from, t) == FoldLeft(Step, IF Len(t) > 1 /\ t[1] = "" THEN <<>> ELSE from, t)

resolveWorkspacePath(t) ==
  IF t \in {<<"">>, <<"~">>, <<"~", "">>} THEN Home
  ELSE resolve(Home, IF Len(t) > 1 /\ t[1] = "~" THEN Tail(t) ELSE t)

isWithinHomePath(d) == IsPrefix(Home, d)

toDisplayPath(d) ==
  IF d = Home THEN <<"~", "">> ELSE <<"~">> \o SubSeq(d, Len(Home) + 1, Len(d))

StartsWith(prefix, name) == prefix \in {"", name} \/ <<prefix, name>> \in Starts

\* Whether the children of what the text denotes are meant, or the names that complete its last.
WholeBySlash(t) == Last(t) = "" \/ t = <<"~">>
Whole(t) == Last(t) = "" \/ t = <<"~">> \/ resolveWorkspacePath(t) \in dirs

\* The nearest directory above a text that there is, and what its children must start with.
resolveSearchDirectory(t) ==
  LET target == resolveWorkspacePath(t)
      start == IF Whole(t) THEN target ELSE Front(target)
      n == CHOOSE n \in 0..Len(start) : /\ SubSeq(start, 1, n) \in dirs
                                        /\ \A m \in (n + 1)..Len(start) : SubSeq(start, 1, m) \notin dirs
  IN [directory |-> SubSeq(start, 1, n),
      prefix |-> IF n < Len(start) THEN start[n + 1] ELSE IF Whole(t) THEN "" ELSE Last(target)]

listHomePathSuggestions(t) ==
  LET target == resolveWorkspacePath(t)
      search == resolveSearchDirectory(t)
  IN [of |-> t, resolvedPath |-> target,
      withinHome |-> isWithinHomePath(target),
      isDirectory |-> isWithinHomePath(target) /\ target \in dirs,
      data |-> IF ~isWithinHomePath(target) THEN {}
               ELSE {d \in dirs : /\ d # <<>> /\ Front(d) = search.directory
                                  /\ StartsWith(search.prefix, Last(d))}]

-----------------------------------------------------------------------------
(* The page.                                                               *)

HomeText == <<"">> \o Home

normalizeWorkspacePathInput(t) ==
  IF t = <<"">> \/ t = HomeText THEN <<"~", "">>
  ELSE IF IsPrefix(HomeText, t) THEN <<"~">> \o SubSeq(t, Len(HomeText) + 1, Len(t))
  ELSE t

isHomeScopedInput(t) ==
  \/ t \in {<<"">>, <<"~">>, <<"~", "">>}
  \/ Len(t) > 1 /\ t[1] = "~" /\ \A i \in 2..Len(t) : t[i] # ".."
  \/ IsPrefix(HomeText, t)
  \/ ~(Len(t) > 1 /\ t[1] \in {"~", "", ".."})

\* pathWithinHome of the field: before the first answer the page does not know home.
pathWithinHome == response = NoAnswer \/ isHomeScopedInput(absPath)

\* Render with the text t and the response r: an effect rewrites the text once home is known.
Enter(t, r) ==
  /\ response' = r
  /\ absPath' = IF r = NoAnswer THEN t ELSE normalizeWorkspacePathInput(t)

-----------------------------------------------------------------------------
\* A name counts unless it is undone: for each ".." after it there is another name between.
Undone(p, i) ==
  \E j \in (i + 1)..Len(p) :
    LET count(up) == Cardinality({k \in (i + 1)..j : IF up THEN p[k] = ".."
                                                    ELSE p[k] \notin {"", ".", ".."}})
    IN count(TRUE) > count(FALSE)

\* What a text denotes, by its reading: "~" and a relative text start at home.
Denoted(t) ==
  LET p == IF Len(t) > 1 /\ t[1] = "" THEN t
           ELSE IF t[1] = "~" THEN Home \o Tail(t) ELSE Home \o t
      kept == {i \in DOMAIN p : p[i] \notin {"", ".", ".."} /\ ~Undone(p, i)}
  IN [i \in 1..Cardinality(kept) |-> p[CHOOSE k \in kept : Cardinality({l \in kept : l <= k}) = i]]

TypeOK ==
  /\ dirs \subseteq Tree
  /\ absPath # <<>>
  /\ response = NoAnswer \/ response.data \subseteq Tree
  /\ typed \in 0..MaxTyped

Entered(t, d) == entered' = [text |-> t, directory |-> d]

\* A new form has "~/", that of a saved workspace its path, which may be gone.
Init ==
  /\ dirs \in {D \in SUBSET Tree : Home \in D /\ \A d \in D : d = <<>> \/ Front(d) \in D}
  /\ absPath \in {<<"~", "">>} \cup {<<"">> \o d : d \in {e \in Tree : isWithinHomePath(e)}}
  /\ response = NoAnswer
  /\ entered = [text |-> absPath, directory |-> Denoted(absPath)]
  /\ typed = 0

Type(t) ==
  /\ typed' = typed + 1
  /\ Enter(t, response)
  /\ Entered(t, Denoted(t))
  /\ UNCHANGED dirs

\* GET /api/workspace-path-suggestions, asked for every text that is rendered.
Answer ==
  /\ response # NoAnswer => response.of # absPath
  /\ Enter(absPath, listHomePathSuggestions(absPath))
  /\ UNCHANGED <<dirs, entered, typed>>

\* The suggestions are offered while the shown response is not of a directory.
Pick(d) ==
  /\ response # NoAnswer /\ ~response.isDirectory /\ d \in response.data
  /\ Enter(toDisplayPath(d), response)
  /\ Entered(toDisplayPath(d), d)
  /\ UNCHANGED <<dirs, typed>>

Next ==
  \/ typed < MaxTyped /\ \E t \in Texts : Type(t)
  \/ Answer
  \/ \E d \in Tree : Pick(d)

Spec == Init /\ [][Next]_vars

-----------------------------------------------------------------------------
\* "~//p" and "/home//p": what follows the doubled slash is taken for an absolute path.
Doubled(t) ==
  \E start \in {<<"~">>, HomeText} :
    IsPrefix(start \o <<"">>, t) /\ Len(t) > Len(start) + 1

\* No piece of the text is skipped or goes up.
Plain(t) == \A i \in DOMAIN t : t[i] \notin {".", ".."} /\ (t[i] = "" => i \in {1, Len(t)})

(* Whatever the page makes of the text in the field (normalizeWorkspacePathInput() once home is   *)
(* known, the display path of a suggestion), the server resolves it to the directory the user     *)
(* entered (resolveWorkspacePath()), if no slash after home was doubled.                          *)
FieldKeepsDirectory ==
  ~Doubled(entered.text) => resolveWorkspacePath(absPath) = entered.directory

(* The page's own test of the text (isHomeScopedInput(), which disables Save) and the server's    *)
(* (isWithinHomePath() of the resolved path) agree on every text in which no piece is skipped or  *)
(* goes up.                                                                                       *)
GatesAgree ==
  response # NoAnswer /\ Plain(absPath) =>
    (pathWithinHome <=> isWithinHomePath(resolveWorkspacePath(absPath)))

(* What is suggested for a text at home are exactly the children of the deepest directory on its  *)
(* way that there is, which the next name of the text begins (listHomePathSuggestions(),          *)
(* resolveSearchDirectory(), whatever slash the text ends with).                                  *)
SuggestionsComplete ==
  response # NoAnswer /\ response.withinHome =>
    LET target == response.resolvedPath
        Above(d) == d \in dirs /\ IsPrefix(d, target)
        Completes(d) ==
          /\ d \in dirs \ {<<>>} /\ Above(Front(d)) /\ \A e \in dirs : Above(e) => Len(e) < Len(d)
          /\ Len(d) <= Len(target) => StartsWith(target[Len(d)], Last(d))
    IN response.data = {d \in dirs : Completes(d)}

PathsAgree == FieldKeepsDirectory /\ GatesAgree /\ SuggestionsComplete
=============================================================================
