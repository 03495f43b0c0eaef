------------------------------ MODULE Reading ------------------------------
(***************************************************************************)
(* What a session reads: a bundle is loaded (OkfIndex.__init__), the scope *)
(* of each of its documents is looked for up its directories               *)
(* (effective_scopes of okf_mcp.scopes), the session's view is derived     *)
(* from the scopes (visible_to), and follow_links (Traversal) walks the    *)
(* view.  search_concepts (Search) ranks the same view.                    *)
(*                                                                         *)
(* A directory is the sequence of its names below the bundle's root.       *)
(***************************************************************************)
EXTENDS Traversal, SequencesExt

CONSTANTS
  Names,        \* names of directories
  Directories,  \* directories of the bundle, the root <<>> among them
  Labels,       \* scope labels
  Public,       \* the label "public"
  Absent,       \* frontmatter: no such field
  Malformed,    \* frontmatter: neither a label nor a list of labels
  Unset,        \* None
  Nothing

\* The steps of Search, the other tool.
SearchPhases == {"ranked", "merge", "answered", "failed"}

ScopeSets == (SUBSET Labels) \ {{}}
Fields == {Absent, Malformed} \cup ScopeSets

ASSUME PublicAssumption == Public \in Labels
ASSUME DirectoriesAssumption ==
  /\ Directories \subseteq Seq(Names) /\ <<>> \in Directories
  /\ \A d \in Directories \ {<<>>} : Front(d) \in Directories
ASSUME FieldAssumption ==
  /\ \A s \in ScopeSets : s \notin {Absent, Malformed, Unset}
  /\ Unset \notin {Absent, Malformed}
ASSUME NothingAssumption == Nothing \notin Concepts

VARIABLES
  where,        \* the directory of each concept
  scope,        \* field `scope` of each concept
  default,      \* field `scope_default` of the index of each directory
  caller,       \* scopes of the session
  phase,        \* load, ready (there is a view), and then the tool's
  pending,      \* documents the loop has not come to
  doc,          \* the document being resolved
  directory,    \* the directory to look at next
  scopes,       \* what is found for it
  resolved      \* the scopes of the documents done

bundle == <<where, scope, default, caller>>
loadVars == <<pending, doc, directory, scopes, resolved>>
walkVars == <<visible, hop, frontier, nextFrontier, seen, reached>>
readingVars == <<vars, bundle, phase, loadVars>>

-----------------------------------------------------------------------------
Declares(field) == field \notin {Absent, Malformed}
DeclaredScopes(field) == IF Declares(field) THEN field ELSE Unset
IsVisible(effective, held) == Public \in effective \/ effective \cap held # {}

\* Documents, session and question are there before the load.
Inputs ==
  /\ where \in [Concepts -> Directories]
  /\ scope \in [Concepts -> Fields]
  /\ default \in [Directories -> Fields]
  /\ caller \in SUBSET (Labels \ {Public})
  /\ links \in [Concepts -> SUBSET Targets]
  /\ depth \in Depths

\* Nothing is loaded, and there is no view.
Unread ==
  /\ phase = "load"
  /\ pending = Concepts
  /\ doc = Nothing
  /\ directory = <<>>
  /\ scopes = Unset
  /\ resolved = [c \in {} |-> {}]
  /\ visible = {}
  /\ hop = 1
  /\ frontier = {}
  /\ nextFrontier = {}
  /\ seen = {}
  /\ reached = [c \in Concepts |-> NotReached]

ReadingInit == Inputs /\ Unread

-----------------------------------------------------------------------------
\* Mutation of Take: what the document before was given is kept.
TakeWithoutReset(c) ==
  /\ doc = Nothing
  /\ c \in pending
  /\ doc' = c
  /\ pending' = pending \ {c}
  /\ scopes' = IF Declares(scope[c]) THEN scope[c] ELSE scopes
  /\ directory' = where[c]
  /\ UNCHANGED <<vars, bundle, phase, resolved>>

\* The next document.
Take(c) ==
  /\ doc = Nothing
  /\ c \in pending
  /\ doc' = c
  /\ pending' = pending \ {c}
  /\ scopes' = DeclaredScopes(scope[c])
  /\ directory' = where[c]
  /\ UNCHANGED <<vars, bundle, phase, resolved>>

\* What the loop leaves the document with.
Settle(found) ==
  /\ resolved' = [c \in DOMAIN resolved \cup {doc} |->
                    IF c # doc THEN resolved[c]
                    ELSE IF found = Unset THEN {Public} ELSE found]
  /\ doc' = Nothing

\* Mutation of Climb: the root is climbed from as well.
ClimbOn ==
  /\ doc # Nothing
  /\ scopes = Unset
  /\ scopes' = DeclaredScopes(default[directory])
  /\ directory' = Front(directory)
  /\ UNCHANGED <<vars, bundle, phase, pending, doc, resolved>>

\* One turn of the loop: the index of this directory, then the one above.
Climb ==
  /\ doc # Nothing
  /\ scopes = Unset
  /\ LET found == DeclaredScopes(default[directory])
     IN  /\ scopes' = found
         /\ IF directory = <<>>
            THEN Settle(found) /\ UNCHANGED directory
            ELSE directory' = Front(directory) /\ UNCHANGED <<doc, resolved>>
  /\ UNCHANGED <<vars, bundle, phase, pending>>

\* Mutation of Found: a document is left with no scope at all.
FoundNothing ==
  /\ doc # Nothing
  /\ scopes # Unset
  /\ resolved' = (doc :> {}) @@ resolved
  /\ doc' = Nothing
  /\ UNCHANGED <<vars, bundle, phase, pending, directory, scopes>>

\* The loop has found scopes.
Found ==
  /\ doc # Nothing
  /\ scopes # Unset
  /\ Settle(scopes)
  /\ UNCHANGED <<vars, bundle, phase, pending, directory, scopes>>

\* visible_to: the index the server serves this session.
VisibleTo ==
  /\ phase = "load"
  /\ pending = {}
  /\ doc = Nothing
  /\ visible' = {c \in Concepts : IsVisible(resolved[c], caller)}
  /\ phase' = "ready"
  /\ UNCHANGED <<links, depth, hop, frontier, nextFrontier, seen, reached,
                 bundle, loadVars>>

\* follow_links on the view: get_concept raises when the start is not in it.
Call ==
  /\ phase = "ready"
  /\ \/ start \in visible /\ phase' = "walk" /\ frontier' = {start}
     \/ start \notin visible /\ phase' = "refused" /\ UNCHANGED frontier
  /\ seen' = frontier'
  /\ UNCHANGED <<configVars, hop, nextFrontier, reached, bundle, loadVars>>

\* A step of follow_links.
Follow ==
  /\ phase = "walk"
  /\ Next
  /\ UNCHANGED <<bundle, phase, loadVars>>

Load == Climb \/ Found \/ VisibleTo \/ \E c \in pending : Take(c)
ReadingNext == Load \/ Call \/ Follow
ReadingSpec == ReadingInit /\ [][ReadingNext]_readingVars

-----------------------------------------------------------------------------
\* Every document done has a non-empty set of labels, and a walk has the types
\* of follow_links.
ReadingTypeOK ==
  /\ phase \in {"load", "ready", "walk", "refused"} \cup SearchPhases
  /\ pending \in SUBSET Concepts
  /\ doc \in {Nothing} \cup Concepts
  /\ directory \in Directories
  /\ scopes \in {Unset} \cup ScopeSets
  /\ DOMAIN resolved = (Concepts \ pending) \ {doc}
  /\ \A c \in DOMAIN resolved : resolved[c] \in ScopeSets
  /\ phase = "walk" => TypeOK

\* Of the directories above a concept, those whose index settles its scope.
Settling(c) ==
  {d \in Directories : IsPrefix(d, where[c]) /\ Declares(default[d])}

\* effective_scopes and visible_to: whether a session sees a concept is up to
\* the concept's own scope, else the default of the deepest directory above
\* it that has one, else it is public; neither what other directories, nor
\* what other documents say matters, and a malformed field counts as none.
NearestDecides ==
  phase # "load" => \A c \in Concepts :
    c \in visible <=>
      \/ Declares(scope[c]) /\ scope[c] \cap (caller \cup {Public}) # {}
      \/ /\ ~Declares(scope[c])
         /\ \A d \in Settling(c) :
              \/ default[d] \cap (caller \cup {Public}) # {}
              \/ \E e \in Settling(c) : Len(e) > Len(d)
=============================================================================
