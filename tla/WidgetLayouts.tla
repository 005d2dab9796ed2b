---------------------------- MODULE WidgetLayouts ----------------------------
(***************************************************************************)
(* Widgets in layouts (PySide6/glue/qtwidgets.cpp): who owns a widget      *)
(* while it moves between Python, a layout without window, and a window.   *)
(*                                                                         *)
(* Qt makes what is in a layout of a window a child of the window; the     *)
(* glue tells the wrappers so before, by Shiboken's setParent(). A layout  *)
(* without window owns nothing: the glue keeps references in its wrapper,  *)
(* under the text of the wrapper, which has the layout's name in it. A     *)
(* wrapper nobody refers to is freed, with its object if Python owns it.   *)
(***************************************************************************)
EXTENDS Naturals, FiniteSets

CONSTANTS
  Widgets,
  Boxes,           \* the layouts
  NoParent,
  Titles,          \* names of layouts
  LayoutPrograms   \* the programs looked at

\* What a program may do: give a layout another name (renames); give widgets parents itself
\* (parents); take the parent away from a widget, or let go of its window, while a layout
\* without window has the widget, or take a layout with others in it out of a window
\* (careless).
ASSUME LayoutAssumption ==
  /\ Widgets \cap Boxes = {} /\ NoParent \notin Widgets \cup Boxes
  /\ IsFiniteSet(Widgets) /\ IsFiniteSet(Boxes) /\ Titles # {}
  /\ LayoutPrograms \subseteq SUBSET {"renames", "parents", "careless"}

Parts == Widgets \cup Boxes

VARIABLES
  manners,    \* of the program; they do not change
  made,       \* objects that exist
  up,         \* object -> its parent in Qt
  items,      \* layout -> widgets and layouts in it
  title,      \* layout -> its name
  held,       \* objects whose wrapper the program refers to
  above,      \* object -> the parent of its wrapper, which refers to it
  owned,      \* objects that Python owns
  kept        \* layout -> references of its wrapper: [key, part]

layoutVars == <<manners, made, up, items, title, held, above, owned, kept>>

-----------------------------------------------------------------------------
(* Qt and Shiboken *)

\* From an object upwards, as far as there are objects
Upwards(o, parent) ==
  LET path[n \in 0..Cardinality(Parts)] ==
        IF n = 0 THEN {o} ELSE path[n - 1] \cup ({parent[q] : q \in path[n - 1] \ {NoParent}})
  IN  path[Cardinality(Parts)] \ {NoParent}

Descendants(o) == {q \in made : o \in Upwards(q, up)}

\* QLayout::parentWidget(): the parent of the outermost layout
parentWidget(l) ==
  LET windows == {w \in Widgets : \E b \in Boxes \cap Upwards(l, up) : up[b] = w} IN
  IF windows = {} THEN NoParent ELSE CHOOSE w \in windows : TRUE

\* What is in a layout, and in those in it
Inside(l) == UNION {items[b] : b \in {c \in Boxes : l \in Upwards(c, up)}}

HasLayout(w) == \E l \in Boxes : up[l] = w

\* A wrapper is referred to by the program, by its parent's, and by those of layouts.
Referred(o) == o \in held \/ above[o] # NoParent \/ \E l \in made \cap Boxes : \E k \in kept[l] : k.part = o
Dying == {o \in made \cap owned : ~Referred(o)}
NoneDying == Dying = {}

\* Shiboken::Object::setParent() for several wrappers: a parent has the ownership, without
\* one it is Python's.
SetParents(S, p) ==
  /\ above' = [o \in Parts |-> IF o \in S THEN p ELSE above[o]]
  /\ owned' = IF p = NoParent THEN owned \cup {o \in S : above[o] # NoParent} ELSE owned \ S

-----------------------------------------------------------------------------
(* The program *)

NewPart(o) ==
  /\ NoneDying /\ o \notin made
  /\ made' = made \cup {o} /\ held' = held \cup {o} /\ owned' = owned \cup {o}
  /\ UNCHANGED <<manners, up, items, title, above, kept>>

\* A layout without window has the widget.
InOrphan(w) == \E l \in Boxes : w \in items[l] /\ parentWidget(l) = NoParent

\* The window of a widget that is in a layout without window
Window(w) == CHOOSE p \in Upwards(w, up) : up[p] = NoParent
StaysCareful ==
  "careless" \in manners \/ (\A w \in Widgets : InOrphan(w) /\ up[w] # NoParent => Window(w) \in held)'

Leave(o) ==
  /\ NoneDying /\ o \in held
  /\ held' = held \ {o}
  /\ UNCHANGED <<manners, made, up, items, title, above, owned, kept>>
  /\ StaysCareful

\* layout.setObjectName(); for one layout, once (bound).
FirstTitle == CHOOSE t \in Titles : TRUE
Rename(l, t) ==
  /\ NoneDying /\ "renames" \in manners /\ l \in held /\ t # FirstTitle
  /\ \A b \in Boxes : title[b] = FirstTitle
  /\ title' = [title EXCEPT ![l] = t]
  /\ UNCHANGED <<manners, made, up, items, held, above, owned, kept>>

\* Qt takes a widget that changes its parent out of the layout of the old one.
TakenFrom(w, p) ==
  [l \in Boxes |-> IF up[w] # p /\ up[w] # NoParent /\ parentWidget(l) = up[w] THEN items[l] \ {w} ELSE items[l]]

\* widget.setParent()
SetParentWidget(w, p) ==
  /\ NoneDying /\ "parents" \in manners
  /\ {w, p} \subseteq held \cup {NoParent} /\ p # up[w] /\ w \notin Upwards(p, up)
  /\ p = NoParent => "careless" \in manners \/ ~InOrphan(w)
  /\ up' = [up EXCEPT ![w] = p]
  /\ items' = TakenFrom(w, p)
  /\ SetParents({w}, p)
  /\ UNCHANGED <<manners, made, title, held, kept>>
  /\ StaysCareful

-----------------------------------------------------------------------------
(* addWidget(), addLayout() *)

\* Mutation of KeepsWhileOrphan: a reference of a layout in the layout only.
KeepsLayouts(l, o) == IF o \in Boxes THEN [kept EXCEPT ![l] = @ \cup {[key |-> title[l], part |-> o]}] ELSE kept

\* keepReference() under the text of the layout
KeepsWhileOrphan(l, o) == [kept EXCEPT ![l] = @ \cup {[key |-> title[l], part |-> o]}]

\* addLayoutOwnership(layout, widget), then Qt. (A widget is in one layout.)
AddWidget(l, w) ==
  LET lw == parentWidget(l)  pw == up[w] IN
  /\ NoneDying /\ {l, w} \subseteq held /\ w \notin Upwards(l, up)
  /\ \A b \in Boxes : w \notin items[b]
  /\ IF lw = NoParent /\ pw = NoParent
     THEN kept' = KeepsWhileOrphan(l, w) /\ UNCHANGED <<above, owned>>
     ELSE SetParents({w}, IF lw = NoParent THEN pw ELSE lw) /\ UNCHANGED kept
  /\ up' = [up EXCEPT ![w] = IF lw = NoParent THEN pw ELSE lw]
  /\ items' = [items EXCEPT ![l] = @ \cup {w}]
  /\ UNCHANGED <<manners, made, title, held>>
  /\ StaysCareful

\* The wrappers of what is in a layout in a window: that of a widget goes to the window,
\* that of a layout to the layout around it.
WithContents(other, l, lw) ==
  [o \in Parts |-> CASE o = other -> l
                     [] o \in Inside(other) \cap Widgets -> lw
                     [] o \in Inside(other) \cap Boxes -> l
                     [] OTHER -> above[o]]

\* addLayoutOwnership(layout, other), then Qt: with the contents.
AddLayout(l, other) ==
  LET lw == parentWidget(l) IN
  /\ NoneDying /\ {l, other} \subseteq held /\ l # other
  /\ up[other] = NoParent /\ other \notin Upwards(l, up)
  /\ lw \notin Inside(other) /\ \A w \in Inside(other) \cap Widgets : w \notin Upwards(lw, up)
  /\ IF lw = NoParent
     THEN kept' = KeepsWhileOrphan(l, other) /\ UNCHANGED <<above, owned>>
     ELSE /\ above' = WithContents(other, l, lw)
          /\ owned' = owned \ ({other} \cup Inside(other))
          /\ UNCHANGED kept
  /\ up' = [o \in Parts |-> CASE o = other -> l
                              [] o \in Inside(other) \cap Widgets /\ lw # NoParent -> lw
                              [] OTHER -> up[o]]
  /\ items' = [items EXCEPT ![l] = @ \cup {other}]
  /\ UNCHANGED <<manners, made, title, held>>
  /\ StaysCareful

-----------------------------------------------------------------------------
(* removeWidget(), removeItem() *)

\* removeWidgetFromLayout(): the parent has the widget, or the reference goes.
RemoveWidget(l, w) ==
  /\ NoneDying /\ {l, w} \subseteq held /\ w \in items[l]
  /\ IF up[w] # NoParent
     THEN SetParents({w}, up[w]) /\ UNCHANGED kept
     ELSE /\ kept' = [kept EXCEPT ![l] = {k \in @ : k # [key |-> title[l], part |-> w]}]
          /\ UNCHANGED <<above, owned>>
  /\ items' = [items EXCEPT ![l] = @ \ {w}]
  /\ UNCHANGED <<manners, made, up, title, held>>

\* removeLayoutOwnership(layout, item) of a layout in it: "item != l" never holds, so that
\* its contents stay as they are, with the wrapper of the layout around as their parent; so
\* do references.
RemoveLayout(l, other) ==
  /\ NoneDying /\ {l, other} \subseteq held /\ other \in items[l]
  /\ "careless" \in manners \/ \A b \in Inside(other) \cap Boxes : above[b] = NoParent
  /\ SetParents({other}, NoParent)
  /\ up' = [up EXCEPT ![other] = NoParent]
  /\ items' = [items EXCEPT ![l] = @ \ {other}]
  /\ UNCHANGED <<manners, made, title, held, kept>>
  /\ StaysCareful

-----------------------------------------------------------------------------
(* setLayout() *)

\* qwidgetReparentLayout() removes the references under the present texts.
ReferencesLeft(S) == [l \in Boxes |-> IF l \in S THEN {k \in kept[l] : k.key # title[l]} ELSE kept[l]]

\* qwidgetSetLayout(): not if the window has a layout, nor for one in another layout; one
\* of another window may be taken.
SetLayout(w, l) ==
  /\ NoneDying /\ {w, l} \subseteq held
  /\ ~HasLayout(w) /\ up[l] \in Widgets \cup {NoParent} /\ up[l] # w
  /\ w \notin Inside(l) /\ \A o \in Inside(l) \cap Widgets : o \notin Upwards(w, up)
  /\ LET boxes == {l} \cup (Inside(l) \cap Boxes)
         all == {l} \cup Inside(l)
     IN  /\ SetParents(boxes \cup {o \in Inside(l) \cap Widgets : up[o] # w}, w)
         /\ kept' = ReferencesLeft(boxes)
         /\ up' = [o \in Parts |-> IF o \in all \cap Widgets \/ o = l THEN w ELSE up[o]]
  /\ UNCHANGED <<manners, made, items, title, held>>
  /\ StaysCareful

-----------------------------------------------------------------------------
\* A wrapper is freed, and its object: with all children, out of the layouts of parents.
FreePart(o) ==
  LET gone == Descendants(o) IN
  /\ o \in Dying
  /\ made' = made \ gone /\ held' = held \ gone /\ owned' = owned \ gone
  /\ up' = [q \in Parts |-> IF q \in gone THEN NoParent ELSE up[q]]
  /\ items' = [l \in Boxes |-> IF l \in gone THEN {}
                               ELSE items[l] \ {q \in gone : up[q] # NoParent /\ up[q] \in {parentWidget(l), l}}]
  /\ above' = [q \in Parts |-> IF q \in gone \/ above[q] \in gone THEN NoParent ELSE above[q]]
  /\ kept' = [l \in Boxes |-> IF l \in gone THEN {} ELSE {k \in kept[l] : k.part \notin gone}]
  /\ title' = [l \in Boxes |-> IF l \in gone THEN FirstTitle ELSE title[l]]
  /\ UNCHANGED manners

LayoutInit ==
  /\ manners \in LayoutPrograms
  /\ made = {} /\ held = {} /\ owned = {}
  /\ up = [o \in Parts |-> NoParent] /\ above = [o \in Parts |-> NoParent]
  /\ items = [l \in Boxes |-> {}] /\ kept = [l \in Boxes |-> {}]
  /\ title = [l \in Boxes |-> FirstTitle]

LayoutNext ==
  \/ \E o \in Parts : NewPart(o) \/ Leave(o) \/ FreePart(o)
  \/ \E w \in Widgets, p \in Widgets \cup {NoParent} : SetParentWidget(w, p)
  \/ \E l \in Boxes : \/ \E t \in Titles : Rename(l, t)
                      \/ \E w \in Widgets : AddWidget(l, w) \/ RemoveWidget(l, w) \/ SetLayout(w, l)
                      \/ \E other \in Boxes : AddLayout(l, other) \/ RemoveLayout(l, other)

LayoutSpec == LayoutInit /\ [][LayoutNext]_layoutVars

-----------------------------------------------------------------------------
(* Properties *)

LayoutTypeOK ==
  /\ manners \in LayoutPrograms
  /\ made \subseteq Parts /\ held \subseteq made /\ owned \subseteq made
  /\ up \in [Parts -> Parts \cup {NoParent}] /\ above \in [Parts -> Parts \cup {NoParent}]
  /\ items \in [Boxes -> SUBSET Parts] /\ title \in [Boxes -> Titles]
  /\ kept \in [Boxes -> SUBSET [key : Titles, part : Parts]]

\* What is in a layout lives as long as the layout, through each way in and out of layouts
\* and windows: no wrapper is freed that still owns an item. What Python has given away
\* has a parent in Qt that deletes it, and the parent of a wrapper is above its object.
LayoutsHoldTheirItems ==
  NoneDying =>
    /\ \A l \in made \cap Boxes : items[l] \subseteq made
    /\ \A o \in made \ owned : up[o] # NoParent
    /\ \A o \in made : above[o] # NoParent => above[o] \in Upwards(o, up)
=============================================================================
