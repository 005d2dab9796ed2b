---------------------------- MODULE MCDefinitions ----------------------------
(* For TLC: how classes are defined, constructed and registered, one part after the     *)
(* other. The parts share no state, so a behaviour is one of one part; the others rest, *)
(* each in one of its initial states.                                                   *)
EXTENDS MCProperties, MCConstruction, ClassBodies, QmlTypes, MCRemoteObjects

VARIABLE part

\* One class has every decorator; three are attached to something, one of them more than the
\* table takes; or two are, or name an extension, for themselves or as foreign classes.
Decorated(uses) == [c \in Classes |-> IF c \in DOMAIN uses THEN uses[c] ELSE {}]
SomeQmlPrograms == {
  Decorated(<<Decorators>>),
  Decorated(<<{"attached"}, {"attached"}, {"attached"}>>),
  Decorated(<<{"attached", "foreign"}, {"extension", "foreign"}>>)}

Parts == {"properties", "construction", "bodies", "registration", "remote"}

MCInit ==
  /\ part \in Parts
  /\ PropertyInit /\ ConstructionInit /\ ClassBodyInit /\ QmlInit /\ RemoteInit
  /\ part # "properties" => manner = {} /\ bases = CHOOSE h \in Hierarchies : TRUE
  /\ part # "construction" => mro = CHOOSE h \in Mros : TRUE
  /\ part # "bodies" => habit = {} /\ imported = {CHOOSE m \in Modules : TRUE}
  /\ part # "registration" => described = CHOOSE d \in QmlPrograms : TRUE
  /\ part # "remote" => conduct = {}

MCNext ==
  \/ part = "properties" /\ PropertyNext /\ UNCHANGED <<part, constructionVars, classBodyVars, qmlVars, remoteVars>>
  \/ part = "construction" /\ ConstructionNext /\ UNCHANGED <<part, propertyVars, classBodyVars, qmlVars, remoteVars>>
  \/ part = "bodies" /\ ClassBodyNext /\ UNCHANGED <<part, propertyVars, constructionVars, qmlVars, remoteVars>>
  \/ part = "registration" /\ QmlNext /\ UNCHANGED <<part, propertyVars, constructionVars, classBodyVars, remoteVars>>
  \/ part = "remote" /\ RemoteNext /\ UNCHANGED <<part, propertyVars, constructionVars, classBodyVars, qmlVars>>

MCSpec == MCInit /\ [][MCNext]_<<part, propertyVars, constructionVars, classBodyVars, qmlVars, remoteVars>>

\* Properties, constructors, class bodies, registrations and remote types are well-formed.
DefinitionsTypeOK ==
  PropertyTypeOK /\ ConstructionTypeOK /\ ClassBodyTypeOK /\ QmlTypeOK /\ RemoteTypeOK
=============================================================================
