---------------------------- MODULE ConfigPlugin ----------------------------
(***************************************************************************)
(* GreenConfig: the configuration database, the plugin around it, the      *)
(* private databases of GCnf_private_Api, and the APIs through which       *)
(* parameters register themselves and users are told of new ones.          *)
(*                                                                         *)
(* A module may own a private API.  A parameter registers through the API  *)
(* of the nearest enclosing module that has one when the parameter is      *)
(* built; a private API keeps the names below its owner except the public  *)
(* ones, and passes all else to its parent API, the nearest one outside    *)
(* when the private API was built.  "root" is the database of the plugin,  *)
(* which all APIs of the core (RootApis) share.                            *)
(*                                                                         *)
(* Users call the operations at the top level or inside a callback for a   *)
(* new parameter, so notifications nest: stack.  Writes run the callbacks  *)
(* of the parameter, which are the subject of GsParam.  is_used flags and  *)
(* events for new parameters are left out; setParam is getPar followed by  *)
(* setString or setInitValue.                                              *)
(***************************************************************************)
EXTENDS Naturals, SequencesExt

CONSTANTS
  Names, Objs,          \* parameter names, gs_param objects
  Strings, Values,      \* what setInitValue is given; the strings that parameters can parse
  Owners, RootApis,     \* modules with a private API, other APIs
  Outer,                \* Outer[m]: the module around m, or "top"
  Home,                 \* Home[n]: the module in which parameters called n are built
  Local,                \* Local[m]: the names that start with the name of m
  RootApi,              \* RootApi[m]: the API of module m without private API around it
  MaxCallbacks, MaxDepth    \* bounds: registered user callbacks, nested notifications

Apis == RootApis \cup Owners
Modules == Owners \cup {"top"}

(* Modules are nested in each other; "none" stands for no value, no parameter *)
(* and no API, "user" for a callback of a user.                               *)
ASSUME Nesting ==
  /\ IsFiniteSet(Owners) /\ Outer \in [Owners -> Modules] /\ Home \in [Names -> Modules]
  /\ \E depth \in [Owners -> 1 .. Cardinality(Owners)] :
       \A m \in Owners : Outer[m] \in Owners => depth[Outer[m]] < depth[m]
  /\ Local \in [Owners -> SUBSET Names] /\ RootApi \in [Modules -> RootApis]
  /\ {"top", "root", "user", "none"} \cap Owners = {} /\ RootApis \cap (Owners \cup {"none"}) = {}
  /\ "none" \notin Objs \cup Strings \cup Values

Scopes == {"root"} \cup Owners
Absent == [exists |-> FALSE, init |-> "none", locked |-> FALSE, param |-> "none"]
Dead == [live |-> FALSE, name |-> "none", api |-> "none", val |-> "default"]

VARIABLES
  db,      \* m_parameter_database of each scope
  obj,     \* the gs_params
  public_params,    \* of each private API; chosen by its owner
  mApi,    \* parent API of each private API, "none" before it is built
  cbs,     \* m_observer_callback_map of each API: "user", or the private API whose new_param_callback it is
  stack    \* notifications in progress, the innermost last

vars == <<db, obj, public_params, mApi, cbs, stack>>

Init ==
  /\ db = [sc \in Scopes |-> [n \in Names |-> Absent]]
  /\ obj = [o \in Objs |-> Dead]
  /\ public_params \in [Owners -> SUBSET Names]
  /\ mApi = [m \in Owners |-> "none"]
  /\ cbs = [a \in Apis |-> <<>>]
  /\ stack = <<>>
-----------------------------------------------------------------------------
(* handleApiInstances keeps the APIs that have been built *)
Existing == RootApis \cup {m \in Owners : mApi[m] # "none"}

(* handleApiInstances: the private API with the longest matching name *)
ApiOf(mod) ==
  LET f[x \in Modules] ==
        IF x = "top" THEN RootApi[mod] ELSE IF mApi[x] # "none" THEN x ELSE f[Outer[x]]
  IN f[mod]

(* the database in which API a looks for n *)
IsPublic(x, n) == n \notin Local[x] \/ n \in public_params[x]
ScopeOf(a, n) ==
  LET f[x \in Existing] == IF x \in RootApis THEN "root" ELSE IF IsPublic(x, n) THEN f[mApi[x]] ELSE x
  IN f[a]

Above(a) ==
  LET f[x \in Existing] == {x} \cup (IF x \in RootApis THEN {} ELSE f[mApi[x]]) IN f[a]

(* a registration at a private API first registers that API at its parent,
   unless it is registered already; so do the APIs above it *)
SubscribedAgain(a) ==     \* mutant
  [x \in Apis |-> IF x = a THEN Append(cbs[x], "user")
                  ELSE cbs[x] \o SetToSeq({p \in Above(a) \cap Owners : mApi[p] = x})]
Subscribed(a) ==
  [x \in Apis |-> IF x = a THEN Append(cbs[x], "user")
                  ELSE cbs[x] \o SetToSeq({p \in Above(a) \cap Owners : mApi[p] = x /\ cbs[p] = <<>>})]
-----------------------------------------------------------------------------
(* Notifications *)

Callbacks == UNION {{a} \X DOMAIN cbs[a] : a \in Apis}
Registered == {c \in Callbacks : cbs[c[1]][c[2]] = "user"}

Observers(apis) == {a \in apis : cbs[a] # <<>>}

(* sendNewParameterNotify: the plugin goes through a copy of the observing APIs,
   a private plugin knows one.  owed, heard and twice are ghosts. *)
Publish(sc, o) ==
  LET root == sc = "root"
      note == [obj |-> o, user |-> FALSE, heard |-> {}, twice |-> FALSE,
               owed |-> {c \in Registered : root \/ sc \in Above(c[1])},
               todo |-> IF root THEN Observers(RootApis) ELSE {},
               path |-> IF root THEN <<>> ELSE <<[api |-> sc, at |-> 1]>>]
      observed == Observers(IF root THEN RootApis ELSE {sc}) # {}
  IN stack' = IF observed THEN Append(stack, note) ELSE stack

Top == Last(stack)
SetTop(x) == stack' = Append(Front(stack), x)
Advance(path) == IF path = <<>> THEN path ELSE [path EXCEPT ![Len(path)].at = @ + 1]
CallsAllowed == stack # <<>> => Top.user

NotifyApi(a) ==     \* the core hands CMD_NOTIFY_NEW_PARAM_OBSERVER to the next observer
  /\ stack # <<>> /\ Top.path = <<>> /\ a \in Top.todo
  /\ SetTop([Top EXCEPT !.todo = @ \ {a}, !.path = <<[api |-> a, at |-> 1]>>])
  /\ UNCHANGED <<db, obj, public_params, mApi, cbs>>

MakeCallbacks ==     \* goes through the list as it is now
  LET f == Last(Top.path)
      me == <<f.api, f.at>>
  IN /\ stack # <<>> /\ ~Top.user /\ Top.path # <<>>
     /\ IF f.at > Len(cbs[f.api]) THEN SetTop([Top EXCEPT !.path = Advance(Front(@))])
        ELSE IF cbs[f.api][f.at] # "user"
             THEN SetTop([Top EXCEPT !.path = Append(@, [api |-> cbs[f.api][f.at], at |-> 1])])
        ELSE SetTop([Top EXCEPT !.user = TRUE, !.heard = @ \cup {me}, !.twice = @ \/ me \in Top.heard])
     /\ UNCHANGED <<db, obj, public_params, mApi, cbs>>

UserReturns ==
  /\ stack # <<>> /\ Top.user
  /\ SetTop([Top EXCEPT !.user = FALSE, !.path = Advance(@)])
  /\ UNCHANGED <<db, obj, public_params, mApi, cbs>>

Notified == Top.path = <<>> /\ Top.todo = {}
NotifyEnds ==
  /\ stack # <<>> /\ Notified
  /\ stack' = Front(stack)
  /\ UNCHANGED <<db, obj, public_params, mApi, cbs>>
-----------------------------------------------------------------------------
(* Operations *)

SetString(x, v) == IF v \in Values THEN [x EXCEPT !.val = v] ELSE x

(* addParam of the database: a value set before comes with the name *)
Initialized(x, e) == IF e.init = "none" THEN x ELSE SetString(x, e.init)

(* A duplicate is only warned of at the plugin and lives on unregistered; at a
   private database it raises an error: no parameter is built. *)
Construct(o, n) ==
  LET a == ApiOf(Home[n])
      sc == ScopeOf(a, n)
      e == db[sc][n]
      explicit == e.param # "none"
  IN /\ CallsAllowed /\ ~obj[o].live /\ Len(stack) < MaxDepth
     /\ explicit => sc = "root"
     /\ obj' = [obj EXCEPT ![o] = Initialized([Dead EXCEPT !.live = TRUE, !.name = n, !.api = a], e)]
     /\ IF explicit THEN UNCHANGED <<db, stack>>
        ELSE /\ db' = [db EXCEPT ![sc][n].exists = TRUE, ![sc][n].param = o]
             /\ Publish(sc, o)
     /\ UNCHANGED <<public_params, mApi, cbs>>

RemovalScopeNow(x) == ScopeOf(ApiOf(Home[x.name]), x.name)     \* mutant
RemovalScope(x) == ScopeOf(x.api, x.name)
Erased(e) == Absent     \* mutant
Implicit(e) == [e EXCEPT !.param = "none"]

(* removeParam empties the entry, whichever parameter of the name dies *)
Destroy(o) ==
  /\ CallsAllowed /\ obj[o].live /\ \A i \in DOMAIN stack : stack[i].obj # o
  /\ db' = [db EXCEPT ![RemovalScope(obj[o])][obj[o].name] = Implicit(@)]
  /\ obj' = [obj EXCEPT ![o] = Dead]
  /\ UNCHANGED <<public_params, mApi, cbs, stack>>

Write(o, v) ==
  /\ CallsAllowed /\ obj[o].live
  /\ obj' = [obj EXCEPT ![o] = SetString(@, v)]
  /\ UNCHANGED <<db, public_params, mApi, cbs, stack>>

Settable(e) == ~e.locked     \* asked before the database is, also when the parameter exists

SetInitValue(a, n, v) ==
  LET sc == ScopeOf(a, n)
      e == db[sc][n]
  IN /\ CallsAllowed /\ a \in Existing /\ Len(stack) < MaxDepth /\ Settable(e)
     /\ IF e.param # "none"
        THEN obj' = [obj EXCEPT ![e.param] = SetString(@, v)] /\ UNCHANGED <<db, stack>>
        ELSE /\ db' = [db EXCEPT ![sc][n].exists = TRUE, ![sc][n].init = v]
             /\ IF e.exists THEN UNCHANGED stack ELSE Publish(sc, "none")
             /\ UNCHANGED obj
     /\ UNCHANGED <<public_params, mApi, cbs>>

LockInitValue(a, n) ==
  LET sc == ScopeOf(a, n)
      e == db[sc][n]
  IN /\ CallsAllowed /\ a \in Existing /\ e.exists /\ e.param = "none" /\ ~e.locked
     /\ db' = [db EXCEPT ![sc][n].locked = TRUE]
     /\ UNCHANGED <<obj, public_params, mApi, cbs, stack>>

CreatePrivateApi(m) ==
  /\ CallsAllowed /\ mApi[m] = "none"
  /\ mApi' = [mApi EXCEPT ![m] = ApiOf(Outer[m])]
  /\ UNCHANGED <<db, obj, public_params, cbs, stack>>

RegisterNewParamCallback(a) ==
  /\ CallsAllowed /\ a \in Existing /\ Cardinality(Registered) < MaxCallbacks
  /\ cbs' = Subscribed(a)
  /\ UNCHANGED <<db, obj, public_params, mApi, stack>>

Next ==
  \/ \E a \in RootApis : NotifyApi(a)
  \/ MakeCallbacks \/ UserReturns \/ NotifyEnds
  \/ \E o \in Objs : Destroy(o) \/ (\E n \in Names : Construct(o, n)) \/ (\E v \in Values : Write(o, v))
  \/ \E a \in Apis, n \in Names : LockInitValue(a, n) \/ \E v \in Strings : SetInitValue(a, n, v)
  \/ \E m \in Owners : CreatePrivateApi(m)
  \/ \E a \in Apis : RegisterNewParamCallback(a)

Spec == Init /\ [][Next]_vars
-----------------------------------------------------------------------------
(* A database holds no dangling pointer, although private APIs appear between
   the construction and the destruction of a parameter: it leaves the database
   it registered at (gs_param_base m_api, removeParam). *)
PointersSound ==
  \A sc \in Scopes, n \in Names : LET p == db[sc][n].param IN
    p # "none" => obj[p].live /\ obj[p].name = n /\ ScopeOf(obj[p].api, n) = sc

(* A locked init value is final: it stays with the name while parameters come
   and go, and every parameter built under it starts with it (setInitValue,
   lockInitValue, addParam, removeParam). *)
LockHolds ==
  [][\A sc \in Scopes, n \in Names : LET e == db[sc][n] IN
       e.locked =>
         /\ db'[sc][n].locked /\ db'[sc][n].init = e.init
         /\ \A o \in Objs : ~obj[o].live /\ obj'[o].live /\ obj'[o].name = n /\ ScopeOf(obj'[o].api, n) = sc =>
              obj'[o].val = IF e.init \in Values THEN e.init ELSE "default"]_vars

(* A notification reaches every user callback that was registered when it began
   and that sees the parameter, once, although callbacks register further ones,
   add parameters and create private APIs meanwhile (sendNewParameterNotify,
   makeCallbacks, register_as_new_param_observer). *)
ToldOnce ==
  \A i \in DOMAIN stack : LET x == stack[i] IN
    ~x.twice /\ (x.path = <<>> /\ x.todo = {} => x.owed \subseteq x.heard)
=============================================================================
