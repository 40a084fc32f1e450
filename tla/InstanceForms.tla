---------------------------- MODULE InstanceForms -----------------------------
(* The forms of the instances page: creating an instance                      *)
(* (CreateInstanceForm.tsx), configuring one (ConfigureInstancePanel.tsx),    *)
(* wiring a project to it or moving one (BindProjectForm.tsx), and its access *)
(* keys (ApiKeyManager.tsx).  The operator has one open at a time, over a list *)
(* that is read again whenever the window gets the focus.                     *)
EXTENDS Integers, FiniteSets, FiniteSetsExt

CONSTANTS Names,      \* that an instance can have
          Similar,    \* pairs of names that differ in case, dashes and underscores only
          First,      \* the first instance
          StartPort,  \* createInstanceDefaults.startPort
          FirstProvider,  \* of the first instance
          Ports,      \* that are typed, all of the range 1024-65535
          Providers,  \* options of the select for the provider, Default among them
          Paths,      \* project roots
          MaxSubmits, \* requests of the operator, a bound
          MaxChanges  \* changes by the command line and by other tabs, a bound

VARIABLES port,       \* the instances and their ports, 0 for none
          provider,   \* the default provider of each, NoProvider for null
          projects,   \* the projects bound to each
          keys,       \* the instances that have the access key the operator names
          list,       \* the ports, as the page has them
          listed,     \* the providers, as the page has them
          selected,   \* the instance of the panel
          form,       \* the open form
          reqs,       \* requests under way; live, if their form is still there
          submits, changes

world == <<port, provider, projects, keys>>
page == <<list, listed, selected>>
vars == <<world, page, form, reqs, submits, changes>>

Blank == "blank"      \* a field that does not pass its check
Default == "claude"
NoProvider == "null"
Closed == [kind |-> "none"]
Listed == {n \in Names : list[n] # 0}

Init == /\ port = [n \in Names |-> IF n = First THEN StartPort ELSE 0]
        /\ provider = [n \in Names |-> IF n = First THEN FirstProvider ELSE NoProvider]
        /\ projects = [n \in Names |-> {}] /\ keys = {}
        /\ list = port /\ listed = provider /\ selected = First
        /\ form = Closed /\ reqs = {} /\ submits = 0 /\ changes = 0

\* suggestNextAvailablePort.
Suggested(l) == Min({p \in StartPort..(StartPort + Cardinality(Names)) : \A n \in Names : l[n] # p})
------------------------------------------------------------------------------
(* The list comes again: what each form does about it. *)

\* A suggestion that changes replaces the port, typed or not.
CreateFollows(l) == IF Suggested(l) = Suggested(list) THEN form ELSE [form EXCEPT !.port = Suggested(l)]
\* An instance without a provider shows the default.
Shown(v) == IF v = NoProvider THEN Default ELSE v
ConfigureOf(n, l, v) == [kind |-> "configure", of |-> n, port |-> l[n], provider |-> Shown(v[n]),
                         typed |-> {}, restart |-> FALSE]
\* The panel starts over, its restart screen included, when what is configured
\* now has changed.
ConfigureFollows(l, v) == IF l[form.of] = list[form.of] /\ v[form.of] = listed[form.of] THEN form
                          ELSE ConfigureOf(form.of, l, v)
FormFollows(l, v) == CASE form.kind = "create" -> CreateFollows(l)
                       [] form.kind \notin {"create", "none"} /\ l[selected] = 0 -> Closed
                       [] form.kind = "configure" /\ l[selected] # 0 -> ConfigureFollows(l, v)
                       [] OTHER -> form
\* A form that goes leaves its requests behind.
Orphans(f, R) == IF f = Closed \/ f.kind # form.kind THEN {[r EXCEPT !.live = FALSE] : r \in R} ELSE R
ListArrives == /\ list' = port /\ listed' = provider /\ form' = FormFollows(port, provider)
               /\ reqs' = Orphans(form', reqs)
               /\ UNCHANGED <<world, selected, submits, changes>>

\* A row is clicked, or the browser goes back, which no dialog prevents.  The
\* panel of the configuration is keyed by the instance; the other forms go on
\* with what was chosen for the one before.
Select(n) == /\ n \in Listed \ {selected} /\ selected' = n
             /\ IF form.kind = "configure"
                THEN form' = ConfigureOf(n, list, listed) /\ reqs' = {[r EXCEPT !.live = FALSE] : r \in reqs}
                ELSE UNCHANGED <<form, reqs>>
             /\ UNCHANGED <<world, list, listed, submits, changes>>

Edit(f) == form' = f /\ reqs' = Orphans(f, reqs) /\ UNCHANGED <<world, page, submits, changes>>
Busy == \E r \in reqs : r.live
Sent(r) == LET sent == [at |-> "sent", live |-> TRUE, no |-> submits]
           IN  [f \in DOMAIN r \union DOMAIN sent |-> IF f \in DOMAIN r THEN r[f] ELSE sent[f]]
Send(r) == /\ ~Busy /\ submits < MaxSubmits /\ submits' = submits + 1 /\ reqs' = reqs \union {Sent(r)}
           /\ UNCHANGED <<world, page, form, changes>>
------------------------------------------------------------------------------
(* Creating an instance, in four steps. *)

OpenCreate == /\ form = Closed
              /\ Edit([kind |-> "create", step |-> 1, name |-> Blank, port |-> Suggested(list), url |-> Blank])
AtStep(k) == form.kind = "create" /\ form.step = k
TypeName(n) == AtStep(1) /\ Edit([form EXCEPT !.name = n])
TypePort(p) == AtStep(1) /\ Edit([form EXCEPT !.port = p])
\* The URL, pasted or put together from its parts.
effectiveDbUrl(u) == AtStep(2) /\ Edit([form EXCEPT !.url = u])

validateStep1 == /\ form.name # Blank /\ form.port # 0
                 /\ \A n \in Listed : {n, form.name} \notin Similar
validateStep2 == form.url # Blank
handleNext == /\ form.kind = "create" /\ form.step < 4
              /\ (form.step = 1) => validateStep1
              /\ (form.step = 2) => validateStep2
              /\ Edit([form EXCEPT !.step = @ + 1])
handleBack == /\ form.kind = "create" /\ form.step > 1 /\ ~Busy
              /\ Edit([form EXCEPT !.step = @ - 1])
handleCreate == /\ AtStep(4)
                /\ Send([kind |-> "create", name |-> form.name, port |-> form.port, url |-> form.url])
------------------------------------------------------------------------------
(* Configuring one.  The port stands for the fields that come up with what    *)
(* is configured, or empty: the database, its intent and the key.             *)

OpenConfigure == form = Closed /\ list[selected] # 0 /\ Edit(ConfigureOf(selected, list, listed))
TypeField(p) == /\ form.kind = "configure" /\ ~form.restart
                /\ Edit([form EXCEPT !.port = p, !.typed = @ \union {"port"}])
ChooseProvider(v) == /\ form.kind = "configure" /\ ~form.restart
                     /\ Edit([form EXCEPT !.provider = v, !.typed = @ \union {"provider"}])
\* Only fields that are not what is configured are sent; none, and it closes.
\* The default that is shown for a missing provider is not what is configured.
PortSent == IF form.port = list[form.of] THEN 0 ELSE form.port
ProviderSent == IF form.provider = listed[form.of] THEN NoProvider ELSE form.provider
handleConfigure == /\ form.kind = "configure" /\ ~form.restart
                   /\ IF PortSent = 0 /\ ProviderSent = NoProvider THEN ~Busy /\ Edit(Closed)
                      ELSE Send([kind |-> "configure", name |-> form.of, port |-> PortSent, provider |-> ProviderSent])
handleRestartNow == /\ form.kind = "configure" /\ form.restart /\ Send([kind |-> "restart", name |-> form.of])
------------------------------------------------------------------------------
(* Wiring a project, and moving one that is wired. *)

OpenBind == form = Closed /\ list[selected] # 0 /\ Edit([kind |-> "bind", path |-> Blank])
TypePath(p) == form.kind = "bind" /\ Edit([form EXCEPT !.path = p])
handleBind == /\ form.kind = "bind" /\ form.path # Blank
              /\ Send([kind |-> "bind", name |-> selected, path |-> form.path])
\* The other tab has a project chosen, once it has read the projects.
OpenRebind == /\ form.kind = "bind"
              /\ \E p \in projects[selected] : Edit([kind |-> "rebind", path |-> p, target |-> selected])
ChooseProject(p) == form.kind = "rebind" /\ p \in projects[selected] /\ Edit([form EXCEPT !.path = p])
ChooseTarget(n) == form.kind = "rebind" /\ n \in Listed /\ Edit([form EXCEPT !.target = n])
handleRebind == /\ form.kind = "rebind"
                /\ Send([kind |-> "rebind", name |-> selected, path |-> form.path, target |-> form.target])
------------------------------------------------------------------------------
(* Access keys. *)

OpenKeyForm == form = Closed /\ list[selected] # 0 /\ Edit([kind |-> "key"])
handleCreateKey == form.kind = "key" /\ Send([kind |-> "key", name |-> selected])
AskRevoke == form = Closed /\ selected \in keys /\ Edit([kind |-> "revoke"])
handleRevoke == form.kind = "revoke" /\ Send([kind |-> "revoke", name |-> selected])
------------------------------------------------------------------------------
(* The server serves the request or refuses it. *)

Possible(r) == CASE r.kind = "create"    -> port[r.name] = 0 /\ \A n \in Names : port[n] # r.port
                 [] r.kind = "rebind"    -> port[r.name] # 0 /\ port[r.target] # 0 /\ \E n \in Names : r.path \in projects[n]
                 [] r.kind = "key"       -> r.name \notin keys
                 [] r.kind = "revoke"    -> r.name \in keys
                 [] OTHER                -> port[r.name] # 0
Serve(r) ==
    /\ r.at = "sent" /\ Possible(r) /\ reqs' = (reqs \ {r}) \union {[r EXCEPT !.at = "done"]}
    /\ port' = IF r.kind \in {"create", "configure"} /\ r.port # 0 THEN [port EXCEPT ![r.name] = r.port] ELSE port
    /\ provider' = CASE r.kind = "create" -> [provider EXCEPT ![r.name] = Default]
                     [] r.kind = "configure" /\ r.provider # NoProvider -> [provider EXCEPT ![r.name] = r.provider]
                     [] OTHER -> provider
    /\ projects' = CASE r.kind = "bind"   -> [projects EXCEPT ![r.name] = @ \union {r.path}]
                     [] r.kind = "rebind" -> [projects EXCEPT ![r.name] = @ \ {r.path}, ![r.target] = @ \union {r.path}]
                     [] OTHER -> projects
    /\ keys' = CASE r.kind = "key" -> keys \union {r.name} [] r.kind = "revoke" -> keys \ {r.name} [] OTHER -> keys
    /\ UNCHANGED <<page, form, submits, changes>>
\* The error is shown in the form, which stays; also when the answer is lost.
Refused(r) == reqs' = reqs \ {r} /\ UNCHANGED <<world, page, form, submits, changes>>
\* A configuration says that it needs a restart; without that need, and after
\* the restart, the panel closes, whichever instance it is of by then.  The
\* other forms end when the operator has seen the result.
Answered(r) == /\ r.at = "done"
               /\ \/ r.kind = "configure" /\ form' = IF r.live THEN [form EXCEPT !.restart = TRUE] ELSE form
                  \/ r.kind \in {"configure", "restart"} /\ form' = IF form.kind = "configure" THEN Closed ELSE form
                  \/ r.kind \notin {"configure", "restart"} /\ form' = IF r.live THEN Closed ELSE form
               /\ reqs' = Orphans(form', reqs \ {r})
               /\ UNCHANGED <<world, page, submits, changes>>
\* Cancel and the cross; those of the key forms wait for the request.
Close == /\ form # Closed /\ (form.kind \in {"key", "revoke"} => ~Busy) /\ Edit(Closed)

\* The command line, or another tab, makes, configures or deletes an instance.
Change(n, p) == /\ changes < MaxChanges /\ changes' = changes + 1
                /\ \A m \in Names \ {n} : port[m] # p \/ p = 0
                /\ port' = [port EXCEPT ![n] = p]
                /\ provider' = IF port[n] = 0 \/ p = 0 THEN [provider EXCEPT ![n] = NoProvider] ELSE provider
                /\ UNCHANGED <<projects, keys, page, form, reqs, submits>>
\* It sets a provider; only the panel of the configuration looks at that, a bound.
ChangeProvider(n, v) == /\ form.kind = "configure" /\ port[n] # 0 /\ changes < MaxChanges /\ changes' = changes + 1
                        /\ provider' = [provider EXCEPT ![n] = v]
                        /\ UNCHANGED <<port, projects, keys, page, form, reqs, submits>>

Next == \/ ListArrives \/ Close \/ \E r \in reqs : Serve(r) \/ Refused(r) \/ Answered(r)
        \/ \E n \in Names : Select(n) \/ TypeName(n) \/ ChooseTarget(n)
        \/ \E n \in Names : (\E p \in Ports \union {0} : Change(n, p)) \/ \E v \in Providers : ChangeProvider(n, v)
        \/ OpenCreate \/ handleNext \/ handleBack \/ handleCreate \/ (\E u \in {Blank, "url"} : effectiveDbUrl(u))
        \/ \E p \in Ports \union {0} : TypePort(p) \/ TypeField(p)
        \/ OpenConfigure \/ (\E v \in Providers : ChooseProvider(v)) \/ handleConfigure \/ handleRestartNow
        \/ OpenBind \/ handleBind \/ OpenRebind \/ handleRebind \/ (\E p \in Paths : TypePath(p) \/ ChooseProject(p))
        \/ OpenKeyForm \/ handleCreateKey \/ AskRevoke \/ handleRevoke
Spec == Init /\ [][Next]_vars
------------------------------------------------------------------------------
(* Properties. *)

\* Whatever way the operator took through the steps, back and forth, and
\* although the list changes the port meanwhile, the instance that is asked for
\* has a name, a port and a database that passed their checks.
CreatesWhatPassed == \A r \in reqs : r.kind = "create" => r.name # Blank /\ r.port # 0 /\ r.url # Blank

\* Saving the configuration sends nothing the operator left alone: what another
\* tab has configured meanwhile is not put back.  But an instance the list gives
\* no provider is sent the default, although the operator did not choose it.
ConfigureRevertsNothing ==
  form.kind = "configure" /\ ~form.restart =>
    /\ PortSent # 0 => "port" \in form.typed
    /\ ProviderSent # NoProvider => "provider" \in form.typed \/ (listed[form.of] = NoProvider /\ ProviderSent = Default)
===============================================================================
