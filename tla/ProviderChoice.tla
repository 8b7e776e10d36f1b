--------------------------- MODULE ProviderChoice ---------------------------
(***************************************************************************)
(* `rougarou setup`, `provider` and `ai` (src/rootfs/usr/lib/rougarou/     *)
(* cli.py), and the AI jobs that freeze a provider when they are           *)
(* submitted.  A selection is two files: config.json names the provider,   *)
(* credentials.json holds the key of one endpoint.  Each is replaced       *)
(* atomically, but no lock covers both, a command holds what it read       *)
(* across prompts, terminals interleave, and Ctrl-C at a prompt or a kill  *)
(* at any step ends a command where it is.                                 *)
(***************************************************************************)
EXTENDS Naturals, FiniteSets

CONSTANTS
    Terminals,  \* shells of the operator
    Jobs,       \* AI jobs
    Endpoints,  \* endpoints of the Responses API
    MaxCommands, \* bound on the `setup` and `provider` commands that terminals start
    Unset

\* A provider: codex, ollama and other CLIs manage their own authentication;
\* one of kind "responses" has an endpoint, with or without a key.
OwnLogin == [endpoint |-> Unset, authenticated |-> FALSE]
Provider == [endpoint : Endpoints, authenticated : BOOLEAN] \cup {OwnLogin}

\* A key is named by the endpoint it was typed for.
Key == Endpoints \cup {Unset}
Session == [endpoint : Endpoints \cup {Unset}, key : Key]

ASSUME ProviderAssumption ==
    /\ Unset \notin Terminals \cup Endpoints \cup Session
    /\ IsFiniteSet(Terminals) /\ MaxCommands \in Nat

Configuration == [provider : Provider \cup {Unset}, seen : BOOLEAN, complete : BOOLEAN]

VARIABLES
    config,       \* config.json; an absent field is Unset or FALSE
    credentials,  \* credentials.json: Unset, or the endpoint and its key
    spec,         \* the provider in each job's spec, Unset before it is submitted
    environment,  \* the key in the environment of each terminal's shell
    keyed,        \* the AI processes that were given a key: their endpoint and the key
    cliPc, cliMy, \* each terminal's place in its command, and what it holds
    commands,     \* `setup` and `provider` commands started
    \* What happened, for the properties:
    latest,       \* the selection that was saved last
    unsaved,      \* credentials were written for a selection not saved since
    invited,      \* invitations shown, counted up to two
    overlapped    \* two commands held a configuration at once

providerVars == <<config, credentials, spec, environment, keyed, cliPc, cliMy, commands,
                  latest, unsaved, invited, overlapped>>
settings == <<config, credentials, latest, unsaved>>
ai       == <<spec, environment, keyed>>

NoConfig == [provider |-> Unset, seen |-> FALSE, complete |-> FALSE]
Blank    == [config |-> NoConfig, selected |-> Unset, setup |-> FALSE]

ProviderInit ==
    /\ config = NoConfig /\ credentials = Unset
    /\ spec = [j \in Jobs |-> Unset]
    /\ environment = [t \in Terminals |-> Unset]
    /\ keyed = {}
    /\ cliPc = [t \in Terminals |-> "shell"] /\ cliMy = [t \in Terminals |-> Blank]
    /\ commands = 0
    /\ latest = Unset /\ unsaved = FALSE /\ invited = 0 /\ overlapped = FALSE

Start(t)      == cliPc[t] = "shell" /\ commands < MaxCommands /\ commands' = commands + 1
CliGoto(t, step) == cliPc' = [cliPc EXCEPT ![t] = step]
Leave(t)      == CliGoto(t, "shell") /\ cliMy' = [cliMy EXCEPT ![t] = Blank]
Hold(t, step) == CliGoto(t, step) /\ cliMy' = [cliMy EXCEPT ![t].config = config]

\* provider() returns to the shell or, called by setup(), to setup().
Done(t) == IF cliMy[t].setup
           THEN CliGoto(t, "finish") /\ cliMy' = [cliMy EXCEPT ![t] = [Blank EXCEPT !.setup = TRUE]]
           ELSE Leave(t)

-----------------------------------------------------------------------------
(* provider() *)

\* The configuration is read before the questions are asked.
Provide(t) ==
    /\ Start(t)
    /\ Hold(t, "choose")
    /\ UNCHANGED <<settings, ai, invited>>

Keep(t) ==
    /\ cliPc[t] = "choose"
    /\ Done(t)
    /\ UNCHANGED <<settings, ai, invited, commands>>

\* Codex, Ollama, a CLI of the operator's or a named agent, which may be
\* installed here; what is missing or declined ends the command instead.
ChooseOwnLogin(t) ==
    /\ cliPc[t] = "choose"
    /\ CliGoto(t, "save") /\ cliMy' = [cliMy EXCEPT ![t].selected = OwnLogin]
    /\ UNCHANGED <<settings, ai, invited, commands>>

\* A Responses endpoint; a blank key means an unauthenticated one.
ChooseEndpoint(t, e, typed) ==
    /\ cliPc[t] = "choose"
    /\ CliGoto(t, "credentials")
    /\ cliMy' = [cliMy EXCEPT ![t].selected = [endpoint |-> e, authenticated |-> typed]]
    /\ UNCHANGED <<settings, ai, invited, commands>>

\* Plausible bugs: a file that exists stays, the selection is written instead.
CredentialsStay(chosen) ==
    IF credentials = Unset THEN [endpoint |-> chosen.endpoint, key |-> chosen.endpoint] ELSE credentials

CredentialsOfSelection(chosen) == chosen

Credentials(chosen) ==
    [endpoint |-> chosen.endpoint, key |-> IF chosen.authenticated THEN chosen.endpoint ELSE Unset]

WriteCredentials(t) ==
    /\ cliPc[t] = "credentials"
    /\ credentials' = Credentials(cliMy[t].selected)
    /\ unsaved' = TRUE
    /\ CliGoto(t, "save")
    /\ UNCHANGED <<config, latest, cliMy, ai, invited, commands>>

\* The whole configuration is written back as it was read.
SaveSelection(t) ==
    /\ cliPc[t] = "save"
    /\ config' = [cliMy[t].config EXCEPT !.provider = cliMy[t].selected]
    /\ latest' = cliMy[t].selected /\ unsaved' = FALSE
    /\ Done(t)
    /\ UNCHANGED <<credentials, ai, invited, commands>>

-----------------------------------------------------------------------------
(* setup() *)

Setup(t) ==
    /\ Start(t)
    /\ CliGoto(t, "middle") /\ cliMy' = [cliMy EXCEPT ![t].setup = TRUE]
    /\ UNCHANGED <<settings, ai, invited>>

\* setup --first-login, which every login shell runs, asks only once.
FirstLogin(t) ==
    /\ Start(t)
    /\ ~config.seen /\ ~config.complete
    /\ CliGoto(t, "seen") /\ cliMy' = [cliMy EXCEPT ![t].config = config, ![t].setup = TRUE]
    /\ UNCHANGED <<settings, ai, invited>>

\* Plausible bug: it asks, and has not saved that it did.
SeenUnsaved(t) ==
    /\ cliPc[t] = "seen"
    /\ CliGoto(t, "invite")
    /\ UNCHANGED <<cliMy, settings, ai, invited, commands>>

\* That it asked is saved before it asks.
SaveSeen(t) ==
    /\ cliPc[t] = "seen"
    /\ config' = [cliMy[t].config EXCEPT !.seen = TRUE]
    /\ CliGoto(t, "invite") /\ cliMy' = [cliMy EXCEPT ![t].config = NoConfig]
    /\ UNCHANGED <<credentials, latest, unsaved, ai, invited, commands>>

Invite(t) ==
    /\ cliPc[t] = "invite"
    /\ invited' = IF invited < 2 THEN invited + 1 ELSE 2
    /\ CliGoto(t, "answer")
    /\ UNCHANGED <<cliMy, settings, ai, commands>>

Accept(t) ==
    /\ cliPc[t] = "answer"
    /\ CliGoto(t, "middle")
    /\ UNCHANGED <<cliMy, settings, ai, invited, commands>>

\* ~/Work, access, Git and GitHub come first, in files of their own.  Then the
\* configuration is read anew: provider() is offered if none is selected.
Middle(t) ==
    /\ cliPc[t] = "middle"
    /\ CliGoto(t, IF config.provider = Unset THEN "offer" ELSE "finish")
    /\ UNCHANGED <<cliMy, settings, ai, invited, commands>>

\* Once accepted, provider() reads it for itself: it may be another by now.
Offer(t) ==
    /\ cliPc[t] = "offer"
    /\ \/ Hold(t, "choose")
       \/ CliGoto(t, "finish") /\ UNCHANGED cliMy
    /\ UNCHANGED <<settings, ai, invited, commands>>

\* It is read once more after provider() may have saved it.
Finish(t) ==
    /\ cliPc[t] = "finish"
    /\ Hold(t, "complete")
    /\ UNCHANGED <<settings, ai, invited, commands>>

SaveComplete(t) ==
    /\ cliPc[t] = "complete"
    /\ config' = [cliMy[t].config EXCEPT !.complete = TRUE]
    /\ Leave(t)
    /\ UNCHANGED <<credentials, latest, unsaved, ai, invited, commands>>

-----------------------------------------------------------------------------
(* ai() and the AI jobs *)

\* Plausible bug: any stored key will do.
StartsWithAnyKey(provider) ==
    provider.authenticated => credentials # Unset /\ credentials.key # Unset

\* The process that ai_command() prepares: it may start (Starts) unless the
\* key is missing or belongs to another endpoint, and what it inherits in
\* SECRET_ENV is replaced or removed.
Starts(provider) ==
    provider.authenticated =>
        credentials # Unset /\ credentials.endpoint = provider.endpoint /\ credentials.key # Unset

Process(provider, inherited) ==
    [endpoint |-> provider.endpoint,
     key      |-> IF provider.authenticated THEN credentials.key ELSE Unset]

Keyed(process) == {process} \ [endpoint : Endpoints \cup {Unset}, key : {Unset}]

\* config.json is read here, credentials.json only in Launch: `codex --help`
\* runs in between.
Ai(t) ==
    /\ cliPc[t] = "shell" /\ config.provider # Unset
    /\ CliGoto(t, "launch") /\ cliMy' = [cliMy EXCEPT ![t].selected = config.provider]
    /\ UNCHANGED <<settings, ai, invited, commands>>

\* The AI replaces the command; its own shells have its environment.
Launch(t) ==
    /\ cliPc[t] = "launch" /\ Starts(cliMy[t].selected)
    /\ LET process == Process(cliMy[t].selected, environment[t]) IN
         keyed' = keyed \cup Keyed(process) /\ environment' = [environment EXCEPT ![t] = process.key]
    /\ Leave(t)
    /\ UNCHANGED <<settings, spec, invited, commands>>

EndAi(t) ==
    /\ cliPc[t] = "shell" /\ environment[t] # Unset
    /\ environment' = [environment EXCEPT ![t] = Unset]
    /\ UNCHANGED <<settings, spec, keyed, cliPc, cliMy, invited, commands>>

\* `jobs submit`, or a scheduled task's definition.
Submit(j) ==
    /\ spec[j] = Unset /\ config.provider # Unset
    /\ spec' = [spec EXCEPT ![j] = config.provider]
    /\ UNCHANGED <<settings, environment, keyed, cliPc, cliMy, invited, commands>>

\* The worker takes the key of the moment for the provider of the spec; the
\* job's retry runs the same spec again.
RunJob(j) ==
    /\ spec[j] # Unset /\ Starts(spec[j])
    /\ keyed' = keyed \cup Keyed(Process(spec[j], Unset))
    /\ UNCHANGED <<settings, spec, environment, cliPc, cliMy, invited, commands>>

-----------------------------------------------------------------------------
\* A declined invitation, Ctrl-C or an error at a prompt, or a kill anywhere.
Interrupt(t) ==
    /\ cliPc[t] # "shell"
    /\ Leave(t)
    /\ UNCHANGED <<settings, ai, invited, commands>>

Holding == {t \in Terminals : cliPc[t] \in {"choose", "credentials", "save", "seen", "complete"}}

ProviderNext ==
    /\ \/ \E t \in Terminals :
            \/ Provide(t) \/ Keep(t) \/ ChooseOwnLogin(t) \/ WriteCredentials(t) \/ SaveSelection(t)
            \/ \E e \in Endpoints, typed \in BOOLEAN : ChooseEndpoint(t, e, typed)
            \/ Setup(t) \/ FirstLogin(t) \/ SaveSeen(t) \/ Invite(t) \/ Accept(t)
            \/ Middle(t) \/ Offer(t) \/ Finish(t) \/ SaveComplete(t)
            \/ Ai(t) \/ Launch(t) \/ EndAi(t) \/ Interrupt(t)
       \/ \E j \in Jobs : Submit(j) \/ RunJob(j)
    /\ overlapped' = (overlapped \/ Cardinality(Holding') > 1)

ProviderSpec == ProviderInit /\ [][ProviderNext]_providerVars

-----------------------------------------------------------------------------
\* Files, locals and processes have legal values.
ProviderTypeOK ==
    /\ config \in Configuration /\ credentials \in Session \cup {Unset}
    /\ spec \in [Jobs -> Provider \cup {Unset}]
    /\ environment \in [Terminals -> Key] /\ keyed \subseteq Session
    /\ cliPc \in [Terminals -> {"shell", "choose", "credentials", "save", "seen", "invite", "answer",
                             "middle", "offer", "finish", "complete", "launch"}]
    /\ cliMy \in [Terminals -> [config : Configuration, selected : Provider \cup {Unset}, setup : BOOLEAN]]
    /\ commands \in 0..MaxCommands
    /\ latest \in Provider \cup {Unset} /\ unsaved \in BOOLEAN
    /\ invited \in 0..2 /\ overlapped \in BOOLEAN

\* A key reaches only an AI process for the endpoint it was typed for,
\* however selections, stale reads, jobs of an earlier selection and sessions
\* within sessions interleave.
KeyStaysWithEndpoint == \A process \in keyed : process.key = process.endpoint

\* What `rougarou provider` saved stands, through setups and interruptions,
\* until it saves another, and it finds its key: unless two terminals held
\* the configuration at once, or provider() was left between its two files.
SelectionStands ==
    ~overlapped =>
        /\ config.provider = latest
        /\ ~unsaved /\ latest # Unset => Starts(latest)

\* cli.py: "Optional one-time login invitation".  Commands that do not
\* overlap show it once, whatever is interrupted or selected in between.
OneInvitation == invited > 1 => overlapped

=============================================================================
