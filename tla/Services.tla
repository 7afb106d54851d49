------------------------------- MODULE Services -------------------------------
(* The services that keep a state of their own, one beside the other: a        *)
(* behaviour is one of the service that its first state picks, and the         *)
(* variables of the others are off.                                            *)
EXTENDS Naturals, FiniteSets

CONSTANTS
  Runs, Logins, Values, MaxWrites, MaxEra, MaxCrashes, Nobody, NoBlob,  \* AgentCredentials
  Calls, Secrets, Policies, Quota, MaxEdits, MaxFaults,                 \* SandboxTools
  Sessions,                                                             \* SessionTable
  MaxGen, MaxLost,                                                      \* ListenSegments
  Speaks, MaxModes,                                                     \* SpokenReplies
  List, Archived, ByPath, Pulls, Attempts,                              \* ModelAssets
  Ids,                                                                  \* StepReferences
  MinSpeech, MaxDuration, DefaultSilence, MaxSilence, DefaultPadding,   \* TurnDetection
  MaxPadding, BaseSilence, MaxWait, BargeInConfirm,
  LoginRequests, Tickets, Passwords, Bootstrap, MaxChanges,                  \* LoginSessions
  WrittenDefinitions, Configs,                                              \* EnablementGates
  WrittenTriggers, Ranges, Calendar, Minute, MinInterval, Horizon, Backlog, MaxNow  \* Schedule

VARIABLES
  service,                                                              \* the one picked
  blob, profile, writes, op, call, runLock, runs, login, past, torn,    \* AgentCredentials
  config, policy, meta, files, edit, used, lock, calls, budget,         \* SandboxTools
  table, sess,                                                          \* SessionTable
  hears, lis, seg,                                                      \* ListenSegments
  talks, ctl, say, speech, out,                                         \* SpokenReplies
  disk, pull, server, botched,                                          \* ModelAssets
  def, stack, unread,                                                   \* StepReferences
  cfg, det, preroll, pipe, events, turn,                                \* TurnDetection
  admin, ticket, proc, req, changes,                                    \* LoginSessions
  auto, machine, vault, authed, run,                                    \* EnablementGates
  trigger, clock, slot, last, search                                    \* Schedule
agentVars == <<blob, profile, writes, op, call, runLock, runs, login, past, torn>>
toolVars == <<config, policy, meta, files, edit, used, lock, calls, budget>>
tableVars == <<table, sess>>
listenVars == <<hears, lis, seg>>
speakVars == <<talks, ctl, say, speech, out>>
assetVars == <<disk, pull, server, botched>>
stepVars == <<def, stack, unread>>
turnVars == <<cfg, det, preroll, pipe, events, turn>>
loginVars == <<admin, ticket, proc, req, changes>>
gateVars == <<auto, machine, vault, authed, run>>
timeVars == <<trigger, clock, slot, last, search>>

Agents == INSTANCE AgentCredentials
Tools == INSTANCE SandboxTools WITH blob <- files, call <- calls
Table == INSTANCE SessionTable
Listen == INSTANCE ListenSegments WITH life <- hears
Speak == INSTANCE SpokenReplies WITH life <- talks
Assets == INSTANCE ModelAssets
Steps == INSTANCE StepReferences
Turns == INSTANCE TurnDetection
Web == INSTANCE LoginSessions WITH Requests <- LoginRequests
Gates == INSTANCE EnablementGates WITH config <- machine, Definitions <- WrittenDefinitions
Times == INSTANCE Schedule WITH now <- clock

ASSUME ServicesAssumption ==
  /\ Agents!Named /\ Tools!Lawful /\ Table!Named /\ Listen!Bounded /\ Speak!Named /\ Assets!Listed
  /\ Steps!Numbered /\ Turns!Durations /\ Web!Named /\ Gates!Lawful /\ Times!Lawful

Off == "off"
AgentsOff == /\ blob = Off /\ profile = Off /\ writes = Off /\ op = Off /\ call = Off
             /\ runLock = Off /\ runs = Off /\ login = Off /\ past = Off /\ torn = Off
ToolsOff == /\ config = Off /\ policy = Off /\ meta = Off /\ files = Off /\ edit = Off
            /\ used = Off /\ lock = Off /\ calls = Off /\ budget = Off
TableOff == table = Off /\ sess = Off
ListenOff == hears = Off /\ lis = Off /\ seg = Off
SpeakOff == talks = Off /\ ctl = Off /\ say = Off /\ speech = Off /\ out = Off
AssetsOff == disk = Off /\ pull = Off /\ server = Off /\ botched = Off
StepsOff == def = Off /\ stack = Off /\ unread = Off
TurnsOff == /\ cfg = Off /\ det = Off /\ preroll = Off /\ pipe = Off
            /\ events = Off /\ turn = Off
WebOff == admin = Off /\ ticket = Off /\ proc = Off /\ req = Off /\ changes = Off
GatesOff == auto = Off /\ machine = Off /\ vault = Off /\ authed = Off /\ run = Off
TimesOff == trigger = Off /\ clock = Off /\ slot = Off /\ last = Off /\ search = Off

Init ==
  /\ service \in {"agents", "tools", "table", "listen", "speak", "assets", "steps", "turns",
                 "web", "gates", "times"}
  /\ IF service = "agents" THEN Agents!Init ELSE AgentsOff
  /\ IF service = "tools" THEN Tools!Init ELSE ToolsOff
  /\ IF service = "table" THEN Table!Init ELSE TableOff
  /\ IF service = "listen" THEN Listen!Init ELSE ListenOff
  /\ IF service = "speak" THEN Speak!Init ELSE SpeakOff
  /\ IF service = "assets" THEN Assets!Init ELSE AssetsOff
  /\ IF service = "steps" THEN Steps!Init ELSE StepsOff
  /\ IF service = "turns" THEN Turns!Init ELSE TurnsOff
  /\ IF service = "web" THEN Web!Init ELSE WebOff
  /\ IF service = "gates" THEN Gates!Init ELSE GatesOff
  /\ IF service = "times" THEN Times!Init ELSE TimesOff
OfAgents == service = "agents" /\ Agents!Next
  /\ UNCHANGED <<toolVars, tableVars, listenVars, speakVars, assetVars,
                 stepVars, turnVars, loginVars, gateVars, timeVars>>
OfTools == service = "tools" /\ Tools!Next
  /\ UNCHANGED <<agentVars, tableVars, listenVars, speakVars, assetVars,
                 stepVars, turnVars, loginVars, gateVars, timeVars>>
OfTable == service = "table" /\ Table!Next
  /\ UNCHANGED <<agentVars, toolVars, listenVars, speakVars, assetVars,
                 stepVars, turnVars, loginVars, gateVars, timeVars>>
OfListen == service = "listen" /\ Listen!Next
  /\ UNCHANGED <<agentVars, toolVars, tableVars, speakVars, assetVars,
                 stepVars, turnVars, loginVars, gateVars, timeVars>>
OfSpeak == service = "speak" /\ Speak!Next
  /\ UNCHANGED <<agentVars, toolVars, tableVars, listenVars, assetVars,
                 stepVars, turnVars, loginVars, gateVars, timeVars>>
OfAssets == service = "assets" /\ Assets!Next
  /\ UNCHANGED <<agentVars, toolVars, tableVars, listenVars, speakVars,
                 stepVars, turnVars, loginVars, gateVars, timeVars>>
OfSteps == service = "steps" /\ Steps!Next
  /\ UNCHANGED <<agentVars, toolVars, tableVars, listenVars, speakVars,
                 assetVars, turnVars, loginVars, gateVars, timeVars>>
OfTurns == service = "turns" /\ Turns!Next
  /\ UNCHANGED <<agentVars, toolVars, tableVars, listenVars, speakVars,
                 assetVars, stepVars, loginVars, gateVars, timeVars>>
OfWeb == service = "web" /\ Web!Next
  /\ UNCHANGED <<agentVars, toolVars, tableVars, listenVars, speakVars,
                 assetVars, stepVars, turnVars, gateVars, timeVars>>
OfGates == service = "gates" /\ Gates!Next
  /\ UNCHANGED <<agentVars, toolVars, tableVars, listenVars, speakVars,
                 assetVars, stepVars, turnVars, loginVars, timeVars>>
OfTimes == service = "times" /\ Times!Next
  /\ UNCHANGED <<agentVars, toolVars, tableVars, listenVars, speakVars,
                 assetVars, stepVars, turnVars, loginVars, gateVars>>
Next ==
  /\ \/ OfAgents \/ OfTools \/ OfTable \/ OfListen \/ OfSpeak
     \/ OfAssets \/ OfSteps \/ OfTurns \/ OfWeb \/ OfGates \/ OfTimes
  /\ UNCHANGED service
vars == <<service, agentVars, toolVars, tableVars, listenVars, speakVars,
          assetVars, stepVars, turnVars, loginVars, gateVars, timeVars>>
Spec == Init /\ [][Next]_vars
-----------------------------------------------------------------------------
\* The properties of each service, of the behaviours that pick it.
RevokedRunsAreCancelled == service = "agents" => Agents!RevokedRunsAreCancelled
NoResurrection == service = "agents" => Agents!NoResurrection
RowMatchesBlob == service = "agents" => Agents!RowMatchesBlob
NothingLeaks == service = "agents" => Agents!NothingLeaks
RunsAsPermitted == service = "tools" => Tools!RunsAsPermitted
NothingQuoted == service = "tools" => Tools!NothingQuoted
NothingOrphaned == service = "table" => Table!NothingOrphaned
CallIsKept == [][service = "table" => Table!KeepsCall]_tableVars
SegmentsHonest == service = "listen" => Listen!SegmentsHonest
SpeechInOrder == service = "speak" => Speak!SpeechInOrder
PinnedBytesOnly == service = "assets" => Assets!PinnedBytesOnly
ReferencesResolve == service = "steps" => Steps!ReferencesResolve
TurnsAreKept == service = "turns" => Turns!TurnsAreKept
OldSessionsDie == service = "web" => Web!OldSessionsDie
GatesAgree == service = "gates" => Gates!GatesAgree
SlotIsNext == service = "times" => Times!SlotIsNext
=============================================================================
