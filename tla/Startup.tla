------------------------------- MODULE Startup -------------------------------
(***************************************************************************)
(* Putting the system into service: a command line is turned into a        *)
(* configuration (module Config), secrets are made by keygen, copied and   *)
(* replaced by the operator (module Secret), processes load them once when *)
(* they start, and an agent then authenticates to the server (module       *)
(* Auth).  Nothing but the secrets' equality ties the two hosts together.  *)
(*                                                                         *)
(* keygen, the operator and starting processes interleave, and a write to  *)
(* a file may stop at any character: a full disk, a crash, a lost copy.    *)
(***************************************************************************)
EXTENDS Config, Secret, Auth

CONSTANTS
    CommandLines,   \* bound: the command lines considered
    Deployed,       \* bound: those with which the story goes on
    Paths,          \* the secret files on both hosts
    AgentPath,      \* the one on the agent's host
    NoPath,
    MaxCopies       \* bound on the number of copies

ASSUME StartupAssumption ==
    /\ Deployed \subseteq CommandLines
    /\ AgentPath \in Paths /\ NoPath \notin Paths
    /\ MaxCopies \in Nat

(* Command lines, by their types; those of an agent name no agents. *)
ASSUME CommandLineAssumption ==
    \A line \in CommandLines :
      /\ line.role \in {"server", "agent"}
      /\ line.given \in {"flags", "file", "both"}
      /\ line.agents \in Seq([id : STRING, path : Paths])
      /\ line.limit \in Int
      /\ \A d \in Directions :
           line[d] \in Seq([agent : STRING, service : STRING, addr : STRING])
      /\ line.role = "agent" =>
           /\ line.agents = <<>>
           /\ \A d \in Directions :
                \A k \in DOMAIN line[d] : line[d][k].agent = NoID

(* The story goes on with servers whose configuration is a file. *)
ASSUME DeployedAssumption ==
    \A line \in Deployed : line.role = "server" /\ line.given = "file"

VARIABLES
    argv,       \* the command line under consideration
    verdict,    \* what became of it: "unread", "ok" or "refused"
    cfg,        \* the configuration
    read,       \* how many flags of each list the loops have read
    file,       \* the secret files
    keygen,     \* the file that a keygen command is writing, or NoPath
    made,       \* the secrets drawn so far
    copies,     \* copies made so far
    server,     \* the server's clients [id, secret]; empty when it is down
    agent       \* the agent process: [id, secret]; NoSecret when it is down

configVars == <<argv, verdict, cfg, read>>
fileVars   == <<file, keygen, made, copies>>
procVars   == <<server, agent>>
vars == <<configVars, fileVars, procVars>>

FlagLists == {"agents"} \cup Directions

AgentDown == [id |-> NoID, secret |-> NoSecret]

Init ==
    /\ argv \in CommandLines
    /\ verdict = "unread"
    /\ cfg = NoFlags(argv)
    /\ read = [l \in FlagLists |-> 0]
    /\ file = [p \in Paths |-> NoFile]
    /\ keygen = NoPath /\ made = {} /\ copies = 0
    /\ server = <<>> /\ agent = AgentDown

-----------------------------------------------------------------------------
(* The command line *)

(* The loops, which come one after the other, over agents, forward, reverse. *)
Earlier(l) == CASE l = "agents"  -> {}
                [] l = "forward" -> {"agents"}
                [] l = "reverse" -> {"agents", "forward"}

AllRead(l) == read[l] = Len(argv[l])

Reading(l) ==
    /\ verdict = "unread" /\ argv.given = "flags"
    /\ ~AllRead(l) /\ \A k \in Earlier(l) : AllRead(k)

(* The configuration with the next flag of a list, if it is taken. *)
WithNext(l) ==
    LET raw == argv[l][read[l] + 1]
    IN IF l = "agents" THEN parseAgent(cfg, raw)
       ELSE IF argv.role = "server" THEN addServerMapping(cfg, raw, l)
                                    ELSE addAgentMapping(cfg, raw, l)

ReadFlag(l) ==
    /\ Reading(l)
    /\ cfg' \in WithNext(l)
    /\ read' = [read EXCEPT ![l] = @ + 1]
    /\ UNCHANGED <<argv, verdict, fileVars, procVars>>

RefuseFlag(l) ==
    /\ Reading(l)
    /\ WithNext(l) = {}
    /\ verdict' = "refused"
    /\ UNCHANGED <<argv, cfg, read, fileVars, procVars>>

(* The valid configurations that the flags, all read, or the file give. *)
Configs ==
    CASE argv.given = "flags" ->
           {c \in {ApplyDefaults(cfg)} : ValidateConfig(argv.role, c)}
      [] argv.given = "file"  -> FileConfigs(argv)
      [] argv.given = "both"  -> {}               \* rejectFlagsWithConfig

Complete ==
    /\ verdict = "unread"
    /\ argv.given = "flags" => \A l \in FlagLists : AllRead(l)

Accept ==
    /\ Complete
    /\ cfg' \in Configs
    /\ verdict' = "ok"
    /\ UNCHANGED <<argv, read, fileVars, procVars>>

Refuse ==
    /\ Complete
    /\ Configs = {}
    /\ verdict' = "refused"
    /\ UNCHANGED <<argv, cfg, read, fileVars, procVars>>

InService == verdict = "ok" /\ argv \in Deployed

-----------------------------------------------------------------------------
(* The files *)

(* GenerateSecretFile: draw a secret, create the file exclusively. *)
CreateFile(p) ==
    /\ InService
    /\ keygen = NoPath /\ file[p] = NoFile
    /\ \E s \in Secrets \ made :
         /\ made' = made \cup {s}
         /\ file' = [file EXCEPT ![p] = [secret |-> s, chars |-> 0,
                                         usable |-> TRUE]]
    /\ keygen' = p
    /\ UNCHANGED <<configVars, copies, procVars>>

(* The text arrives in the file, all of it or not. *)
WriteFile ==
    /\ keygen # NoPath
    /\ \E n \in 0..FileChars : file' = [file EXCEPT ![keygen].chars = n]
    /\ keygen' = NoPath
    /\ UNCHANGED <<configVars, made, copies, procVars>>

(* The operator copies a file: not always all, not always as 0600. *)
CopyFile(p, q) ==
    /\ InService
    /\ p # q /\ file[p] # NoFile /\ q # keygen
    /\ copies < MaxCopies /\ copies' = copies + 1
    /\ \E n \in 0..file[p].chars, u \in BOOLEAN :
         file' = [file EXCEPT ![q] = [secret |-> file[p].secret, chars |-> n,
                                      usable |-> u]]
    /\ UNCHANGED <<configVars, keygen, made, procVars>>

RemoveFile(p) ==
    /\ InService
    /\ file[p] # NoFile /\ p # keygen
    /\ file' = [file EXCEPT ![p] = NoFile]
    /\ UNCHANGED <<configVars, keygen, made, copies, procVars>>

-----------------------------------------------------------------------------
(* The processes *)

(* What Run of the server reads of its clients, from the files as they are. *)
Clients ==
    [i \in DOMAIN cfg.agents |->
       [id |-> cfg.agents[i].id,
        secret |-> LoadSecretFile(file[cfg.agents[i].path])]]

Loaded(clients) == \A i \in DOMAIN clients : clients[i].secret # NoSecret

StartServer ==
    /\ InService /\ server = <<>>
    /\ Loaded(Clients) /\ IdentitiesDistinct(Clients)
    /\ server' = Clients
    /\ UNCHANGED <<configVars, fileVars, agent>>

(* The agent may have been given any identifier. *)
StartAgent(id) ==
    /\ InService /\ agent = AgentDown
    /\ LoadSecretFile(file[AgentPath]) # NoSecret
    /\ agent' = [id |-> id, secret |-> LoadSecretFile(file[AgentPath])]
    /\ UNCHANGED <<configVars, fileVars, server>>

StopServer ==
    /\ server # <<>>
    /\ server' = <<>>
    /\ UNCHANGED <<configVars, fileVars, agent>>

StopAgent ==
    /\ agent # AgentDown
    /\ agent' = AgentDown
    /\ UNCHANGED <<configVars, fileVars, server>>

-----------------------------------------------------------------------------
(* The specification *)

Next ==
    \/ \E l \in FlagLists : ReadFlag(l) \/ RefuseFlag(l)
    \/ Accept \/ Refuse
    \/ WriteFile
    \/ \E p \in Paths :
         CreateFile(p) \/ RemoveFile(p) \/ \E q \in Paths : CopyFile(p, q)
    \/ StartServer \/ StopServer
    \/ (\E id \in AgentIDs : StartAgent(id)) \/ StopAgent

Spec == Init /\ [][Next]_vars

-----------------------------------------------------------------------------
(* Properties *)

(***************************************************************************)
(* Flags mean what the file with the same contents means: the one is       *)
(* refused exactly when the other is, in whatever order the flags come     *)
(* (agents are read before the mappings that name them), and otherwise     *)
(* both give every agent the same secret file, services and limits.        *)
(***************************************************************************)
FlagsMeanTheFile ==
    argv.given = "flags" /\ verdict # "unread" =>
      IF verdict = "refused" THEN FileConfigs(argv) = {}
                             ELSE cfg \in FileConfigs(argv)

(***************************************************************************)
(* No process ever runs with part of a secret, nor with other bytes that   *)
(* part of its text happens to stand for: whenever it started, it has a    *)
(* secret that keygen drew, in full.                                       *)
(***************************************************************************)
NoPartialSecret ==
    /\ \A i \in DOMAIN server : server[i].secret \in {Whole(s) : s \in made}
    /\ agent # AgentDown => agent.secret \in {Whole(s) : s \in made}

(* The TLS configuration with which the agent dials under a server name. *)
Dialling(name) == TLSConfigWithServerName(agent.secret, RoleForward, name)

(***************************************************************************)
(* SECURITY.md: "The server accepts only configured `agent_id` identities. *)
(* A valid secret for one agent does not authorize another agent".  As the *)
(* agent or as a probe, a client gets in exactly when the server has       *)
(* loaded the same secret for the identifier it dials as, whatever files   *)
(* were mixed up or replaced before either of them started, and it is then *)
(* given that identifier and no other.                                     *)
(***************************************************************************)
Authenticates ==
    server # <<>> /\ agent # AgentDown =>
      LET authn == MultiClientTLSConfig(server)
          known == \E i \in DOMAIN server : server[i] = agent
      IN \A name \in {ExitServerNameForClient(agent.id),
                      ProbeServerNameForClient(agent.id)} :
           /\ Admits(authn, Dialling(name)) <=> known
           /\ known => ClientIDForTLSState(authn, Dialling(name)) = agent.id
=============================================================================
