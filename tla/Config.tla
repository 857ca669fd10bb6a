------------------------------- MODULE Config -------------------------------
(***************************************************************************)
(* From a command line or a configuration file to the configuration a      *)
(* process runs with: runServer and runAgent up to runWithMetrics,         *)
(* LoadConfig, ApplyDefaults and ValidateConfig of server and agent, and   *)
(* the validators of internal/config.                                      *)
(*                                                                         *)
(* A command line is a record: role; given, where its contents come from   *)
(* ("flags", a "file", or "both"); agents, the --agent flags [id, path];   *)
(* id, the --agent-id of an agent; forward and reverse, the flags of those *)
(* names [agent, service, addr], agent being NoID when there is no prefix; *)
(* limit, which stands for each of the numbers and durations.  Flags       *)
(* repeat in any order.  A file has the same contents as YAML maps.        *)
(***************************************************************************)
EXTENDS Integers, Sequences, SequencesExt

CONSTANTS
    AgentIDs,    \* the strings that ValidateClientID takes
    NoID,
    RouteIDs,    \* the strings that ValidateRouteID takes
    Default      \* the default of a number left at zero

ASSUME ConfigAssumption == NoID \notin AgentIDs /\ Default \in Nat \ {0}

Directions == {"forward", "reverse"}

(* Addresses with a host, without one, and without a valid port. *)
validateHostPort(addr, allowEmptyHost) ==
    addr = "host:port" \/ (addr = ":port" /\ allowEmptyHost)

ValidateTCPAddress(addr)    == validateHostPort(addr, FALSE)
ValidateListenAddress(addr) == validateHostPort(addr, TRUE)

(* Each service of a map is well named and its address fits its use. *)
ServicesValid(services, use) ==
    \A s \in DOMAIN services :
      /\ s \in RouteIDs
      /\ IF use = "listen" THEN ValidateListenAddress(services[s])
                           ELSE ValidateTCPAddress(services[s])

NoServices == [s \in {} |-> ""]

(* A map with one entry more. *)
With(map, key, value) ==
    [k \in DOMAIN map \cup {key} |-> IF k = key THEN value ELSE map[k]]

ApplyDefaults(cfg) == [cfg EXCEPT !.limit = IF @ = 0 THEN Default ELSE @]

-----------------------------------------------------------------------------
(***************************************************************************)
(* The flags, of which runServer and runAgent read one after the other.    *)
(* What one flag makes of the configuration c is a set: of one, or of none *)
(* when the command ends with an error.                                    *)
(***************************************************************************)

(* cfg before the loops over the flags. *)
NoFlags(argv) ==
    IF argv.role = "server"
      THEN [agents |-> <<>>, limit |-> argv.limit]
      ELSE [id |-> argv.id, forward |-> NoServices, reverse |-> NoServices,
            limit |-> argv.limit]

parseAgent(c, raw) ==
    IF raw.id \in AgentIDs
      THEN {[c EXCEPT !.agents =
               Append(@, [id |-> raw.id, path |-> raw.path,
                          forward |-> NoServices, reverse |-> NoServices])]}
      ELSE {}

(* A flag without an agent is for the only agent there is. *)
OwnerAmong(agents, raw) ==
    IF raw.agent = NoID /\ Len(agents) = 1 THEN agents[1].id ELSE raw.agent

(* The first agent with an identifier, or 0. *)
AgentIndex(agents, id) == SelectInSeq(agents, LAMBDA a : a.id = id)

(* Mutant of addServerMapping: a repeated service takes the last address. *)
addServerMappingReplacing(c, raw, direction) ==
    LET i == AgentIndex(c.agents, OwnerAmong(c.agents, raw))
    IN IF /\ i # 0 /\ raw.service \in RouteIDs
          /\ validateHostPort(raw.addr, direction = "reverse")
         THEN {[c EXCEPT !.agents[i][direction] =
                  With(@, raw.service, raw.addr)]}
         ELSE {}

addServerMapping(c, raw, direction) ==
    LET i == AgentIndex(c.agents, OwnerAmong(c.agents, raw))
    IN IF /\ i # 0 /\ raw.service \in RouteIDs
          /\ validateHostPort(raw.addr, direction = "reverse")
          /\ raw.service \notin DOMAIN c.agents[i][direction]
         THEN {[c EXCEPT !.agents[i][direction] =
                  With(@, raw.service, raw.addr)]}
         ELSE {}

(* parseServiceMapping returns no error. *)
parseServiceMapping(raw) == raw.service \in RouteIDs

addAgentMapping(c, raw, direction) ==
    IF parseServiceMapping(raw) /\ raw.service \notin DOMAIN c[direction]
      THEN {[c EXCEPT ![direction] = With(@, raw.service, raw.addr)]}
      ELSE {}

-----------------------------------------------------------------------------
(* The file: maps, whose keys the strict YAML decoder wants distinct *)

(* The agent a mapping of a server is for. *)
Owner(argv, raw) == OwnerAmong(argv.agents, raw)

Distinct(seq, Key(_)) ==
    \A i, j \in DOMAIN seq : Key(seq[i]) = Key(seq[j]) => i = j

(* Can the contents be written as a file at all? *)
HasFile(argv) ==
    /\ Distinct(argv.agents, LAMBDA a : a.id)
    /\ \A d \in Directions :
         /\ Distinct(argv[d], LAMBDA raw : <<Owner(argv, raw), raw.service>>)
         /\ argv.role = "server" =>
              \A i \in DOMAIN argv[d] :
                \E j \in DOMAIN argv.agents :
                  argv.agents[j].id = Owner(argv, argv[d][i])

(* The map of the services that flags name for one owner. *)
ServicesOf(argv, direction, owner) ==
    LET mine == {raw \in ToSet(argv[direction]) : Owner(argv, raw) = owner}
    IN [s \in {raw.service : raw \in mine} |->
          (CHOOSE raw \in mine : raw.service = s).addr]

(* The entry of an agent in a server's file. *)
FileEntry(argv, a) ==
    [id |-> a.id, path |-> a.path,
     forward |-> ServicesOf(argv, "forward", a.id),
     reverse |-> ServicesOf(argv, "reverse", a.id)]

(* LoadConfig of a server: its agents in any order, a map's. *)
serverLoadConfigs(argv) ==
    {[agents |-> order, limit |-> argv.limit] :
       order \in SetToSeqs({FileEntry(argv, a) : a \in ToSet(argv.agents)})}

agentLoadConfig(argv) ==
    [id |-> argv.id, limit |-> argv.limit,
     forward |-> ServicesOf(argv, "forward", NoID),
     reverse |-> ServicesOf(argv, "reverse", NoID)]

LoadConfigs(argv) ==
    {ApplyDefaults(cfg) : cfg \in IF argv.role = "server"
                                    THEN serverLoadConfigs(argv)
                                    ELSE {agentLoadConfig(argv)}}

-----------------------------------------------------------------------------
(* ValidateConfig *)

serverValidateConfig(cfg) ==
    /\ cfg.agents # <<>>
    /\ cfg.limit > 0
    /\ Distinct(cfg.agents, LAMBDA a : a.id)
    /\ \A i \in DOMAIN cfg.agents :
         /\ cfg.agents[i].id \in AgentIDs
         /\ ServicesValid(cfg.agents[i].forward, "dial")
         /\ ServicesValid(cfg.agents[i].reverse, "listen")

agentValidateConfig(cfg) ==
    /\ cfg.id \in AgentIDs
    /\ cfg.forward # NoServices \/ cfg.reverse # NoServices
    /\ cfg.limit > 0
    /\ ServicesValid(cfg.forward, "listen")
    /\ ServicesValid(cfg.reverse, "dial")

ValidateConfig(role, cfg) ==
    IF role = "server" THEN serverValidateConfig(cfg)
                       ELSE agentValidateConfig(cfg)

(* The configurations that a file may give; none if it is refused. *)
FileConfigs(argv) ==
    {c \in LoadConfigs(argv) : HasFile(argv) /\ ValidateConfig(argv.role, c)}
=============================================================================
