--------------------------- MODULE StartupProofs ---------------------------
(***************************************************************************)
(* What holds of command lines, and of secrets from keygen to the          *)
(* handshake, for every command line, every length of secret, every set of *)
(* files and every deployed configuration.  The argument is in four parts: *)
(* which texts decode to a secret at all (DecodedIsWhole), which           *)
(* configurations a server runs with (DeployedConfig), what the flags read *)
(* so far have made (ServerRead, AgentRead), and what the handshake        *)
(* compares (AdmitsExactlyKnown).                                          *)
(***************************************************************************)
EXTENDS Startup, FiniteSetTheorems, TLAPS

-----------------------------------------------------------------------------
(* Secret files *)

(***************************************************************************)
(* DecodeSecret reads a text cut off at n characters as hexadecimal or as  *)
(* base64: the first never gives enough bytes, the second only from all of *)
(* the data characters, and then exactly as many as were drawn.            *)
(***************************************************************************)
LEMMA TooFewBytes ==
    ASSUME NEW n \in Nat, n <= DataChars
    PROVE  /\ n \div 2 < MinSecretBytes
           /\ (6 * n) \div 8 <= MinSecretBytes
BY SecretAssumption DEF DataChars

(* LoadSecretFile: the secret that keygen drew, in full, or nothing. *)
LEMMA DecodedIsWhole ==
    ASSUME NEW f \in Files, LoadSecretFile(f) # NoSecret
    PROVE  LoadSecretFile(f) = Whole(f.secret)
<1> DEFINE n == IF f.chars > TextChars THEN TextChars ELSE f.chars
<1>1. n \in Nat /\ HexPrefix[f.secret] \in Nat /\ HexPrefix[f.secret] <= DataChars
  BY SecretAssumption DEF Files, FileChars, TextChars, DataChars
<1>2. LoadSecretFile(f) = DecodeSecret(f)
  BY DEF LoadSecretFile
<1>3. CASE n % 2 = 0 /\ n <= HexPrefix[f.secret]
  <2>1. n \div 2 < MinSecretBytes
    BY <1>1, <1>3, TooFewBytes, SecretAssumption DEF DataChars
  <2>2. DecodeSecret(f) = NoSecret
    BY <1>3, <2>1 DEF DecodeSecret, validateSecret, Decoded
  <2> QED BY <1>2, <2>2
<1>4. CASE n <= DataChars /\ n % 4 # 1
  <2>1. (6 * n) \div 8 <= MinSecretBytes /\ (6 * n) \div 8 \in Int
    BY <1>1, <1>4, TooFewBytes
  <2>2. validateSecret(Decoded(f, (6 * n) \div 8, "base64")) \in
          {NoSecret, Whole(f.secret)}
    BY <2>1, SecretAssumption DEF validateSecret, Decoded, Whole
  <2>3. validateSecret(Whole(f.secret)) \in {NoSecret, Whole(f.secret)}
    BY DEF validateSecret
  <2>4. \/ DecodeSecret(f) = NoSecret
        \/ DecodeSecret(f) = validateSecret(Whole(f.secret))
        \/ DecodeSecret(f) = validateSecret(Decoded(f, (6 * n) \div 8, "base64"))
        \/ n % 2 = 0 /\ n <= HexPrefix[f.secret]
    BY DEF DecodeSecret
  <2> QED BY <1>2, <1>3, <2>2, <2>3, <2>4
<1>5. CASE /\ ~(n % 2 = 0 /\ n <= HexPrefix[f.secret])
           /\ ~(n <= DataChars /\ n % 4 # 1)
  <2>1. DecodeSecret(f) \in {NoSecret, validateSecret(Whole(f.secret))}
    BY <1>5 DEF DecodeSecret
  <2> QED BY <1>2, <2>1 DEF validateSecret
<1> QED BY <1>3, <1>4, <1>5

-----------------------------------------------------------------------------
(* Configurations *)

(* What Run of the server relies on: agents named apart, with their files. *)
AgentsOK(agents) ==
    /\ \E n \in Nat : DOMAIN agents = 1..n
    /\ \A i \in DOMAIN agents :
         agents[i].id \in AgentIDs /\ agents[i].path \in Paths
    /\ \A i, j \in DOMAIN agents : agents[i].id = agents[j].id => i = j

(* The agents of a server's file, of which LoadConfig ranges over the map. *)
FileEntries(line) == {FileEntry(line, a) : a \in ToSet(line.agents)}

(* An order of a finite set is a sequence of all its elements. *)
LEMMA OrderIsOnto ==
    ASSUME NEW S, IsFiniteSet(S), NEW order \in SetToSeqs(S)
    PROVE  /\ Cardinality(S) \in Nat
           /\ order \in [1..Cardinality(S) -> S]
           /\ \A e \in S : \E i \in 1..Cardinality(S) : order[i] = e
<1>1. Cardinality(S) \in Nat
  BY FS_CardinalityType
<1> DEFINE D == 1..Cardinality(S)
<1>2. order \in [D -> S] /\ \A i, j \in D : i # j => order[i] # order[j]
  BY DEF SetToSeqs
<1>3. IsFiniteSet(D) /\ Cardinality(D) = Cardinality(S)
  BY <1>1, FS_Interval
<1> HIDE DEF D
<1>4. order \in Injection(D, S)
  BY <1>2 DEF Injection, IsInjective
<1>5. order \in Surjection(D, S)
  BY <1>3, <1>4, FS_Injection
<1> QED BY <1>1, <1>2, <1>5 DEF Surjection, D

(* The agents' entries, one for each flag, and all of them. *)
LEMMA EntriesFinite ==
    ASSUME NEW line \in CommandLines
    PROVE  /\ IsFiniteSet(FileEntries(line))
           /\ [j \in 1..Len(line.agents) |-> FileEntry(line, line.agents[j])]
                \in Surjection(1..Len(line.agents), FileEntries(line))
           /\ DOMAIN line.agents = 1..Len(line.agents) /\ Len(line.agents) \in Nat
<1> DEFINE f == [j \in 1..Len(line.agents) |-> FileEntry(line, line.agents[j])]
<1>1. DOMAIN line.agents = 1..Len(line.agents) /\ Len(line.agents) \in Nat
  BY CommandLineAssumption
<1>2. f \in [1..Len(line.agents) -> FileEntries(line)]
  BY <1>1 DEF FileEntries, ToSet
<1>3. \A e \in FileEntries(line) : \E i \in 1..Len(line.agents) : f[i] = e
  BY <1>1 DEF FileEntries, ToSet
<1>4. IsFiniteSet(1..Len(line.agents))
  BY <1>1, FS_Interval
<1> HIDE DEF f
<1>5. f \in Surjection(1..Len(line.agents), FileEntries(line))
  BY <1>2, <1>3 DEF Surjection
<1>6. IsFiniteSet(FileEntries(line))
  BY <1>4, <1>5, FS_Surjection
<1> QED BY <1>1, <1>5, <1>6 DEF f

(***************************************************************************)
(* What LoadConfig gives a server: the entries of the file, each of them,  *)
(* in some order.                                                          *)
(***************************************************************************)
LEMMA LoadedServer ==
    ASSUME NEW line \in CommandLines, line.role = "server",
           NEW c \in LoadConfigs(line)
    PROVE  /\ c.limit = IF line.limit = 0 THEN Default ELSE line.limit
           /\ \E n \in Nat : c.agents \in [1..n -> FileEntries(line)]
           /\ \A j \in DOMAIN line.agents : \E i \in DOMAIN c.agents :
                c.agents[i] = FileEntry(line, line.agents[j])
<1> DEFINE E == FileEntries(line)
<1>1. PICK l \in serverLoadConfigs(line) : c = ApplyDefaults(l)
  BY DEF LoadConfigs
<1>2. PICK order \in SetToSeqs(E) : l = [agents |-> order, limit |-> line.limit]
  BY <1>1 DEF serverLoadConfigs, FileEntries
<1>3. /\ c.agents = order
      /\ c.limit = IF line.limit = 0 THEN Default ELSE line.limit
  BY <1>1, <1>2 DEF ApplyDefaults
<1>4. IsFiniteSet(E)
  BY EntriesFinite
<1> HIDE DEF E
<1>5. /\ Cardinality(E) \in Nat /\ order \in [1..Cardinality(E) -> E]
      /\ \A e \in E : \E i \in 1..Cardinality(E) : order[i] = e
  BY <1>2, <1>4, OrderIsOnto
<1>6. \A j \in DOMAIN line.agents : FileEntry(line, line.agents[j]) \in E
  BY DEF E, FileEntries, ToSet
<1> QED BY <1>3, <1>5, <1>6 DEF E

(***************************************************************************)
(* LoadConfig, ApplyDefaults and ValidateConfig of a server with a file:   *)
(* the agents come in an order of the map's, with distinct valid           *)
(* identifiers and the paths that were written in the file.                *)
(***************************************************************************)
LEMMA DeployedConfig ==
    ASSUME NEW line \in CommandLines, line.role = "server",
           NEW c \in FileConfigs(line)
    PROVE  AgentsOK(c.agents)
<1>1. c \in LoadConfigs(line) /\ serverValidateConfig(c)
  BY DEF FileConfigs, ValidateConfig
<1>2. PICK n \in Nat : c.agents \in [1..n -> FileEntries(line)]
  BY <1>1, LoadedServer
<1>3. \A e \in FileEntries(line) : e.path \in Paths
  <2>1. \A a \in ToSet(line.agents) : a.path \in Paths
    <3> DEFINE Pairs == [id : STRING, path : Paths]
    <3>1. \A e \in Pairs : e.path \in Paths
      OBVIOUS
    <3>2. line.agents \in Seq(Pairs)
      BY CommandLineAssumption
    <3> HIDE DEF Pairs
    <3>3. \A i \in DOMAIN line.agents : line.agents[i] \in Pairs
      BY <3>2
    <3> QED BY <3>1, <3>3 DEF ToSet
  <2>2. \A a : FileEntry(line, a).path = a.path
    BY DEF FileEntry
  <2> QED BY <2>1, <2>2 DEF FileEntries
<1>4. \A i, j \in DOMAIN c.agents : c.agents[i].id = c.agents[j].id => i = j
  BY <1>1 DEF serverValidateConfig, Distinct
<1> QED BY <1>1, <1>2, <1>3, <1>4 DEF AgentsOK, serverValidateConfig

-----------------------------------------------------------------------------
(* Flags and files *)

ServiceMaps == UNION {[S -> STRING] : S \in SUBSET STRING}

(* Of the first n flags of a list, those of one owner. *)
Of(line, d, n, owner) == {k \in 1..n : Owner(line, line[d][k]) = owner}

(* A map of the services that the first n flags name for an owner. *)
Holds(map, line, d, n, owner) ==
    /\ DOMAIN map = {line[d][k].service : k \in Of(line, d, n, owner)}
    /\ \A k \in Of(line, d, n, owner) : map[line[d][k].service] = line[d][k].addr

(* No two of the first n flags are for the same service of an owner. *)
NoRepeat(line, d, n) ==
    \A k, l \in 1..n :
      /\ Owner(line, line[d][k]) = Owner(line, line[d][l])
      /\ line[d][k].service = line[d][l].service
      => k = l

IDsDistinct(line) ==
    \A i, j \in DOMAIN line.agents :
      line.agents[i].id = line.agents[j].id => i = j

(* The owner of a server's flag is one of its agents. *)
Owned(line, d, k) ==
    \E j \in DOMAIN line.agents : line.agents[j].id = Owner(line, line[d][k])

(* What the flags of a command line are. *)
LEMMA FlagTypes ==
    ASSUME NEW line \in CommandLines, NEW d \in Directions
    PROVE  /\ DOMAIN line[d] = 1..Len(line[d]) /\ Len(line[d]) \in Nat
           /\ \A k \in 1..Len(line[d]) :
                line[d][k].service \in STRING /\ line[d][k].addr \in STRING
<1> DEFINE Raw == [agent : STRING, service : STRING, addr : STRING]
<1>1. \A raw \in Raw : raw.service \in STRING /\ raw.addr \in STRING
  OBVIOUS
<1>2. line[d] \in Seq(Raw)
  BY CommandLineAssumption
<1> HIDE DEF Raw
<1>3. \A k \in 1..Len(line[d]) : line[d][k] \in Raw
  BY <1>2
<1> QED BY <1>1, <1>2, <1>3

(* A map with one entry more is a map. *)
LEMMA WithIsMap ==
    ASSUME NEW map \in ServiceMaps, NEW s \in STRING, NEW addr \in STRING
    PROVE  With(map, s, addr) \in ServiceMaps
<1>1. PICK S \in SUBSET STRING : map \in [S -> STRING]
  BY DEF ServiceMaps
<1>2. With(map, s, addr) \in [S \cup {s} -> STRING]
  BY <1>1 DEF With
<1>3. S \cup {s} \in SUBSET STRING
  OBVIOUS
<1> QED BY <1>2, <1>3 DEF ServiceMaps

(* addServerMapping and runAgent's loops: a map grows by a flag of its owner. *)
LEMMA HoldsOneMore ==
    ASSUME NEW line \in CommandLines, NEW d \in Directions,
           NEW n \in Nat, n < Len(line[d]), NEW owner,
           NEW map \in ServiceMaps, Holds(map, line, d, n, owner)
    PROVE  LET raw == line[d][n + 1]
           IN /\ Owner(line, raw) # owner => Holds(map, line, d, n + 1, owner)
              /\ Owner(line, raw) = owner /\ raw.service \notin DOMAIN map =>
                   Holds(With(map, raw.service, raw.addr), line, d, n + 1, owner)
<1> DEFINE raw == line[d][n + 1]
           new == With(map, raw.service, raw.addr)
           mine == Of(line, d, n, owner)
<1>1. /\ DOMAIN new = DOMAIN map \cup {raw.service}
      /\ new[raw.service] = raw.addr
      /\ \A t \in DOMAIN map \ {raw.service} : new[t] = map[t]
  <2> HIDE DEF raw
  <2> QED BY DEF With
<1>2. CASE Owner(line, raw) # owner
  <2>1. Of(line, d, n + 1, owner) = mine
    BY <1>2 DEF Of
  <2> QED BY <1>2, <2>1 DEF Holds
<1>3. CASE Owner(line, raw) = owner /\ raw.service \notin DOMAIN map
  <2>1. Of(line, d, n + 1, owner) = mine \cup {n + 1}
    BY <1>3 DEF Of
  <2>2. /\ DOMAIN map = {line[d][k].service : k \in mine}
        /\ \A k \in mine : map[line[d][k].service] = line[d][k].addr
    BY DEF Holds
  <2> HIDE DEF new, mine
  <2>3. DOMAIN new = {line[d][k].service : k \in mine \cup {n + 1}}
    BY <1>1, <2>2
  <2>4. ASSUME NEW k \in mine \cup {n + 1}
        PROVE  new[line[d][k].service] = line[d][k].addr
    BY <1>1, <1>3, <2>2
  <2>5. Holds(new, line, d, n + 1, owner)
    BY <2>1, <2>3, <2>4 DEF Holds
  <2> QED BY <1>3, <2>5 DEF new
<1> QED BY <1>2, <1>3

(* A service that a map does not hold yet is none of its owner's so far. *)
LEMMA NoRepeatOneMore ==
    ASSUME NEW line, NEW d, NEW n \in Nat, NEW map,
           Holds(map, line, d, n, Owner(line, line[d][n + 1])),
           NoRepeat(line, d, n)
    PROVE  /\ line[d][n + 1].service \notin DOMAIN map => NoRepeat(line, d, n + 1)
           /\ line[d][n + 1].service \in DOMAIN map => ~NoRepeat(line, d, n + 1)
<1> DEFINE Name(k) == Owner(line, line[d][k])
           Service(k) == line[d][k].service
<1>1. \A k, l \in 1..n : Name(k) = Name(l) /\ Service(k) = Service(l) => k = l
  BY DEF NoRepeat
<1>2. Service(n + 1) \in DOMAIN map <=>
        \E k \in 1..n : Name(k) = Name(n + 1) /\ Service(k) = Service(n + 1)
  BY DEF Holds, Of
<1>3. NoRepeat(line, d, n + 1) <=>
        \A k, l \in 1..(n + 1) : Name(k) = Name(l) /\ Service(k) = Service(l) => k = l
  BY DEF NoRepeat
<1>4. 1..(n + 1) = (1..n) \cup {n + 1} /\ n + 1 \notin 1..n
  OBVIOUS
<1> HIDE DEF Name, Service
<1>5. Service(n + 1) \notin DOMAIN map => NoRepeat(line, d, n + 1)
  BY <1>1, <1>2, <1>3, <1>4
<1>6. Service(n + 1) \in DOMAIN map => ~NoRepeat(line, d, n + 1)
  BY <1>2, <1>3, <1>4
<1> QED BY <1>5, <1>6 DEF Service

(* The map of a file, where no service is named twice. *)
LEMMA FileServices ==
    ASSUME NEW line \in CommandLines, NEW d \in Directions, NEW owner,
           NoRepeat(line, d, Len(line[d]))
    PROVE  /\ Holds(ServicesOf(line, d, owner), line, d, Len(line[d]), owner)
           /\ ServicesOf(line, d, owner)
                = [s \in DOMAIN ServicesOf(line, d, owner) |->
                     ServicesOf(line, d, owner)[s]]
<1> DEFINE mine == Of(line, d, Len(line[d]), owner)
           raws == {raw \in ToSet(line[d]) : Owner(line, raw) = owner}
           addr(s) == (CHOOSE raw \in raws : raw.service = s).addr
<1>1. raws = {line[d][k] : k \in mine}
  BY FlagTypes DEF ToSet, Of
<1>2. ServicesOf(line, d, owner) = [s \in {raw.service : raw \in raws} |-> addr(s)]
  BY DEF ServicesOf
<1>3. {raw.service : raw \in raws} = {line[d][k].service : k \in mine}
  BY <1>1
<1>4. ASSUME NEW k \in mine
      PROVE  addr(line[d][k].service) = line[d][k].addr
  <2> DEFINE s == line[d][k].service
             chosen == CHOOSE raw \in raws : raw.service = s
  <2>1. chosen \in raws /\ chosen.service = s
    BY <1>1
  <2> HIDE DEF chosen, raws
  <2>2. PICK l \in mine : chosen = line[d][l]
    BY <1>1, <2>1
  <2>3. l = k
    BY <2>1, <2>2 DEF NoRepeat, Of
  <2> QED BY <2>2, <2>3 DEF chosen
<1> HIDE DEF addr, raws
<1> QED BY <1>2, <1>3, <1>4 DEF Holds

(* The flags, once all are read, have made the map that the file holds. *)
LEMMA HoldsAll ==
    ASSUME NEW line \in CommandLines, NEW d \in Directions, NEW owner,
           NEW map \in ServiceMaps, NoRepeat(line, d, Len(line[d])),
           Holds(map, line, d, Len(line[d]), owner)
    PROVE  map = ServicesOf(line, d, owner)
<1> DEFINE F == ServicesOf(line, d, owner)
<1>1. map = [s \in DOMAIN map |-> map[s]]
  BY DEF ServiceMaps
<1>2. /\ Holds(F, line, d, Len(line[d]), owner)
      /\ F = [s \in DOMAIN F |-> F[s]]
  BY FileServices
<1> HIDE DEF F
<1>3. DOMAIN map = DOMAIN F /\ \A s \in DOMAIN F : map[s] = F[s]
  BY <1>2 DEF Holds
<1> QED BY <1>1, <1>2, <1>3 DEF F

(* Which contents can be written as YAML maps. *)
LEMMA HasFileMeans ==
    ASSUME NEW line \in CommandLines
    PROVE  HasFile(line) <=>
             /\ IDsDistinct(line)
             /\ \A d \in Directions :
                  /\ NoRepeat(line, d, Len(line[d]))
                  /\ line.role = "server" =>
                       \A k \in 1..Len(line[d]) : Owned(line, d, k)
<1>1. Distinct(line.agents, LAMBDA a : a.id) <=> IDsDistinct(line)
  BY DEF Distinct, IDsDistinct
<1>2. ASSUME NEW d \in Directions
      PROVE  Distinct(line[d], LAMBDA raw : <<Owner(line, raw), raw.service>>)
               <=> NoRepeat(line, d, Len(line[d]))
  <2>1. DOMAIN line[d] = 1..Len(line[d])
    BY FlagTypes
  <2> QED BY <2>1 DEF Distinct, NoRepeat
<1>3. \A d \in Directions : DOMAIN line[d] = 1..Len(line[d])
  BY FlagTypes
<1> QED BY <1>1, <1>2, <1>3 DEF HasFile, Owned

(* ValidateConfig of a file looks at every agent that a flag would name. *)
LEMMA FileAgents ==
    ASSUME NEW line \in CommandLines, line.role = "server",
           NEW c \in FileConfigs(line), NEW j \in DOMAIN line.agents
    PROVE  /\ line.agents[j].id \in AgentIDs
           /\ ServicesValid(ServicesOf(line, "forward", line.agents[j].id), "dial")
           /\ ServicesValid(ServicesOf(line, "reverse", line.agents[j].id), "listen")
<1>1. c \in LoadConfigs(line) /\ serverValidateConfig(c)
  BY DEF FileConfigs, ValidateConfig
<1>2. PICK i \in DOMAIN c.agents : c.agents[i] = FileEntry(line, line.agents[j])
  BY <1>1, LoadedServer
<1>3. /\ c.agents[i].id = line.agents[j].id
      /\ c.agents[i].forward = ServicesOf(line, "forward", line.agents[j].id)
      /\ c.agents[i].reverse = ServicesOf(line, "reverse", line.agents[j].id)
  BY <1>2 DEF FileEntry
<1> QED BY <1>1, <1>2, <1>3 DEF serverValidateConfig

(* And at every service that a flag of a server would name. *)
LEMMA FileFlags ==
    ASSUME NEW line \in CommandLines, line.role = "server",
           NEW c \in FileConfigs(line), NEW d \in Directions,
           NEW k \in 1..Len(line[d])
    PROVE  /\ line[d][k].service \in RouteIDs
           /\ validateHostPort(line[d][k].addr, d = "reverse")
<1> DEFINE id == Owner(line, line[d][k])
           map == ServicesOf(line, d, id)
<1>1. HasFile(line)
  BY DEF FileConfigs
<1>2. Owned(line, d, k) /\ NoRepeat(line, d, Len(line[d]))
  BY <1>1, HasFileMeans
<1>3. PICK j \in DOMAIN line.agents : line.agents[j].id = id
  BY <1>2 DEF Owned
<1>4. k \in Of(line, d, Len(line[d]), id)
  BY DEF Of
<1>5. /\ line[d][k].service \in DOMAIN map
      /\ map[line[d][k].service] = line[d][k].addr
  <2> HIDE DEF id
  <2>1. Holds(map, line, d, Len(line[d]), id)
    BY <1>2, FileServices
  <2> HIDE DEF map
  <2> QED BY <1>4, <2>1 DEF Holds
<1>6. ServicesValid(map, IF d = "forward" THEN "dial" ELSE "listen")
  <2>1. CASE d = "forward"
    BY <1>3, <2>1, FileAgents
  <2>2. CASE d = "reverse"
    BY <1>3, <2>2, FileAgents
  <2> QED BY <2>1, <2>2 DEF Directions
<1> HIDE DEF id, map
<1> QED BY <1>5, <1>6
        DEF ServicesValid, ValidateTCPAddress, ValidateListenAddress, Directions

(* The flags of an agent are its own. *)
LEMMA AgentOwns ==
    ASSUME NEW line \in CommandLines, line.role = "agent",
           NEW d \in Directions, NEW k \in 1..Len(line[d])
    PROVE  Owner(line, line[d][k]) = NoID
<1>1. line.agents = <<>> /\ line[d][k].agent = NoID
  BY FlagTypes, CommandLineAssumption
<1> QED BY <1>1 DEF Owner, OwnerAmong

(* The same for an agent, whose flags are checked for their service first. *)
LEMMA FileAgentFlags ==
    ASSUME NEW line \in CommandLines, line.role = "agent",
           FileConfigs(line) # {}, NEW d \in Directions,
           NEW k \in 1..Len(line[d])
    PROVE  line[d][k].service \in RouteIDs
<1>1. PICK c \in FileConfigs(line) : TRUE
  OBVIOUS
<1>2. c = ApplyDefaults(agentLoadConfig(line)) /\ agentValidateConfig(c)
  BY <1>1 DEF FileConfigs, LoadConfigs, ValidateConfig
<1>3. /\ c.forward = ServicesOf(line, "forward", NoID)
      /\ c.reverse = ServicesOf(line, "reverse", NoID)
  BY <1>2 DEF ApplyDefaults, agentLoadConfig
<1>4. NoRepeat(line, d, Len(line[d]))
  BY <1>1, HasFileMeans DEF FileConfigs
<1>5. Owner(line, line[d][k]) = NoID
  BY AgentOwns
<1>6. line[d][k].service \in DOMAIN ServicesOf(line, d, NoID)
  <2>1. Holds(ServicesOf(line, d, NoID), line, d, Len(line[d]), NoID)
    BY <1>4, FileServices
  <2> QED BY <1>5, <2>1 DEF Holds, Of
<1>7. \A s \in DOMAIN ServicesOf(line, d, NoID) : s \in RouteIDs
  BY <1>2, <1>3 DEF agentValidateConfig, ServicesValid, Directions
<1> QED BY <1>6, <1>7

(* Entries with the agents in the order of the flags are a file's, too. *)
LEMMA FlagOrder ==
    ASSUME NEW line \in CommandLines, line.role = "server", IDsDistinct(line)
    PROVE  ApplyDefaults([agents |-> [j \in 1..Len(line.agents) |->
                                        FileEntry(line, line.agents[j])],
                          limit |-> line.limit])
             \in LoadConfigs(line)
<1> DEFINE E == FileEntries(line)
           n == Len(line.agents)
           f == [j \in 1..n |-> FileEntry(line, line.agents[j])]
<1>1. /\ IsFiniteSet(E) /\ f \in Surjection(1..n, E)
      /\ DOMAIN line.agents = 1..n /\ n \in Nat
  BY EntriesFinite
<1>2. \A i, j \in 1..n : f[i] = f[j] => i = j
  <2> TAKE i, j \in 1..n
  <2>1. f[i].id = line.agents[i].id /\ f[j].id = line.agents[j].id
    BY DEF FileEntry
  <2> QED BY <1>1, <2>1 DEF IDsDistinct
<1>3. IsFiniteSet(1..n) /\ Cardinality(1..n) = n
  BY <1>1, FS_Interval
<1> HIDE DEF f, n, E
<1>4. f \in [1..n -> E] /\ DOMAIN f = 1..n
  BY <1>1 DEF Surjection
<1>5. f \in Injection(1..n, E)
  BY <1>2, <1>4 DEF Injection, IsInjective
<1>6. Cardinality(E) = n
  BY <1>1, <1>3, <1>5, FS_Surjection
<1>7. f \in SetToSeqs(E)
  BY <1>2, <1>4, <1>6 DEF SetToSeqs
<1>8. [agents |-> f, limit |-> line.limit] \in serverLoadConfigs(line)
  BY <1>7 DEF serverLoadConfigs, E, FileEntries
<1> QED BY <1>8 DEF LoadConfigs, f, n

(* ValidateConfig does not depend on the order of the agents. *)
LEMMA OrderDoesNotMatter ==
    ASSUME NEW line \in CommandLines, line.role = "server",
           NEW c \in FileConfigs(line), NEW own,
           own.agents = [j \in 1..Len(line.agents) |->
                           FileEntry(line, line.agents[j])],
           own.limit = IF line.limit = 0 THEN Default ELSE line.limit
    PROVE  serverValidateConfig(own)
<1>1. c \in LoadConfigs(line) /\ serverValidateConfig(c) /\ HasFile(line)
  BY DEF FileConfigs, ValidateConfig
<1>2. IDsDistinct(line)
  BY <1>1, HasFileMeans
<1>3. DOMAIN line.agents = 1..Len(line.agents) /\ Len(line.agents) \in Nat
  BY EntriesFinite
<1>4. own.limit > 0
  BY <1>1, LoadedServer DEF serverValidateConfig
<1>5. own.agents # <<>>
  <2>1. PICK n \in Nat : c.agents \in [1..n -> FileEntries(line)]
    BY <1>1, LoadedServer
  <2>2. n # 0
    BY <1>1, <2>1 DEF serverValidateConfig
  <2>3. c.agents[1] \in FileEntries(line)
    BY <2>1, <2>2
  <2>4. Len(line.agents) # 0
    BY <1>3, <2>3 DEF FileEntries, ToSet
  <2>5. 1 \in DOMAIN own.agents
    BY <1>3, <2>4
  <2> QED BY <2>5
<1>6. \A j \in 1..Len(line.agents) :
        /\ own.agents[j].id = line.agents[j].id
        /\ own.agents[j].forward = ServicesOf(line, "forward", line.agents[j].id)
        /\ own.agents[j].reverse = ServicesOf(line, "reverse", line.agents[j].id)
  BY DEF FileEntry
<1>7. DOMAIN own.agents = 1..Len(line.agents)
  OBVIOUS
<1>8. \A j \in DOMAIN own.agents :
        /\ own.agents[j].id \in AgentIDs
        /\ ServicesValid(own.agents[j].forward, "dial")
        /\ ServicesValid(own.agents[j].reverse, "listen")
  BY <1>3, <1>6, <1>7, FileAgents
<1>9. Distinct(own.agents, LAMBDA a : a.id)
  BY <1>2, <1>3, <1>6, <1>7 DEF Distinct, IDsDistinct
<1> QED BY <1>4, <1>5, <1>8, <1>9 DEF serverValidateConfig

-----------------------------------------------------------------------------
(* The loops over the flags *)

(* An agent of a server's configuration. *)
Entries ==
    [id : STRING, path : Paths, forward : ServiceMaps, reverse : ServiceMaps]

(***************************************************************************)
(* What runServer has made of the first n agents and the first m[d] flags  *)
(* of each direction d: the agents in their order, and, unless two have    *)
(* the same identifier, each with the services that the flags name for it. *)
(***************************************************************************)
ServerRead(line, c, n, m) ==
    /\ c = [agents |-> c.agents, limit |-> line.limit]
    /\ c.agents \in Seq(Entries) /\ Len(c.agents) = n
    /\ \A j \in 1..n : /\ c.agents[j].id = line.agents[j].id
                       /\ c.agents[j].path = line.agents[j].path
                       /\ c.agents[j].id \in AgentIDs
    /\ IDsDistinct(line) => \A d \in Directions :
         /\ \A j \in 1..n :
              Holds(c.agents[j][d], line, d, m[d], line.agents[j].id)
         /\ NoRepeat(line, d, m[d])
         /\ \A k \in 1..m[d] : Owned(line, d, k)

(* What runAgent has made of them. *)
AgentRead(line, c, m) ==
    /\ c \in [id : {line.id}, limit : {line.limit},
              forward : ServiceMaps, reverse : ServiceMaps]
    /\ \A d \in Directions :
         Holds(c[d], line, d, m[d], NoID) /\ NoRepeat(line, d, m[d])

(* The map without services holds what no flag names. *)
LEMMA HoldsNone ==
    ASSUME NEW line, NEW d, NEW owner
    PROVE  NoServices \in ServiceMaps /\ Holds(NoServices, line, d, 0, owner)
<1>1. NoServices \in [{} -> STRING]
  BY DEF NoServices
<1>2. Of(line, d, 0, owner) = {}
  BY DEF Of
<1> QED BY <1>1, <1>2 DEF ServiceMaps, Holds

(* parseAgent appends an agent, before any mapping has been read. *)
LEMMA AgentStep ==
    ASSUME NEW line \in CommandLines, NEW n \in Nat, n < Len(line.agents),
           NEW m, \A d \in Directions : m[d] = 0,
           NEW c, ServerRead(line, c, n, m),
           NEW new \in parseAgent(c, line.agents[n + 1])
    PROVE  ServerRead(line, new, n + 1, m)
<1> DEFINE raw == line.agents[n + 1]
           entry == [id |-> raw.id, path |-> raw.path,
                     forward |-> NoServices, reverse |-> NoServices]
<1>1. raw \in [id : STRING, path : Paths]
  <2> DEFINE Pairs == [id : STRING, path : Paths]
  <2>1. line.agents \in Seq(Pairs)
    BY CommandLineAssumption
  <2> HIDE DEF Pairs
  <2>2. line.agents[n + 1] \in Pairs
    BY <2>1
  <2> QED BY <2>2 DEF Pairs
<1>2. raw.id \in AgentIDs /\ new = [c EXCEPT !.agents = Append(@, entry)]
  BY DEF parseAgent
<1>3. entry \in Entries
  BY <1>1, HoldsNone DEF Entries
<1>4. /\ entry.id = raw.id /\ entry.path = raw.path
      /\ \A d \in Directions : entry[d] = NoServices
  BY DEF Directions
<1>5. /\ new = [agents |-> Append(c.agents, entry), limit |-> line.limit]
      /\ new.agents = Append(c.agents, entry)
  <2> DEFINE A == c.agents
  <2>1. c = [agents |-> A, limit |-> line.limit]
    BY DEF ServerRead
  <2> HIDE DEF A, entry
  <2>2. new = [agents |-> Append(A, entry), limit |-> line.limit]
    BY <1>2, <2>1
  <2> QED BY <2>2 DEF A
<1> HIDE DEF entry
<1>6. /\ c.agents \in Seq(Entries) /\ Len(c.agents) = n
      /\ \A j \in 1..n : /\ c.agents[j].id = line.agents[j].id
                         /\ c.agents[j].path = line.agents[j].path
                         /\ c.agents[j].id \in AgentIDs
  BY DEF ServerRead
<1>7. /\ new.agents \in Seq(Entries) /\ Len(new.agents) = n + 1
      /\ \A j \in 1..n : new.agents[j] = c.agents[j]
      /\ new.agents[n + 1] = entry
  BY <1>3, <1>5, <1>6
<1>8. \A j \in 1..(n + 1) : /\ new.agents[j].id = line.agents[j].id
                            /\ new.agents[j].path = line.agents[j].path
                            /\ new.agents[j].id \in AgentIDs
  BY <1>2, <1>4, <1>6, <1>7
<1>9. ASSUME IDsDistinct(line), NEW d \in Directions
      PROVE  /\ \A j \in 1..(n + 1) :
                  Holds(new.agents[j][d], line, d, m[d], line.agents[j].id)
             /\ NoRepeat(line, d, m[d])
             /\ \A k \in 1..m[d] : Owned(line, d, k)
  <2>1. \A j \in 1..n : Holds(c.agents[j][d], line, d, m[d], line.agents[j].id)
    BY <1>9 DEF ServerRead
  <2>2. Holds(entry[d], line, d, m[d], raw.id)
    BY <1>4, HoldsNone
  <2>3. \A j \in 1..(n + 1) :
          Holds(new.agents[j][d], line, d, m[d], line.agents[j].id)
    BY <1>7, <2>1, <2>2
  <2> QED BY <1>9, <2>3 DEF ServerRead
<1> QED BY <1>5, <1>7, <1>8, <1>9 DEF ServerRead

(* addServerMapping looks up the first agent with an identifier. *)
LEMMA FirstIsOnly ==
    ASSUME NEW line \in CommandLines, IDsDistinct(line),
           NEW agents \in Seq(Entries), Len(agents) = Len(line.agents),
           \A j \in 1..Len(agents) : agents[j].id = line.agents[j].id, NEW id
    PROVE  LET i == AgentIndex(agents, id)
           IN /\ i = 0 => \A j \in DOMAIN line.agents : line.agents[j].id # id
              /\ i # 0 => i \in DOMAIN line.agents /\ line.agents[i].id = id
<1> DEFINE I == {j \in 1..Len(agents) : agents[j].id = id}
           i == AgentIndex(agents, id)
<1>1. i = IF I # {} THEN Min(I) ELSE 0
  BY DEF AgentIndex, SelectInSeq
<1>2. DOMAIN line.agents = 1..Len(line.agents) /\ Len(line.agents) \in Nat
  BY EntriesFinite
<1>3. CASE I = {}
  BY <1>1, <1>2, <1>3
<1>4. CASE I # {}
  <2>1. PICK j \in I : TRUE
    BY <1>4
  <2>2. I = {j} /\ j \in Nat \ {0}
    BY <1>2, <2>1 DEF IDsDistinct
  <2>3. Min(I) = j
    BY <2>2 DEF Min
  <2>4. i = j
    BY <1>1, <1>4, <2>3
  <2>5. j \in DOMAIN line.agents /\ line.agents[j].id = id /\ j # 0
    BY <1>2, <2>1
  <2> HIDE DEF i
  <2>6. i # 0 /\ i \in DOMAIN line.agents /\ line.agents[i].id = id
    BY <2>4, <2>5
  <2> QED BY <2>6 DEF i
<1> QED BY <1>3, <1>4

(* Once all agents are read, a flag has the owner that the file gives it. *)
LEMMA SameOwner ==
    ASSUME NEW line \in CommandLines, NEW agents \in Seq(Entries),
           Len(agents) = Len(line.agents),
           \A j \in 1..Len(agents) : agents[j].id = line.agents[j].id, NEW raw
    PROVE  OwnerAmong(agents, raw) = Owner(line, raw)
<1>1. Len(agents) \in Nat
  OBVIOUS
<1> QED BY <1>1 DEF Owner, OwnerAmong

(* The agents B are the agents A but for one service of the agent at i. *)
OneService(A, B, i, d, s, addr) ==
    /\ B \in Seq(Entries) /\ Len(B) = Len(A)
    /\ \A j \in 1..Len(A) : /\ B[j].id = A[j].id /\ B[j].path = A[j].path
                            /\ j # i => B[j] = A[j]
                            /\ \A e \in Directions \ {d} : B[j][e] = A[j][e]
    /\ i \in 1..Len(A) => /\ A[i][d] \in ServiceMaps
                          /\ B[i][d] = With(A[i][d], s, addr)

(* The one agent whose map addServerMapping changes. *)
LEMMA MappingAdded ==
    ASSUME NEW A \in Seq(Entries), NEW i, NEW d \in Directions,
           NEW s \in STRING, NEW addr \in STRING
    PROVE  OneService(A, [A EXCEPT ![i][d] = With(@, s, addr)], i, d, s, addr)
<1> DEFINE B == [A EXCEPT ![i][d] = With(@, s, addr)]
<1>1. CASE i \in 1..Len(A)
  <2>1. A[i] \in Entries
    BY <1>1
  <2>2. A[i][d] \in ServiceMaps
    BY <2>1 DEF Entries, Directions
  <2> DEFINE map == With(A[i][d], s, addr)
  <2>3. map \in ServiceMaps
    BY <2>2, WithIsMap
  <2>4. B = [A EXCEPT ![i] = [A[i] EXCEPT ![d] = map]]
    OBVIOUS
  <2> HIDE DEF map
  <2> DEFINE e == [A[i] EXCEPT ![d] = map]
  <2>5. /\ e \in Entries /\ e.id = A[i].id /\ e.path = A[i].path /\ e[d] = map
        /\ \A f \in Directions \ {d} : e[f] = A[i][f]
    BY <2>1, <2>3 DEF Entries, Directions
  <2> HIDE DEF e
  <2>6. /\ B \in Seq(Entries) /\ Len(B) = Len(A)
        /\ \A j \in 1..Len(A) : j # i => B[j] = A[j]
        /\ B[i] = e
    BY <1>1, <2>4, <2>5 DEF e
  <2> HIDE DEF B
  <2>7. OneService(A, B, i, d, s, addr)
    BY <1>1, <2>2, <2>5, <2>6 DEF map, OneService
  <2> QED BY <2>7 DEF B
<1>2. CASE i \notin 1..Len(A)
  <2>1. B = A
    BY <1>2
  <2>2. OneService(A, A, i, d, s, addr)
    BY <1>2 DEF OneService
  <2> QED BY <2>1, <2>2
<1> QED BY <1>1, <1>2

(* addServerMapping takes a flag: the map of its owner, and no other, grows. *)
LEMMA ServerFlagStep ==
    ASSUME NEW line \in CommandLines, NEW d \in Directions,
           NEW m \in [FlagLists -> Nat], m[d] < Len(line[d]),
           NEW c, ServerRead(line, c, Len(line.agents), m),
           NEW new \in addServerMapping(c, line[d][m[d] + 1], d)
    PROVE  ServerRead(line, new, Len(line.agents), [m EXCEPT ![d] = @ + 1])
<1> DEFINE N == Len(line.agents)
           k == m[d] + 1
           raw == line[d][k]
           id == Owner(line, raw)
           A == c.agents
           i == AgentIndex(A, OwnerAmong(A, raw))
           B == new.agents
           m2 == [m EXCEPT ![d] = @ + 1]
<1>1. /\ c = [agents |-> A, limit |-> line.limit]
      /\ A \in Seq(Entries) /\ Len(A) = N
      /\ \A j \in 1..N : /\ A[j].id = line.agents[j].id
                         /\ A[j].path = line.agents[j].path
                         /\ A[j].id \in AgentIDs
  BY DEF ServerRead
<1>2. /\ i # 0 /\ raw.service \notin DOMAIN A[i][d]
      /\ new = [c EXCEPT !.agents[i][d] = With(@, raw.service, raw.addr)]
  BY DEF addServerMapping
<1>3. /\ m[d] \in Nat /\ k \in 1..Len(line[d])
      /\ raw.service \in STRING /\ raw.addr \in STRING
  BY FlagTypes DEF FlagLists
<1>4. /\ new = [agents |-> B, limit |-> line.limit]
      /\ B = [A EXCEPT ![i][d] = With(@, raw.service, raw.addr)]
  <2> HIDE DEF A, i, raw
  <2>1. new = [agents |-> [A EXCEPT ![i][d] = With(@, raw.service, raw.addr)],
               limit |-> line.limit]
    BY <1>1, <1>2
  <2> QED BY <2>1
<1>5. m2[d] = k /\ \A e \in Directions \ {d} : m2[e] = m[e]
  BY DEF FlagLists
<1>6. DOMAIN line.agents = 1..N /\ N \in Nat
  BY EntriesFinite
<1>7. IDsDistinct(line) => i \in 1..N /\ line.agents[i].id = id
  <2>1. OwnerAmong(A, raw) = id
    BY <1>1, SameOwner
  <2>2. i = AgentIndex(A, id)
    BY <2>1
  <2> HIDE DEF i, id, A, raw
  <2>3. /\ A \in Seq(Entries) /\ Len(A) = Len(line.agents)
        /\ \A j \in 1..Len(A) : A[j].id = line.agents[j].id
    BY <1>1
  <2>4. ASSUME IDsDistinct(line)
        PROVE  i # 0 => i \in DOMAIN line.agents /\ line.agents[i].id = id
    BY <2>2, <2>3, <2>4, FirstIsOnly
  <2> QED BY <1>2, <1>6, <2>4
<1> HIDE DEF i, B, A, raw, id, k, m2, N
<1>8. /\ B \in Seq(Entries) /\ Len(B) = N
      /\ \A j \in 1..N : /\ B[j].id = A[j].id /\ B[j].path = A[j].path
                         /\ j # i => B[j] = A[j]
                         /\ \A e \in Directions \ {d} : B[j][e] = A[j][e]
      /\ i \in 1..N => /\ A[i][d] \in ServiceMaps
                       /\ B[i][d] = With(A[i][d], raw.service, raw.addr)
  <2> DEFINE s == raw.service
             a == raw.addr
  <2>1. s \in STRING /\ a \in STRING /\ A \in Seq(Entries) /\ Len(A) = N
    BY <1>1, <1>3
  <2>2. B = [A EXCEPT ![i][d] = With(@, s, a)]
    BY <1>4
  <2> HIDE DEF s, a
  <2>3. OneService(A, [A EXCEPT ![i][d] = With(@, s, a)], i, d, s, a)
    BY <2>1, MappingAdded
  <2>4. OneService(A, B, i, d, s, a)
    BY <2>2, <2>3
  <2> QED BY <2>1, <2>4 DEF OneService, s, a
<1>9. \A j \in 1..N : /\ B[j].id = line.agents[j].id
                      /\ B[j].path = line.agents[j].path
                      /\ B[j].id \in AgentIDs
  BY <1>1, <1>8
<1>10. ASSUME IDsDistinct(line), NEW e \in Directions
       PROVE  /\ \A j \in 1..N :
                   Holds(B[j][e], line, e, m2[e], line.agents[j].id)
              /\ NoRepeat(line, e, m2[e])
              /\ \A l \in 1..m2[e] : Owned(line, e, l)
  <2>1. /\ \A j \in 1..N : Holds(A[j][e], line, e, m[e], line.agents[j].id)
        /\ NoRepeat(line, e, m[e])
        /\ \A l \in 1..m[e] : Owned(line, e, l)
    BY <1>10 DEF ServerRead, A, N
  <2>2. CASE e # d
    <3>1. m2[e] = m[e]
      BY <1>5, <2>2
    <3>2. \A j \in 1..N : B[j][e] = A[j][e]
      BY <1>8, <2>2
    <3> QED BY <2>1, <3>1, <3>2
  <2>3. CASE e = d
    <3>1. i \in 1..N /\ line.agents[i].id = id
      BY <1>7, <1>10
    <3>2. ASSUME NEW j \in 1..N, j # i
          PROVE  Holds(B[j][d], line, d, k, line.agents[j].id)
      <4>1. line.agents[j].id # id
        BY <1>6, <1>10, <3>1, <3>2 DEF IDsDistinct
      <4>2. A[j][d] \in ServiceMaps
        <5>1. A[j] \in Entries
          BY <1>1
        <5> QED BY <5>1 DEF Entries, Directions
      <4>3. Holds(A[j][d], line, d, k, line.agents[j].id)
        BY <1>3, <2>1, <2>3, <4>1, <4>2, HoldsOneMore DEF k, id, raw
      <4> QED BY <1>8, <3>2, <4>3
    <3>3. Holds(B[i][d], line, d, k, id)
      <4>1. /\ A[i][d] \in ServiceMaps /\ Holds(A[i][d], line, d, m[d], id)
            /\ B[i][d] = With(A[i][d], raw.service, raw.addr)
        BY <1>8, <2>1, <2>3, <3>1
      <4>2. Holds(With(A[i][d], raw.service, raw.addr), line, d, k, id)
        BY <1>2, <1>3, <4>1, HoldsOneMore DEF k, id, raw
      <4> QED BY <4>1, <4>2
    <3>4. NoRepeat(line, d, k)
      BY <1>2, <1>3, <2>1, <2>3, <3>1, NoRepeatOneMore DEF k, id, raw
    <3>5. Owned(line, d, k)
      BY <1>6, <3>1 DEF Owned, id, raw
    <3>6. \A l \in 1..k : Owned(line, d, l)
      BY <1>3, <2>1, <2>3, <3>5 DEF k
    <3> QED BY <1>5, <2>3, <3>1, <3>2, <3>3, <3>4, <3>6
  <2> QED BY <2>2, <2>3
<1> QED BY <1>4, <1>8, <1>9, <1>10 DEF ServerRead, B, N, m2

(* runAgent takes a flag: the map of its direction grows. *)
LEMMA AgentFlagStep ==
    ASSUME NEW line \in CommandLines, line.role = "agent",
           NEW d \in Directions, NEW m \in [FlagLists -> Nat], m[d] < Len(line[d]),
           NEW c, AgentRead(line, c, m),
           NEW new \in addAgentMapping(c, line[d][m[d] + 1], d)
    PROVE  AgentRead(line, new, [m EXCEPT ![d] = @ + 1])
<1> DEFINE k == m[d] + 1
           raw == line[d][k]
           m2 == [m EXCEPT ![d] = @ + 1]
           map == With(c[d], raw.service, raw.addr)
           Cs == [id : {line.id}, limit : {line.limit},
                  forward : ServiceMaps, reverse : ServiceMaps]
<1>1. /\ m[d] \in Nat /\ k \in 1..Len(line[d])
      /\ raw.service \in STRING /\ raw.addr \in STRING
  BY FlagTypes DEF FlagLists
<1>2. raw.service \notin DOMAIN c[d] /\ new = [c EXCEPT ![d] = map]
  BY DEF addAgentMapping, parseServiceMapping
<1>3. c \in Cs /\ \A e \in Directions : c[e] \in ServiceMaps
  BY DEF AgentRead, Directions
<1>4. map \in ServiceMaps
  <2> DEFINE s == raw.service
             a == raw.addr
  <2>1. s \in STRING /\ a \in STRING /\ c[d] \in ServiceMaps
    BY <1>1, <1>3
  <2> HIDE DEF s, a
  <2>2. With(c[d], s, a) \in ServiceMaps
    BY <2>1, WithIsMap
  <2> QED BY <2>2 DEF s, a
<1>5. m2[d] = k /\ \A e \in Directions \ {d} : m2[e] = m[e]
  BY DEF FlagLists
<1>6. Owner(line, raw) = NoID
  BY <1>1, AgentOwns
<1>7. /\ Holds(c[d], line, d, m[d], NoID) /\ NoRepeat(line, d, m[d])
      /\ \A e \in Directions : Holds(c[e], line, e, m[e], NoID)
                               /\ NoRepeat(line, e, m[e])
  BY DEF AgentRead
<1>8. Holds(map, line, d, k, NoID)
  BY <1>1, <1>2, <1>3, <1>6, <1>7, HoldsOneMore
<1>9. NoRepeat(line, d, k)
  BY <1>1, <1>2, <1>6, <1>7, NoRepeatOneMore
<1> HIDE DEF map, k, m2
<1>10. /\ new \in Cs /\ new[d] = map
       /\ \A e \in Directions \ {d} : new[e] = c[e]
  BY <1>2, <1>3, <1>4 DEF Directions
<1>11. \A e \in Directions : Holds(new[e], line, e, m2[e], NoID)
                             /\ NoRepeat(line, e, m2[e])
  BY <1>5, <1>7, <1>8, <1>9, <1>10
<1> QED BY <1>10, <1>11 DEF AgentRead, m2

(***************************************************************************)
(* Whatever makes runServer refuse a flag makes LoadConfig refuse the file *)
(* with the same contents, in whatever order they come.                    *)
(***************************************************************************)
LEMMA ServerFlagRefused ==
    ASSUME NEW line \in CommandLines, line.role = "server",
           NEW d \in Directions, NEW m \in [FlagLists -> Nat], m[d] < Len(line[d]),
           NEW c, ServerRead(line, c, Len(line.agents), m),
           addServerMapping(c, line[d][m[d] + 1], d) = {}
    PROVE  FileConfigs(line) = {}
<1> SUFFICES ASSUME NEW f \in FileConfigs(line)
             PROVE  FALSE
  OBVIOUS
<1> DEFINE k == m[d] + 1
           raw == line[d][k]
           id == Owner(line, raw)
           A == c.agents
           i == AgentIndex(A, OwnerAmong(A, raw))
<1>1. m[d] \in Nat /\ k \in 1..Len(line[d])
  BY FlagTypes DEF FlagLists
<1>2. raw.service \in RouteIDs /\ validateHostPort(raw.addr, d = "reverse")
  BY <1>1, FileFlags
<1>3. /\ IDsDistinct(line) /\ Owned(line, d, k)
      /\ NoRepeat(line, d, Len(line[d]))
  BY <1>1, HasFileMeans DEF FileConfigs
<1>4. /\ A \in Seq(Entries) /\ Len(A) = Len(line.agents)
      /\ \A j \in 1..Len(A) : A[j].id = line.agents[j].id
  BY DEF ServerRead
<1>5. DOMAIN line.agents = 1..Len(line.agents)
  BY EntriesFinite
<1>6. i \in DOMAIN line.agents /\ line.agents[i].id = id /\ i # 0
  <2>1. OwnerAmong(A, raw) = id
    BY <1>4, SameOwner
  <2>2. i = AgentIndex(A, id)
    BY <2>1
  <2>3. \E j \in DOMAIN line.agents : line.agents[j].id = id
    BY <1>3 DEF Owned
  <2> HIDE DEF i, id, A, raw
  <2>4. /\ i = 0 => \A j \in DOMAIN line.agents : line.agents[j].id # id
        /\ i # 0 => i \in DOMAIN line.agents /\ line.agents[i].id = id
    BY <1>3, <1>4, <2>2, FirstIsOnly
  <2> QED BY <2>3, <2>4
<1>7. raw.service \in DOMAIN A[i][d]
  BY <1>2, <1>6 DEF addServerMapping
<1>8. Holds(A[i][d], line, d, m[d], id) /\ NoRepeat(line, d, m[d])
  BY <1>3, <1>5, <1>6 DEF ServerRead
<1>9. ~NoRepeat(line, d, k)
  BY <1>1, <1>7, <1>8, NoRepeatOneMore
<1>10. NoRepeat(line, d, k)
  BY <1>1, <1>3, FlagTypes DEF NoRepeat
<1> QED BY <1>9, <1>10

(* The same for runAgent. *)
LEMMA AgentFlagRefused ==
    ASSUME NEW line \in CommandLines, line.role = "agent",
           NEW d \in Directions, NEW m \in [FlagLists -> Nat], m[d] < Len(line[d]),
           NEW c, AgentRead(line, c, m),
           addAgentMapping(c, line[d][m[d] + 1], d) = {}
    PROVE  FileConfigs(line) = {}
<1> SUFFICES ASSUME FileConfigs(line) # {}
             PROVE  FALSE
  OBVIOUS
<1> DEFINE k == m[d] + 1
           raw == line[d][k]
<1>1. m[d] \in Nat /\ k \in 1..Len(line[d])
  BY FlagTypes DEF FlagLists
<1>2. raw.service \in RouteIDs
  BY <1>1, FileAgentFlags
<1>3. raw.service \in DOMAIN c[d]
  BY <1>2 DEF addAgentMapping, parseServiceMapping
<1>4. Holds(c[d], line, d, m[d], Owner(line, raw)) /\ NoRepeat(line, d, m[d])
  BY <1>1, AgentOwns DEF AgentRead
<1>5. ~NoRepeat(line, d, k)
  BY <1>1, <1>3, <1>4, NoRepeatOneMore
<1>6. NoRepeat(line, d, Len(line[d]))
  BY HasFileMeans DEF FileConfigs
<1>7. NoRepeat(line, d, k)
  BY <1>1, <1>6, FlagTypes DEF NoRepeat
<1> QED BY <1>5, <1>7

(***************************************************************************)
(* The end of runServer's loops: ValidateConfig takes what the flags made  *)
(* exactly when it takes the file, and it is then one of the file's.       *)
(***************************************************************************)
LEMMA ServerAllRead ==
    ASSUME NEW line \in CommandLines, line.role = "server",
           NEW m, \A d \in Directions : m[d] = Len(line[d]),
           NEW c, ServerRead(line, c, Len(line.agents), m)
    PROVE  /\ serverValidateConfig(ApplyDefaults(c)) =>
                ApplyDefaults(c) \in FileConfigs(line)
           /\ FileConfigs(line) # {} => serverValidateConfig(ApplyDefaults(c))
<1> DEFINE N == Len(line.agents)
           A == c.agents
           own == ApplyDefaults(c)
           F == [j \in 1..N |-> FileEntry(line, line.agents[j])]
<1>1. /\ c = [agents |-> A, limit |-> line.limit]
      /\ A \in Seq(Entries) /\ Len(A) = N
      /\ \A j \in 1..N : /\ A[j].id = line.agents[j].id
                         /\ A[j].path = line.agents[j].path
  BY DEF ServerRead
<1>2. DOMAIN line.agents = 1..N /\ N \in Nat
  BY EntriesFinite
<1>3. /\ own.agents = A
      /\ own.limit = IF line.limit = 0 THEN Default ELSE line.limit
  <2> HIDE DEF A
  <2> QED BY <1>1 DEF ApplyDefaults
<1>4. ASSUME IDsDistinct(line)
      PROVE  HasFile(line) /\ A = F
  <2>1. \A d \in Directions : /\ NoRepeat(line, d, Len(line[d]))
                              /\ \A k \in 1..Len(line[d]) : Owned(line, d, k)
    BY <1>4 DEF ServerRead
  <2>2. ASSUME NEW j \in 1..N
        PROVE  A[j] = F[j]
    <3>1. A[j] \in Entries
      BY <1>1
    <3>2. A[j].forward \in ServiceMaps /\ A[j].reverse \in ServiceMaps
      BY <3>1 DEF Entries
    <3>3. /\ Holds(A[j].forward, line, "forward", Len(line["forward"]),
                  line.agents[j].id)
          /\ Holds(A[j].reverse, line, "reverse", Len(line["reverse"]),
                  line.agents[j].id)
      BY <1>4 DEF ServerRead, Directions
    <3>4. A[j].forward = ServicesOf(line, "forward", line.agents[j].id)
      BY <2>1, <3>2, <3>3, HoldsAll DEF Directions
    <3>5. A[j].reverse = ServicesOf(line, "reverse", line.agents[j].id)
      BY <2>1, <3>2, <3>3, HoldsAll DEF Directions
    <3>6. A[j] = [id |-> A[j].id, path |-> A[j].path,
                  forward |-> A[j].forward, reverse |-> A[j].reverse]
      BY <3>1 DEF Entries
    <3> QED BY <1>1, <3>4, <3>5, <3>6 DEF FileEntry
  <2>3. A = F
    <3>1. A = [j \in 1..N |-> A[j]]
      BY <1>1
    <3> HIDE DEF A, N
    <3> QED BY <2>2, <3>1
  <2> QED BY <1>4, <2>1, <2>3, HasFileMeans
<1>5. ASSUME serverValidateConfig(own)
      PROVE  own \in FileConfigs(line)
  <2>1. \A i, j \in DOMAIN A : A[i].id = A[j].id => i = j
    BY <1>3, <1>5 DEF serverValidateConfig, Distinct
  <2>2. IDsDistinct(line)
    BY <1>1, <1>2, <2>1 DEF IDsDistinct
  <2>3. HasFile(line) /\ c = [agents |-> F, limit |-> line.limit]
    BY <1>1, <1>4, <2>2
  <2>4. own \in LoadConfigs(line)
    BY <2>2, <2>3, FlagOrder
  <2> QED BY <1>5, <2>3, <2>4 DEF FileConfigs, ValidateConfig
<1>6. ASSUME FileConfigs(line) # {}
      PROVE  serverValidateConfig(own)
  <2>1. PICK f \in FileConfigs(line) : TRUE
    BY <1>6
  <2>2. own.agents = F
    BY <1>3, <1>4, <2>1, HasFileMeans DEF FileConfigs
  <2> HIDE DEF own
  <2> QED BY <1>3, <2>1, <2>2, OrderDoesNotMatter
<1> QED BY <1>5, <1>6

(* The end of runAgent's loops: the flags made what the file gives. *)
LEMMA AgentAllRead ==
    ASSUME NEW line \in CommandLines, line.role = "agent",
           NEW m, \A d \in Directions : m[d] = Len(line[d]),
           NEW c, AgentRead(line, c, m)
    PROVE  FileConfigs(line)
             = {own \in {ApplyDefaults(c)} : agentValidateConfig(own)}
<1>1. \A d \in Directions :
        Holds(c[d], line, d, Len(line[d]), NoID) /\ NoRepeat(line, d, Len(line[d]))
  BY DEF AgentRead
<1>2. c.forward \in ServiceMaps /\ c.reverse \in ServiceMaps
  BY DEF AgentRead
<1>3. c.forward = ServicesOf(line, "forward", NoID)
  BY <1>1, <1>2, HoldsAll DEF Directions
<1>4. c.reverse = ServicesOf(line, "reverse", NoID)
  BY <1>1, <1>2, HoldsAll DEF Directions
<1>5. c = [id |-> line.id, limit |-> line.limit,
           forward |-> c.forward, reverse |-> c.reverse]
  BY DEF AgentRead
<1>6. c = agentLoadConfig(line)
  BY <1>3, <1>4, <1>5 DEF agentLoadConfig
<1>7. HasFile(line)
  <2>1. IDsDistinct(line)
    BY CommandLineAssumption DEF IDsDistinct
  <2> QED BY <1>1, <2>1, HasFileMeans
<1> QED BY <1>6, <1>7 DEF FileConfigs, LoadConfigs, ValidateConfig

-----------------------------------------------------------------------------
(* The handshake *)

(* What is known of a client: an identifier and a secret, in full. *)
Identities == [id : AgentIDs, secret : {Whole(s) : s \in Secrets}]

(* The clients of a server that has started. *)
ClientsOK(clients) ==
    /\ clients \in Seq(Identities)
    /\ \A i, j \in DOMAIN clients : clients[i].id = clients[j].id => i = j
    /\ IdentitiesDistinct(clients)

(* Neither map of MultiClientTLSConfig is written twice at a key. *)
LEMMA LastIsOnly ==
    ASSUME NEW clients, ClientsOK(clients), NEW i \in DOMAIN clients
    PROVE  /\ {j \in 1..Len(clients) : clients[j].id = clients[i].id} = {i}
           /\ {j \in 1..Len(clients) :
                ClientKey(clients[j]) = ClientKey(clients[i])} = {i}
           /\ Max({i}) = i
<1>1. DOMAIN clients = 1..Len(clients) /\ Len(clients) \in Nat
  BY DEF ClientsOK
<1>2. {j \in 1..Len(clients) : clients[j].id = clients[i].id} = {i}
  BY <1>1 DEF ClientsOK
<1>3. {j \in 1..Len(clients) : ClientKey(clients[j]) = ClientKey(clients[i])} = {i}
  BY <1>1 DEF ClientsOK, IdentitiesDistinct
<1>4. Max({i}) = i
  BY <1>1 DEF Max
<1> QED BY <1>2, <1>3, <1>4

(***************************************************************************)
(* The handshake between a client and a server with these clients: the     *)
(* server shows the certificate of the identifier that was dialled, the    *)
(* client takes it exactly when it was derived from its own secret, and    *)
(* the server then finds the client's key among its clients' keys.         *)
(***************************************************************************)
LEMMA AdmitsExactlyKnown ==
    ASSUME NEW clients, ClientsOK(clients), NEW who \in Identities,
           NEW name \in {ExitServerNameForClient(who.id),
                         ProbeServerNameForClient(who.id)}
    PROVE  LET authn == MultiClientTLSConfig(clients)
               dial  == TLSConfigWithServerName(who.secret, RoleForward, name)
               known == \E i \in DOMAIN clients : clients[i] = who
           IN /\ Admits(authn, dial) <=> known
              /\ known => ClientIDForTLSState(authn, dial) = who.id
<1> DEFINE authn == MultiClientTLSConfig(clients)
           dial  == TLSConfigWithServerName(who.secret, RoleForward, name)
           names == { ExitServerNameForClient(c.id)  : c \in ToSet(clients) }
               \cup { ProbeServerNameForClient(c.id) : c \in ToSet(clients) }
           keys  == { ClientKey(c) : c \in ToSet(clients) }
<1>1. \A i \in DOMAIN clients : clients[i] \in Identities
  BY DEF ClientsOK
<1>2. name.id = who.id /\ name.base \in {"mule-exit", "mule-probe"}
  BY DEF ExitServerNameForClient, ProbeServerNameForClient
<1>3. /\ DOMAIN authn.certBySNI = names
      /\ DOMAIN authn.clientByPublicKey = keys
      /\ authn.clientCAs = { caCertificate(c.secret) : c \in ToSet(clients) }
  BY DEF MultiClientTLSConfig
<1>4. name \in names <=> \E i \in DOMAIN clients : clients[i].id = who.id
  BY DEF ToSet, ExitServerNameForClient, ProbeServerNameForClient
<1>5. ASSUME NEW i \in DOMAIN clients, clients[i].id = who.id
      PROVE  authn.certBySNI[name] = roleCertificate(clients[i].secret, RoleExit)
  <2>1. name \in names
    BY <1>4, <1>5
  <2> DEFINE I == {j \in 1..Len(clients) : clients[j].id = name.id}
  <2>2. authn.certBySNI[name]
          = roleCertificate(clients[IF I # {} THEN Max(I) ELSE 0].secret, RoleExit)
    BY <2>1 DEF MultiClientTLSConfig, LastOf, SelectLastInSeq
  <2>3. I = {i} /\ Max({i}) = i
    <3>1. name.id = clients[i].id
      BY <1>2, <1>5
    <3>2. I = {j \in 1..Len(clients) : clients[j].id = clients[i].id}
      BY <3>1
    <3> HIDE DEF I
    <3> QED BY <3>2, LastIsOnly
  <2> HIDE DEF I
  <2> QED BY <2>2, <2>3
<1>6. ASSUME NEW i \in DOMAIN clients, clients[i] = who
      PROVE  authn.clientByPublicKey[ClientKey(who)] = who.id
  <2>1. ClientKey(who) \in keys
    BY <1>6 DEF ToSet
  <2> DEFINE I == {j \in 1..Len(clients) : ClientKey(clients[j]) = ClientKey(who)}
  <2>2. authn.clientByPublicKey[ClientKey(who)]
          = clients[IF I # {} THEN Max(I) ELSE 0].id
    BY <2>1 DEF MultiClientTLSConfig, LastOf, SelectLastInSeq
  <2>3. I = {i} /\ Max({i}) = i
    BY <1>6, LastIsOnly
  <2> HIDE DEF I
  <2> QED BY <1>6, <2>2, <2>3
<1>7. /\ dial.serverName = name /\ dial.rootCAs = {caCertificate(who.secret)}
      /\ dial.cert = roleCertificate(who.secret, RoleForward)
      /\ dial.expectedPeer = RolePublicKey(who.secret, RoleExit)
  BY DEF TLSConfigWithServerName, RoleForward, RoleExit
<1>8. /\ dial.cert.key = ClientKey(who) /\ dial.cert.usage = "client"
      /\ dial.cert.issuer = caCertificate(who.secret)
  BY <1>7 DEF roleCertificate, ClientKey, RoleForward, RoleExit
<1>9. \A s : /\ roleCertificate(s, RoleExit).issuer = caCertificate(s)
             /\ roleCertificate(s, RoleExit).usage = "server"
             /\ roleCertificate(s, RoleExit).bases = {"mule-exit", "mule-probe"}
             /\ roleCertificate(s, RoleExit).key = RolePublicKey(s, RoleExit)
  BY DEF roleCertificate, RoleExit
<1>10. \A s, t : caCertificate(s) = caCertificate(t) => s = t
  BY DEF caCertificate, derivePrivateKey
<1>11. ASSUME Admits(authn, dial)
       PROVE  \E i \in DOMAIN clients : clients[i] = who
  <2>1. PICK i \in DOMAIN clients : clients[i].id = who.id
    BY <1>3, <1>4, <1>7, <1>11 DEF Admits
  <2>2. authn.certBySNI[name].issuer \in {caCertificate(who.secret)}
    BY <1>7, <1>11 DEF Admits, ClientVerifies
  <2>3. clients[i].secret = who.secret
    BY <1>5, <1>9, <1>10, <2>1, <2>2
  <2> QED BY <1>1, <2>1, <2>3 DEF Identities
<1>12. ASSUME NEW i \in DOMAIN clients, clients[i] = who
       PROVE  Admits(authn, dial)
  <2>1. dial.serverName \in DOMAIN authn.certBySNI
    BY <1>3, <1>4, <1>7, <1>12
  <2>2. ClientVerifies(dial, authn.certBySNI[dial.serverName])
    BY <1>2, <1>5, <1>7, <1>9, <1>12 DEF ClientVerifies
  <2>3. who \in ToSet(clients)
    BY <1>12 DEF ToSet
  <2>4. ServerVerifies(authn, dial.cert)
    BY <1>3, <1>8, <2>3 DEF ServerVerifies
  <2> QED BY <2>1, <2>2, <2>4 DEF Admits
<1>13. ASSUME NEW i \in DOMAIN clients, clients[i] = who
       PROVE  ClientIDForTLSState(authn, dial) = who.id
  BY <1>6, <1>8, <1>13 DEF ClientIDForTLSState
<1> HIDE DEF authn, dial
<1> QED BY <1>11, <1>12, <1>13 DEF authn, dial

-----------------------------------------------------------------------------
(* The inductive invariant *)

(***************************************************************************)
(* Every file was written by keygen or copied from such a file, so it is a *)
(* prefix of a text of a secret that was drawn.  CopyFile relies on it at  *)
(* its source, and WriteFile on the file being there still.                *)
(***************************************************************************)
FilesOK ==
    /\ made \subseteq Secrets
    /\ file \in [Paths -> Files \cup {NoFile}]
    /\ \A p \in Paths : file[p] # NoFile => file[p] \in Files
                                            /\ file[p].secret \in made
    /\ keygen \in Paths \cup {NoPath}
    /\ keygen # NoPath => file[keygen] # NoFile

ConfigOK == argv \in CommandLines /\ (InService => AgentsOK(cfg.agents))

(* The loops come in their order, and none reads past its flags. *)
LoopsOK ==
    /\ read \in [FlagLists -> Nat]
    /\ \A l \in FlagLists :
         /\ read[l] <= Len(argv[l])
         /\ read[l] # 0 => \A k \in Earlier(l) : AllRead(k)

(***************************************************************************)
(* What cfg stands for while flags are read.  The refusal of a flag, and   *)
(* the comparison with the file when all are read, follow from it.         *)
(***************************************************************************)
FlagsOK ==
    verdict = "unread" /\ argv.given = "flags" =>
      /\ LoopsOK
      /\ argv.role = "server" => ServerRead(argv, cfg, read["agents"], read)
      /\ argv.role = "agent"  => AgentRead(argv, cfg, read)

(* The running processes: what they loaded outlives the files. *)
ProcessesOK ==
    /\ server # <<>> => ClientsOK(server)
    /\ agent # AgentDown => agent \in Identities
    /\ NoPartialSecret

StartupInv ==
    FilesOK /\ ConfigOK /\ FlagsOK /\ FlagsMeanTheFile /\ ProcessesOK

(* What a process loads from a file is a secret that keygen drew, in full. *)
LEMMA LoadedIsMade ==
    ASSUME FilesOK, NEW p \in Paths, LoadSecretFile(file[p]) # NoSecret
    PROVE  LoadSecretFile(file[p]) \in {Whole(s) : s \in made}
<1>1. file[p] # NoFile
  BY DEF LoadSecretFile
<1>2. file[p] \in Files /\ file[p].secret \in made
  BY <1>1 DEF FilesOK
<1> QED BY <1>2, DecodedIsWhole

(* The clients of a server that may start, of which MultiClientTLSConfig   *)
(* checks the keys and ValidateConfig has checked the identifiers.         *)
LEMMA ClientsFromFiles ==
    ASSUME FilesOK, AgentsOK(cfg.agents),
           Loaded(Clients), IdentitiesDistinct(Clients)
    PROVE  /\ ClientsOK(Clients)
           /\ \A i \in DOMAIN Clients :
                Clients[i].secret \in {Whole(s) : s \in made}
<1>1. PICK n \in Nat : DOMAIN cfg.agents = 1..n
  BY DEF AgentsOK
<1>2. DOMAIN Clients = 1..n
  BY <1>1 DEF Clients
<1> DEFINE drawn == {Whole(s) : s \in made}
<1>3. \A i \in 1..n :
        Clients[i] = [id |-> cfg.agents[i].id,
                      secret |-> LoadSecretFile(file[cfg.agents[i].path])]
  BY <1>1 DEF Clients
<1>4. /\ \A i \in 1..n : Clients[i].id = cfg.agents[i].id
      /\ \A i \in 1..n :
           Clients[i].secret = LoadSecretFile(file[cfg.agents[i].path])
      /\ \A i \in 1..n :
           Clients[i] = [id |-> Clients[i].id, secret |-> Clients[i].secret]
  <2> DEFINE id(i) == cfg.agents[i].id
             load(i) == LoadSecretFile(file[cfg.agents[i].path])
  <2>1. \A i \in 1..n : Clients[i] = [id |-> id(i), secret |-> load(i)]
    BY <1>3
  <2> HIDE DEF id, load
  <2>2. \A i \in 1..n : Clients[i].id = id(i) /\ Clients[i].secret = load(i)
    <3> TAKE i \in 1..n
    <3>1. Clients[i] = [id |-> id(i), secret |-> load(i)]
      BY <2>1
    <3> QED BY <3>1
  <2>3. \A i \in 1..n :
          Clients[i] = [id |-> Clients[i].id, secret |-> Clients[i].secret]
    BY <2>1, <2>2
  <2> QED BY <2>2, <2>3 DEF id, load
<1>5. ASSUME NEW i \in 1..n
      PROVE  Clients[i].secret \in drawn /\ Clients[i] \in Identities
  <2>1. cfg.agents[i].id \in AgentIDs /\ cfg.agents[i].path \in Paths
    BY <1>1 DEF AgentsOK
  <2>2. Clients[i].secret # NoSecret
    BY <1>2 DEF Loaded
  <2>3. Clients[i].secret \in drawn
    BY <1>4, <2>1, <2>2, LoadedIsMade
  <2>4. drawn \subseteq {Whole(s) : s \in Secrets}
    BY DEF FilesOK
  <2> HIDE DEF drawn
  <2>5. Clients[i] = [id |-> Clients[i].id, secret |-> Clients[i].secret]
    BY <1>4
  <2>6. /\ Clients[i].id \in AgentIDs
        /\ Clients[i].secret \in {Whole(s) : s \in Secrets}
    BY <1>4, <2>1, <2>3, <2>4
  <2> QED BY <2>3, <2>5, <2>6 DEF Identities
<1>6. Clients \in [1..n -> Identities]
  BY <1>1, <1>5 DEF Clients
<1>7. Clients \in Seq(Identities)
  BY <1>6
<1>8. \A i, j \in 1..n : Clients[i].id = Clients[j].id => i = j
  BY <1>1, <1>4 DEF AgentsOK
<1> QED BY <1>2, <1>5, <1>7, <1>8 DEF ClientsOK

-----------------------------------------------------------------------------
(* Every step keeps the invariant *)

(* keygen and the operator keep every file a prefix of a drawn secret's text. *)
LEMMA FilesStep ==
    ASSUME FilesOK, [Next]_vars
    PROVE  FilesOK'
<1>1. ASSUME NEW p \in Paths, CreateFile(p)
      PROVE  FilesOK'
  <2>1. PICK s \in Secrets \ made :
          /\ made' = made \cup {s}
          /\ file' = [file EXCEPT ![p] = [secret |-> s, chars |-> 0,
                                          usable |-> TRUE]]
    BY <1>1 DEF CreateFile
  <2>2. [secret |-> s, chars |-> 0, usable |-> TRUE] \in Files \ {NoFile}
    BY SecretAssumption DEF Files, NoFile, FileChars, TextChars
  <2> QED BY <1>1, <2>1, <2>2 DEF FilesOK, CreateFile
<1>2. CASE WriteFile
  <2>1. PICK n \in 0..FileChars : file' = [file EXCEPT ![keygen].chars = n]
    BY <1>2 DEF WriteFile
  <2>2. /\ keygen \in Paths /\ file[keygen] \in Files
        /\ file[keygen].secret \in made
    BY <1>2 DEF FilesOK, WriteFile
  <2>3. /\ [file[keygen] EXCEPT !.chars = n] \in Files
        /\ [file[keygen] EXCEPT !.chars = n].secret = file[keygen].secret
    BY <2>2 DEF Files
  <2>4. file' = [file EXCEPT ![keygen] = [file[keygen] EXCEPT !.chars = n]]
    BY <2>1
  <2> QED BY <1>2, <2>2, <2>3, <2>4, StartupAssumption DEF FilesOK, WriteFile
<1>3. ASSUME NEW p \in Paths, NEW q \in Paths, CopyFile(p, q)
      PROVE  FilesOK'
  <2>1. file[p] \in Files /\ file[p].secret \in made
    BY <1>3 DEF FilesOK, CopyFile
  <2>2. PICK n \in 0..file[p].chars, u \in BOOLEAN :
          file' = [file EXCEPT ![q] = [secret |-> file[p].secret, chars |-> n,
                                       usable |-> u]]
    BY <1>3 DEF CopyFile
  <2>3. [secret |-> file[p].secret, chars |-> n, usable |-> u] \in Files
    BY <2>1, SecretAssumption DEF Files, FileChars, TextChars
  <2> QED BY <1>3, <2>1, <2>2, <2>3 DEF FilesOK, CopyFile
<1>4. ASSUME NEW p \in Paths, RemoveFile(p)
      PROVE  FilesOK'
  BY <1>4 DEF FilesOK, RemoveFile
<1>5. CASE UNCHANGED fileVars
  BY <1>5 DEF FilesOK, fileVars
<1> QED BY <1>1, <1>2, <1>3, <1>4, <1>5
        DEF Next, ReadFlag, RefuseFlag, Accept, Refuse, StartServer, StopServer,
            StartAgent, StopAgent, vars

(* A configuration that runServer accepts is never changed again. *)
LEMMA ConfigStep ==
    ASSUME ConfigOK, [Next]_vars
    PROVE  ConfigOK'
<1>1. CASE Accept
  BY <1>1, DeployedConfig, DeployedAssumption
     DEF Accept, ConfigOK, InService, Configs
<1>2. CASE argv' = argv /\ verdict' # "ok"
  BY <1>2 DEF ConfigOK, InService
<1>3. CASE UNCHANGED configVars
  BY <1>3 DEF ConfigOK, InService, configVars
<1> QED BY <1>1, <1>2, <1>3
        DEF Next, ReadFlag, Reading, RefuseFlag, Refuse, CreateFile, WriteFile,
            CopyFile, RemoveFile, StartServer, StopServer, StartAgent, StopAgent,
            vars

(* A loop reads its next flag, the earlier loops having ended. *)
LEMMA LoopsStep ==
    ASSUME LoopsOK, NEW l \in FlagLists, ReadFlag(l), argv \in CommandLines
    PROVE  LoopsOK'
<1>1. /\ argv' = argv /\ read' = [read EXCEPT ![l] = @ + 1]
      /\ read[l] # Len(argv[l]) /\ \A k \in Earlier(l) : read[k] = Len(argv[k])
  BY DEF ReadFlag, Reading, AllRead
<1>2. \A k \in FlagLists : Earlier(k) \subseteq FlagLists \ {k}
  BY DEF Earlier, FlagLists, Directions
<1>3. \A k \in FlagLists : Len(argv[k]) \in Nat
  BY FlagTypes, EntriesFinite DEF FlagLists
<1>4. read' \in [FlagLists -> Nat]
  BY <1>1 DEF LoopsOK
<1>5. ASSUME NEW k \in FlagLists
      PROVE  /\ read'[k] <= Len(argv[k])
             /\ read'[k] # 0 => \A j \in Earlier(k) : read'[j] = Len(argv[j])
  <2>1. /\ read \in [FlagLists -> Nat]
        /\ read[k] <= Len(argv[k])
        /\ read[k] # 0 => \A j \in Earlier(k) : read[j] = Len(argv[j])
    BY DEF LoopsOK, AllRead
  <2>2. CASE k = l
    BY <1>1, <1>2, <1>3, <2>1, <2>2
  <2>3. CASE k # l
    BY <1>1, <1>2, <1>3, <2>1, <2>3
  <2> QED BY <2>2, <2>3
<1> QED BY <1>1, <1>4, <1>5 DEF LoopsOK, AllRead

(* What is known of the loop that reads its next flag. *)
LEMMA InLoop ==
    ASSUME FlagsOK, ConfigOK, NEW l \in FlagLists, Reading(l)
    PROVE  /\ LoopsOK /\ argv \in CommandLines
           /\ argv.role \in {"server", "agent"}
           /\ read[l] \in Nat /\ read[l] < Len(argv[l])
           /\ l = "agents" =>
                argv.role = "server" /\ \A d \in Directions : read[d] = 0
           /\ l # "agents" => l \in Directions /\ read["agents"] = Len(argv.agents)
<1>1. LoopsOK /\ argv \in CommandLines
  BY DEF FlagsOK, ConfigOK, Reading
<1>2. Len(argv[l]) \in Nat
  BY <1>1, FlagTypes, EntriesFinite DEF FlagLists
<1>3. read[l] \in Nat /\ read[l] < Len(argv[l])
  BY <1>1, <1>2 DEF LoopsOK, Reading, AllRead
<1>4. /\ argv.role \in {"server", "agent"}
      /\ argv.role = "agent" => argv.agents = <<>>
  BY <1>1, CommandLineAssumption
<1>5. ASSUME l = "agents"
      PROVE  argv.role = "server" /\ \A d \in Directions : read[d] = 0
  <2>1. argv.role = "server"
    BY <1>3, <1>4, <1>5
  <2>2. \A d \in Directions : d \in FlagLists /\ "agents" \in Earlier(d)
    BY DEF FlagLists, Directions, Earlier
  <2> QED BY <1>1, <1>5, <2>1, <2>2 DEF LoopsOK, Reading
<1>6. ASSUME l # "agents"
      PROVE  l \in Directions /\ read["agents"] = Len(argv.agents)
  BY <1>6 DEF FlagLists, Directions, Earlier, Reading, AllRead
<1> QED BY <1>1, <1>3, <1>4, <1>5, <1>6

(* The loops of runServer and runAgent keep what cfg stands for. *)
LEMMA ReadFlagKeeps ==
    ASSUME FlagsOK, ConfigOK, NEW l \in FlagLists, ReadFlag(l)
    PROVE  FlagsOK'
<1>1. Reading(l) /\ cfg' \in WithNext(l)
  BY DEF ReadFlag
<1>2. /\ argv' = argv /\ verdict' = verdict
      /\ read' = [read EXCEPT ![l] = @ + 1]
  BY DEF ReadFlag
<1>3. /\ LoopsOK /\ argv \in CommandLines /\ argv.role \in {"server", "agent"}
      /\ read[l] \in Nat /\ read[l] < Len(argv[l])
      /\ l = "agents" =>
           argv.role = "server" /\ \A d \in Directions : read[d] = 0
      /\ l # "agents" => l \in Directions /\ read["agents"] = Len(argv.agents)
  BY <1>1, InLoop
<1>4. LoopsOK'
  BY <1>3, LoopsStep
<1>5. verdict = "unread" /\ argv.given = "flags" /\ read \in [FlagLists -> Nat]
  BY <1>1, <1>3 DEF Reading, LoopsOK
<1>6. CASE l = "agents"
  <2>1. ServerRead(argv, cfg, read["agents"], read)
    BY <1>3, <1>5, <1>6 DEF FlagsOK
  <2>2. cfg' \in parseAgent(cfg, argv.agents[read["agents"] + 1])
    BY <1>1, <1>6 DEF WithNext
  <2>3. ServerRead(argv, cfg', read["agents"] + 1, read)
    BY <1>3, <1>6, <2>1, <2>2, AgentStep
  <2>4. /\ read'["agents"] = read["agents"] + 1
        /\ \A d \in Directions : read'[d] = read[d]
    BY <1>2, <1>5, <1>6 DEF FlagLists, Directions
  <2>5. ServerRead(argv, cfg', read'["agents"], read')
    BY <2>3, <2>4 DEF ServerRead
  <2> QED BY <1>2, <1>3, <1>4, <1>6, <2>5 DEF FlagsOK
<1>7. CASE l # "agents" /\ argv.role = "server"
  <2>1. ServerRead(argv, cfg, Len(argv.agents), read)
    BY <1>3, <1>5, <1>7 DEF FlagsOK
  <2>2. cfg' \in addServerMapping(cfg, argv[l][read[l] + 1], l)
    BY <1>1, <1>7 DEF WithNext
  <2>3. ServerRead(argv, cfg', Len(argv.agents), read')
    BY <1>2, <1>3, <1>5, <1>7, <2>1, <2>2, ServerFlagStep
  <2>4. read'["agents"] = Len(argv.agents)
    BY <1>2, <1>3, <1>5, <1>7 DEF FlagLists
  <2> QED BY <1>2, <1>4, <1>7, <2>3, <2>4 DEF FlagsOK
<1>8. CASE l # "agents" /\ argv.role = "agent"
  <2>1. AgentRead(argv, cfg, read)
    BY <1>5, <1>8 DEF FlagsOK
  <2>2. cfg' \in addAgentMapping(cfg, argv[l][read[l] + 1], l)
    BY <1>1, <1>8 DEF WithNext
  <2>3. AgentRead(argv, cfg', read')
    BY <1>2, <1>3, <1>5, <1>8, <2>1, <2>2, AgentFlagStep
  <2> QED BY <1>2, <1>4, <1>8, <2>3 DEF FlagsOK
<1> QED BY <1>3, <1>6, <1>7, <1>8

(* A flag is refused only if the file with the same contents is. *)
LEMMA RefuseFlagKeeps ==
    ASSUME FlagsOK, ConfigOK, NEW l \in FlagLists, RefuseFlag(l)
    PROVE  FileConfigs(argv) = {}
<1>1. Reading(l) /\ WithNext(l) = {}
  BY DEF RefuseFlag
<1>2. /\ LoopsOK /\ argv \in CommandLines /\ argv.role \in {"server", "agent"}
      /\ read[l] \in Nat /\ read[l] < Len(argv[l])
      /\ l = "agents" =>
           argv.role = "server" /\ \A d \in Directions : read[d] = 0
      /\ l # "agents" => l \in Directions /\ read["agents"] = Len(argv.agents)
  BY <1>1, InLoop
<1>3. verdict = "unread" /\ argv.given = "flags" /\ read \in [FlagLists -> Nat]
  BY <1>1, <1>2 DEF Reading, LoopsOK
<1>4. CASE l = "agents"
  <2>1. argv.agents[read["agents"] + 1].id \notin AgentIDs
    BY <1>1, <1>4 DEF WithNext, parseAgent
  <2>2. read["agents"] + 1 \in DOMAIN argv.agents
    BY <1>2, <1>4, EntriesFinite
  <2> QED BY <1>2, <1>4, <2>1, <2>2, FileAgents
<1>5. CASE l # "agents" /\ argv.role = "server"
  <2>1. ServerRead(argv, cfg, Len(argv.agents), read)
    BY <1>2, <1>3, <1>5 DEF FlagsOK
  <2>2. addServerMapping(cfg, argv[l][read[l] + 1], l) = {}
    BY <1>1, <1>5 DEF WithNext
  <2> QED BY <1>2, <1>3, <1>5, <2>1, <2>2, ServerFlagRefused
<1>6. CASE l # "agents" /\ argv.role = "agent"
  <2>1. AgentRead(argv, cfg, read)
    BY <1>3, <1>6 DEF FlagsOK
  <2>2. addAgentMapping(cfg, argv[l][read[l] + 1], l) = {}
    BY <1>1, <1>6 DEF WithNext
  <2> QED BY <1>2, <1>3, <1>6, <2>1, <2>2, AgentFlagRefused
<1> QED BY <1>2, <1>4, <1>5, <1>6

(* ApplyDefaults and ValidateConfig, once every flag has been read. *)
LEMMA CompleteFlags ==
    ASSUME FlagsOK, ConfigOK, Complete, argv.given = "flags"
    PROVE  /\ Configs \subseteq FileConfigs(argv)
           /\ Configs = {} => FileConfigs(argv) = {}
<1>1. /\ argv \in CommandLines /\ argv.role \in {"server", "agent"}
      /\ read["agents"] = Len(argv.agents)
      /\ \A d \in Directions : read[d] = Len(argv[d])
  BY CommandLineAssumption DEF ConfigOK, Complete, AllRead, FlagLists
<1>2. Configs = {c \in {ApplyDefaults(cfg)} : ValidateConfig(argv.role, c)}
  BY DEF Configs
<1>3. CASE argv.role = "server"
  <2>1. ServerRead(argv, cfg, Len(argv.agents), read)
    BY <1>1, <1>3 DEF FlagsOK, Complete
  <2>2. /\ serverValidateConfig(ApplyDefaults(cfg)) =>
             ApplyDefaults(cfg) \in FileConfigs(argv)
        /\ FileConfigs(argv) # {} => serverValidateConfig(ApplyDefaults(cfg))
    BY <1>1, <1>3, <2>1, ServerAllRead
  <2> QED BY <1>2, <1>3, <2>2 DEF ValidateConfig
<1>4. CASE argv.role = "agent"
  <2>1. AgentRead(argv, cfg, read)
    BY <1>4 DEF FlagsOK, Complete
  <2>2. FileConfigs(argv)
          = {own \in {ApplyDefaults(cfg)} : agentValidateConfig(own)}
    BY <1>1, <1>4, <2>1, AgentAllRead
  <2> QED BY <1>2, <1>4, <2>2 DEF ValidateConfig
<1> QED BY <1>1, <1>3, <1>4

(* Every step keeps the flags in line with the file. *)
LEMMA FlagsStep ==
    ASSUME FlagsOK, FlagsMeanTheFile, ConfigOK, [Next]_vars
    PROVE  FlagsOK' /\ FlagsMeanTheFile'
<1>1. ASSUME NEW l \in FlagLists, ReadFlag(l)
      PROVE  FlagsOK' /\ FlagsMeanTheFile'
  BY <1>1, ReadFlagKeeps DEF ReadFlag, Reading, FlagsMeanTheFile
<1>2. ASSUME NEW l \in FlagLists, RefuseFlag(l)
      PROVE  FlagsOK' /\ FlagsMeanTheFile'
  BY <1>2, RefuseFlagKeeps DEF RefuseFlag, FlagsOK, FlagsMeanTheFile
<1>3. CASE Accept
  BY <1>3, CompleteFlags DEF Accept, FlagsOK, FlagsMeanTheFile
<1>4. CASE Refuse
  BY <1>4, CompleteFlags DEF Refuse, FlagsOK, FlagsMeanTheFile
<1>5. CASE UNCHANGED configVars
  BY <1>5 DEF configVars, FlagsOK, LoopsOK, AllRead, FlagsMeanTheFile
<1> QED BY <1>1, <1>2, <1>3, <1>4, <1>5
        DEF Next, CreateFile, WriteFile, CopyFile, RemoveFile, StartServer,
            StopServer, StartAgent, StopAgent, vars

(***************************************************************************)
(* Run of the server and of the agent load secrets once, when they start;  *)
(* no later step changes what they loaded or takes back a drawn secret.    *)
(***************************************************************************)
LEMMA ProcessesStep ==
    ASSUME StartupInv, [Next]_vars
    PROVE  ProcessesOK'
<1> USE DEF StartupInv
<1>1. \A s \in {Whole(t) : t \in made} : s \in {Whole(t) : t \in made}'
  <2>1. made \subseteq made'
    BY DEF Next, CreateFile, WriteFile, CopyFile, RemoveFile, ReadFlag,
           RefuseFlag, Accept, Refuse, StartServer, StopServer, StartAgent,
           StopAgent, vars, fileVars
  <2> QED BY <2>1
<1>2. ASSUME server' = server
      PROVE  /\ server' # <<>> => ClientsOK(server')
             /\ \A i \in DOMAIN server' :
                  server'[i].secret \in {Whole(s) : s \in made'}
  BY <1>1, <1>2 DEF ProcessesOK, NoPartialSecret
<1>3. ASSUME agent' = agent
      PROVE  agent' # AgentDown => /\ agent' \in Identities
                                   /\ agent'.secret \in {Whole(s) : s \in made'}
  BY <1>1, <1>3 DEF ProcessesOK, NoPartialSecret
<1>4. CASE StartServer
  <2>1. ClientsOK(server') /\ \A i \in DOMAIN server' :
                                server'[i].secret \in {Whole(s) : s \in made}
    BY <1>4, ClientsFromFiles DEF StartServer, ConfigOK
  <2>2. agent' = agent
    BY <1>4 DEF StartServer
  <2> QED BY <1>1, <1>3, <2>1, <2>2 DEF ProcessesOK, NoPartialSecret
<1>5. ASSUME NEW id \in AgentIDs, StartAgent(id)
      PROVE  ProcessesOK'
  <2>1. LoadSecretFile(file[AgentPath]) \in {Whole(s) : s \in made}
    BY <1>5, LoadedIsMade, StartupAssumption DEF StartAgent
  <2>2. /\ agent' = [id |-> id, secret |-> LoadSecretFile(file[AgentPath])]
        /\ server' = server
    BY <1>5 DEF StartAgent
  <2>3. LoadSecretFile(file[AgentPath]) \in {Whole(s) : s \in Secrets}
    BY <2>1 DEF FilesOK
  <2>4. agent' \in Identities /\ agent'.secret = LoadSecretFile(file[AgentPath])
    BY <2>2, <2>3 DEF Identities
  <2> QED BY <1>1, <1>2, <2>1, <2>2, <2>4 DEF ProcessesOK, NoPartialSecret
<1>6. CASE StopServer
  <2>1. server' = <<>> /\ agent' = agent
    BY <1>6 DEF StopServer
  <2> QED BY <1>3, <2>1 DEF ProcessesOK, NoPartialSecret
<1>7. CASE StopAgent
  <2>1. server' = server /\ agent' = AgentDown
    BY <1>7 DEF StopAgent
  <2> QED BY <1>2, <2>1 DEF ProcessesOK, NoPartialSecret
<1>8. CASE UNCHANGED procVars
  <2>1. server' = server /\ agent' = agent
    BY <1>8 DEF procVars
  <2> QED BY <1>2, <1>3, <2>1 DEF ProcessesOK, NoPartialSecret
<1> QED BY <1>4, <1>5, <1>6, <1>7, <1>8
        DEF Next, CreateFile, WriteFile, CopyFile, RemoveFile, ReadFlag,
            RefuseFlag, Accept, Refuse, vars

(* cfg before the loops. *)
LEMMA InitialFlags == Init => FlagsOK
<1> SUFFICES ASSUME Init PROVE FlagsOK
  OBVIOUS
<1>1. /\ argv \in CommandLines /\ cfg = NoFlags(argv)
      /\ read = [l \in FlagLists |-> 0]
  BY DEF Init
<1>2. /\ read \in [FlagLists -> Nat] /\ read["agents"] = 0
      /\ \A l \in FlagLists : read[l] = 0
      /\ \A d \in Directions : read[d] = 0
  BY <1>1 DEF FlagLists
<1>3. \A l \in FlagLists : Len(argv[l]) \in Nat
  BY <1>1, FlagTypes, EntriesFinite DEF FlagLists
<1>4. LoopsOK
  BY <1>2, <1>3 DEF LoopsOK
<1>5. \A d \in Directions : NoRepeat(argv, d, 0)
  BY DEF NoRepeat
<1>6. ASSUME argv.role = "server"
      PROVE  ServerRead(argv, cfg, 0, read)
  <2>1. cfg = [agents |-> <<>>, limit |-> argv.limit]
    BY <1>1, <1>6 DEF NoFlags
  <2>2. cfg.agents = <<>> /\ <<>> \in Seq(Entries) /\ Len(<<>>) = 0
    BY <2>1
  <2> QED BY <1>2, <1>5, <2>1, <2>2 DEF ServerRead
<1>7. ASSUME argv.role = "agent"
      PROVE  AgentRead(argv, cfg, read)
  <2>1. cfg = [id |-> argv.id, forward |-> NoServices, reverse |-> NoServices,
               limit |-> argv.limit]
    BY <1>1, <1>7 DEF NoFlags
  <2>2. \A d \in Directions : cfg[d] = NoServices
    BY <2>1 DEF Directions
  <2>3. \A d \in Directions : Holds(NoServices, argv, d, 0, NoID)
    BY HoldsNone
  <2>4. cfg \in [id : {argv.id}, limit : {argv.limit},
                 forward : ServiceMaps, reverse : ServiceMaps]
    BY <2>1, HoldsNone
  <2> QED BY <1>2, <1>5, <2>2, <2>3, <2>4 DEF AgentRead
<1> QED BY <1>2, <1>4, <1>6, <1>7 DEF FlagsOK

(* The invariant holds throughout, from the empty disk on. *)
LEMMA StartupAlways == Spec => []StartupInv
<1>1. Init => StartupInv
  <2> SUFFICES ASSUME Init PROVE StartupInv
    OBVIOUS
  <2>1. FilesOK
    BY DEF Init, FilesOK
  <2>2. ConfigOK
    BY DEF Init, ConfigOK, InService
  <2>4. FlagsOK
    BY InitialFlags
  <2>5. FlagsMeanTheFile
    BY DEF Init, FlagsMeanTheFile
  <2>3. ProcessesOK
    BY DEF Init, ProcessesOK, NoPartialSecret
  <2> QED BY <2>1, <2>2, <2>3, <2>4, <2>5 DEF StartupInv
<1>2. StartupInv /\ [Next]_vars => StartupInv'
  BY FilesStep, ConfigStep, FlagsStep, ProcessesStep DEF StartupInv
<1> QED BY <1>1, <1>2, PTL DEF Spec

-----------------------------------------------------------------------------
(* The theorems *)

(***************************************************************************)
(* LoadSecretFile never gives a process part of a secret or other bytes    *)
(* that part of its text stands for: wherever writes and copies were cut   *)
(* off, and whatever was replaced since it started, a process runs with a  *)
(* secret that keygen drew, in full.                                       *)
(***************************************************************************)
THEOREM SecretsAreWhole == Spec => []NoPartialSecret
<1>1. StartupInv => NoPartialSecret
  BY DEF StartupInv, ProcessesOK
<1> QED BY <1>1, StartupAlways, PTL

(***************************************************************************)
(* Flags mean what the file with the same contents means: runServer and    *)
(* runAgent refuse the flags exactly when LoadConfig refuses the file, and *)
(* otherwise give every agent the same secret file, services and limits,   *)
(* for every command line, however long and in whatever order its flags    *)
(* come.                                                                   *)
(***************************************************************************)
THEOREM FlagsAreTheFile == Spec => []FlagsMeanTheFile
<1>1. StartupInv => FlagsMeanTheFile
  BY DEF StartupInv
<1> QED BY <1>1, StartupAlways, PTL

(***************************************************************************)
(* The handshake of tls.go admits a client exactly when the server loaded  *)
(* the client's secret for the identifier that it dials as, and gives it   *)
(* that identifier, for every deployed configuration and every history of  *)
(* its files.                                                              *)
(***************************************************************************)
THEOREM OnlyKnownAgentsGetIn == Spec => []Authenticates
<1>1. StartupInv => Authenticates
  BY AdmitsExactlyKnown DEF StartupInv, ProcessesOK, Authenticates, Dialling
<1> QED BY <1>1, StartupAlways, PTL
=============================================================================
