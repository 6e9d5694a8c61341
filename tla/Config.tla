------------------------------- MODULE Config -------------------------------
(***************************************************************************)
(* Reading a scenario file: the parser's calls of add_arg() and            *)
(* process_command() (netsim/Config.cpp, dtp/app_config.cpp, parser.y),    *)
(* and the objects that the commands construct.                            *)
(*                                                                         *)
(* A step is one command of the file; the lexer has thrown away comments   *)
(* and unexpected characters.  yyparse() stops at the first syntax error   *)
(* and parse() does not look at its result: the simulation begins with     *)
(* what was read up to there.  Objects are numbered in the order of their  *)
(* construction.                                                           *)
(*                                                                         *)
(* An argument slot is a union of a number and a pointer, and holds        *)
(* whatever the memory held until a line writes it.  A number read as a    *)
(* file name is a pointer to nowhere, a Host member taken from a node that *)
(* is missing or not a Host is anything: both are "undefined".  A file     *)
(* name read as a time or a size is some number, for which the name itself *)
(* stands; that an address is given as a name is left out.                 *)
(***************************************************************************)
EXTENDS Integers, Sequences, FiniteSets

CONSTANTS FileNames,     \* quoted strings; all other arguments are numbers
          Lines,         \* the commands a file may contain: [id, args]
          Memories,      \* what the argument slots may hold before the first line
          AddressLimit,  \* values of an Address: 2^16, an unsigned short
          MaxLines       \* bound: commands in the file

CONFIG_MAX_ARGS == 20
MAX_QUEUE == 99999

ASSUME LinesAssumption ==
    \A l \in Lines : /\ l.args \in Seq(Int \cup FileNames) /\ Len(l.args) =< CONFIG_MAX_ARGS
                     /\ \A j \in {1, 2} \cap DOMAIN l.args : l.args[j] \in Int
ASSUME MemoriesAssumption == Memories \subseteq [1..4 -> Int]
ASSUME AddressAssumption == AddressLimit \in Nat \ {0}
ASSUME MaxLinesAssumption == MaxLines \in Nat

VARIABLES phase,         \* "read", "run", "fatal" or "undefined"
          config_args,   \* [1..4 -> argument]: the slots that commands read
          config_argnum,
          objects,       \* the nodes constructed: sequence of [class, address, size]
          node_map,      \* [addresses registered -> index in objects]
          links,         \* the calls of add_link()
          flows,         \* the calls of insert_p(): [source, destination, start, file]; ends are objects
          complaints,    \* lines that printed an error and went on
          file,          \* history: the commands read
          memory         \* history: config_args before the first of them

vars == <<phase, config_args, config_argnum, objects, node_map, links, flows, complaints, file, memory>>

Arity == [Link |-> 4, FIFONode |-> 2, Router |-> 2, Host |-> 1, FDTPFlow |-> 4]

---------------------------------------------------------------------------
Address_OfAnyWidth(n) == n

\* A number is cast to Address.
Address(n) == n % AddressLimit

\* add_arg(), once for each argument: slots beyond the last keep what an
\* earlier command left.
AddArgs(args) ==
    [j \in 1..4 |-> IF j \in config_argnum+1 .. config_argnum + Len(args)
                    THEN args[j - config_argnum] ELSE config_args[j]]

Register_Last(a, n) == [x \in DOMAIN node_map \cup {a} |-> IF x = a THEN n ELSE node_map[x]]

\* register_to_receive(): std::map::insert keeps the first node of an address.
Register(a, n) == [x \in DOMAIN node_map \cup {a} |-> IF x \in DOMAIN node_map THEN node_map[x] ELSE n]

Construct(class, a, size) ==
    /\ objects' = Append(objects, [class |-> class, address |-> Address(a), size |-> size])
    /\ node_map' = Register(Address(a), Len(objects) + 1)

IsHost(a) == a \in DOMAIN node_map /\ objects[node_map[a]].class = "Host"

Given == config_argnum + Len(file'[Len(file')].args)

Line_ForgetsToReset(id) ==
    /\ phase = "read" /\ Len(file) < MaxLines
    /\ \E l \in Lines : l.id = id /\ file' = Append(file, l) /\ config_args' = AddArgs(l.args)
    /\ config_argnum' = IF id \in DOMAIN Arity THEN 0 ELSE Given
    /\ UNCHANGED memory

\* The arguments of a line are stored and counted, used, and forgotten.
Line(id) ==
    /\ phase = "read" /\ Len(file) < MaxLines
    /\ \E l \in Lines : l.id = id /\ file' = Append(file, l) /\ config_args' = AddArgs(l.args)
    /\ config_argnum' = 0
    /\ UNCHANGED memory

\* A wrong number of arguments is reported, and the command carried out.
Complain(id) ==
    complaints' = IF Given = Arity[id] THEN complaints ELSE complaints \cup {Len(file')}

Link == /\ Line("Link") /\ Complain("Link")
        /\ links' = Append(links, <<Address(config_args'[1]), Address(config_args'[2]),
                                   config_args'[3], config_args'[4]>>)
        /\ UNCHANGED <<phase, objects, node_map, flows>>

FIFONode == /\ Line("FIFONode") /\ Complain("FIFONode")
            /\ Construct("FIFONode", config_args'[1], config_args'[2])
            /\ UNCHANGED <<phase, links, flows>>

Router == /\ Line("Router") /\ Given = Arity["Router"]
          /\ Construct("Router", config_args'[1], config_args'[2])
          /\ UNCHANGED <<phase, links, flows, complaints>>

Host == /\ Line("Host") /\ Given = Arity["Host"]
        /\ Construct("Host", config_args'[1], MAX_QUEUE)
        /\ UNCHANGED <<phase, links, flows, complaints>>

\* FDTPFlow() finds both hosts, and copies the file name.
FDTPFlow ==
    /\ Line("FDTPFlow") /\ Given = Arity["FDTPFlow"]
    /\ IF IsHost(Address(config_args'[1])) /\ IsHost(Address(config_args'[2])) /\ config_args'[4] \in FileNames
       THEN /\ flows' = Append(flows, [source |-> node_map[Address(config_args'[1])],
                                       destination |-> node_map[Address(config_args'[2])],
                                       start |-> config_args'[3], file |-> config_args'[4]])
            /\ UNCHANGED phase
       ELSE phase' = "undefined" /\ UNCHANGED flows
    /\ UNCHANGED <<objects, node_map, links, complaints>>

\* FATAL: the commands of dtp insist on the number of their arguments.
Fatal == /\ \E id \in {"Router", "Host", "FDTPFlow"} : Line(id) /\ Given # Arity[id]
         /\ phase' = "fatal"
         /\ UNCHANGED <<objects, node_map, links, flows, complaints>>

Unknown == /\ \E l \in Lines : l.id \notin DOMAIN Arity /\ Line(l.id)
           /\ UNCHANGED <<phase, objects, node_map, links, flows, complaints>>

\* The end of the file, or the first syntax error.
Stop == /\ phase = "read" /\ phase' = "run"
        /\ UNCHANGED <<config_args, config_argnum, objects, node_map, links, flows, complaints, file, memory>>

Init == /\ phase = "read"
        /\ memory \in Memories /\ config_args = memory /\ config_argnum = 0
        /\ objects = <<>> /\ node_map = <<>> /\ links = <<>> /\ flows = <<>>
        /\ complaints = {} /\ file = <<>>

Next == Link \/ FIFONode \/ Router \/ Host \/ FDTPFlow \/ Fatal \/ Unknown \/ Stop

Spec == Init /\ [][Next]_vars

---------------------------------------------------------------------------
(* Properties.                                                             *)

\* The types.  Reading a command leaves no argument behind.
TypeOK ==
    /\ phase \in {"read", "run", "fatal", "undefined"}
    /\ memory \in Memories
    /\ config_argnum = 0
    /\ \A j \in 1..4 : config_args[j] \in Int \cup FileNames
    /\ \A n \in DOMAIN objects : /\ objects[n].class \in {"FIFONode", "Router", "Host"}
                                 /\ objects[n].address \in 0 .. AddressLimit-1
    /\ \A a \in DOMAIN node_map : node_map[a] \in DOMAIN objects
    /\ \A k \in DOMAIN links : links[k][1] \in 0 .. AddressLimit-1 /\ links[k][2] \in 0 .. AddressLimit-1
    /\ \A k \in DOMAIN flows : flows[k].source \in DOMAIN objects /\ flows[k].destination \in DOMAIN objects
    /\ complaints \subseteq DOMAIN file

\* A flow is attached to the Host object that also receives the packets for
\* its address, whatever further nodes the file declares with that address:
\* the object it was attached to is the one node_map still names.
FlowsMeetTheirPackets ==
    \A k \in DOMAIN flows :
        /\ node_map[objects[flows[k].source].address] = flows[k].source
        /\ node_map[objects[flows[k].destination].address] = flows[k].destination

\* What the file says: the argument in place j of line k or, if the line is
\* too short for one, of the nearest line before it that has one, whatever its
\* command; before all of them it is what the memory held.
Writers(k, j) == {i \in 1..k : j =< Len(file[i].args)}
Nearest(S)    == CHOOSE i \in S : \A m \in S : m =< i
Says(k, j)    == IF Writers(k, j) = {} THEN memory[j] ELSE file[Nearest(Writers(k, j))].args[j]

\* The lines that add a link, construct a node, or set up a flow, and which of
\* such lines line k is.
LinkLines == {k \in DOMAIN file : file[k].id = "Link"}
NodeLines == {k \in DOMAIN file : \/ file[k].id = "FIFONode"
                                  \/ file[k].id \in {"Router", "Host"} /\ Len(file[k].args) = Arity[file[k].id]}
FlowLines == {k \in DOMAIN file : file[k].id = "FDTPFlow" /\ Len(file[k].args) = 4}
Place(S, k) == Cardinality({j \in S : j =< k})

\* The first node with address a is a Host.
HostAt(a) == \E n \in DOMAIN objects : /\ objects[n].address = a /\ objects[n].class = "Host"
                                       /\ \A m \in 1 .. n-1 : objects[m].address # a

\* A line for a flow can be carried out: it names a file, and two hosts
\* declared before it.
Sound(l) == l.args[4] \in FileNames /\ HostAt(Address(l.args[1])) /\ HostAt(Address(l.args[2]))

\* The last line is for a flow, and cannot be carried out; the lines for flows that were.
Stuck   == Len(file) \in FlowLines /\ ~Sound(file[Len(file)])
Carried == IF Stuck THEN FlowLines \ {Len(file)} ELSE FlowLines

\* A Link line too short or too long adds the link that its own arguments
\* give, completed by those of earlier lines in the same places, and no other.
LinksAsWritten ==
    /\ Len(links) = Cardinality(LinkLines)
    /\ \A k \in LinkLines :
        links[Place(LinkLines, k)] = <<Address(Says(k, 1)), Address(Says(k, 2)), Says(k, 3), Says(k, 4)>>

\* So do the lines that declare a node; only a FIFONode line may be short.
NodesAsWritten ==
    /\ Len(objects) = Cardinality(NodeLines)
    /\ \A k \in NodeLines :
        objects[Place(NodeLines, k)] = [class |-> file[k].id, address |-> Address(Says(k, 1)),
                                        size |-> IF file[k].id = "Host" THEN MAX_QUEUE ELSE Says(k, 2)]

\* The behaviour of the program is undefined exactly from a line for a flow on
\* that gives a number for the file name or an address whose first node is
\* missing or no Host.  Every other such line gives its own flow.
FlowsAsWritten ==
    /\ phase = "undefined" <=> Stuck
    /\ Len(flows) = Cardinality(Carried)
    /\ \A k \in Carried :
        LET f == flows[Place(Carried, k)]
            l == file[k].args
        IN  /\ objects[f.source].address = Address(l[1]) /\ objects[f.destination].address = Address(l[2])
            /\ f.start = l[3] /\ f.file = l[4] /\ f.file \in FileNames

\* What is built is what the file says, line by line, and where a line does not
\* say enough, which part of the file, or of the memory, it is built of
\* instead: slots are not cleared between commands and carry no tag.
BuiltAsWritten == LinksAsWritten /\ NodesAsWritten /\ FlowsAsWritten
=============================================================================
