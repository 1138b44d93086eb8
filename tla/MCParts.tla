------------------------------- MODULE MCParts -------------------------------
(***************************************************************************)
(* The parts of the SDK that share no state with one another, checked in   *)
(* one run: a behaviour of MCParts is a behaviour of one part, chosen      *)
(* initially, while the others keep an initial state.                      *)
(***************************************************************************)
EXTENDS DataAccess, RestClient, Delivery, Container, Telemetry, SqlSpan

CONSTANTS alpha, beta, gamma, starter, typeT, typeU

VARIABLE part

partsVars == <<dataVars, restVars, deliveryVars, containerVars, telemetryVars, spanVars, part>>

MCParamLists == {<<>>, <<typeT>>, <<typeT, typeU>>}
MCLists == {<<alpha, beta, gamma>>, <<beta, beta>>, <<gamma>>}

\* Two types, one of them an interface the other may implement; tags that name nothing, one
\* bean or two, the same in every struct or others in that of the start function.
MCProvides ==
    {p \in [Constructors -> {{typeT}, {typeU}, {typeT, typeU}}] :
        typeT \in p[alpha] /\ p[gamma] # {typeT, typeU}}
MCTags ==
    {[f \in Funcs |-> IF f = starter THEN s ELSE c] :
        s \in {{beta}, {beta, gamma}}, c \in {{beta}, {gamma}}} \cup {[f \in Funcs |-> {}]}

\* One initial state of each part that is not the one under check; and one constructor
\* without parameters in every application.
PartsInit ==
    /\ part \in {"data", "rest", "delivery", "container", "telemetry", "span"}
    /\ part # "data" => kind = "one"
    /\ part # "delivery" => provider = "sqs"
    /\ IF part = "container" THEN provides \in MCProvides /\ tags \in MCTags
       ELSE /\ provides = [k \in Constructors |-> {typeT}] /\ tags = [f \in Funcs |-> {}]
            /\ needs = [f \in Funcs |-> <<>>] /\ variadic = {}
    /\ part # "span" => statement = CHOOSE s \in Statements : TRUE
    /\ DataInit /\ RestInit /\ DeliveryInit /\ ContainerInit /\ TelemetryInit /\ SpanInit
    /\ part = "container" => needs[gamma] = <<>>

Rest(others) == UNCHANGED <<part, others>>

PartsNext ==
    \/ part = "data" /\ DataNext
       /\ Rest(<<restVars, deliveryVars, containerVars, telemetryVars, spanVars>>)
    \/ part = "rest" /\ RestNext
       /\ Rest(<<dataVars, deliveryVars, containerVars, telemetryVars, spanVars>>)
    \/ part = "delivery" /\ DeliveryNext
       /\ Rest(<<dataVars, restVars, containerVars, telemetryVars, spanVars>>)
    \/ part = "container" /\ ContainerNext
       /\ Rest(<<dataVars, restVars, deliveryVars, telemetryVars, spanVars>>)
    \/ part = "telemetry" /\ TelemetryNext
       /\ Rest(<<dataVars, restVars, deliveryVars, containerVars, spanVars>>)
    \/ part = "span" /\ SpanNext
       /\ Rest(<<dataVars, restVars, deliveryVars, containerVars, telemetryVars>>)

PartsSpec == PartsInit /\ [][PartsNext]_partsVars

\* Every variable of every part has its type.
PartsTypeOK ==
    DataTypeOK /\ RestTypeOK /\ DeliveryTypeOK /\ ContainerTypeOK /\ TelemetryTypeOK /\ SpanTypeOK

=============================================================================
