\* A room that three humans and two bots come to and leave.
SPECIFICATION Spec
CONSTANTS
    Human = {h1, h2, h3}
    Bot = {b1, b2}
    NoHost = NoHost
INVARIANTS
    TypeOK
    SeatedOnce
    HostIsSeatedHuman
    MarksBelongToSeated
PROPERTY
    HostPassesToSenior
