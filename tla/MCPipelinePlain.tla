--------------------------- MODULE MCPipelinePlain ---------------------------
\* Instances of RV5SVM and RV5SStallVM for TLC.
EXTENDS PipelinePlainProperties, MCPrograms

\* All texts of up to four instructions with data hazards and of up to three
\* with control flow; longer ones that begin with a producer and one or two
\* instructions that do not depend on it, so that some are scheduled for RV5SVM
\* and others miss it by one instruction.
Producers == {I("addi", 1, 0, 0, 2), I("load", 1, 2, 0, 2),
              I("auipc", 1, 0, 0, 4)}
Consumers == {I("add", 2, 1, 1, 0), I("store", 0, 2, 1, 1),
              I("load", 2, 1, 0, 1), I("addi", 1, 1, 0, 1)}
Others    == {I("nop", 0, 0, 0, 0), I("addi", 3, 0, 0, 1)}
Spaced == {<<p, n, c>> : p \in Producers, n \in Others, c \in Consumers}
          \cup {<<p, n, m, c, d>> : p \in Producers, n, m \in Others,
                                   c, d \in Consumers}
PlainPrograms ==
    ProgramsOf(TextsUpTo(3, ControlInstrs) \cup TextsUpTo(4, DataInstrs)
                   \cup Spaced,
               <<1, 2, 9>>)
NoPrediction == {Mode(FALSE, "STATIC_NOT_TAKEN")}
==============================================================================
