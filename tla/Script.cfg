SPECIFICATION Spec
CONSTANTS
    Scripts <- MCScripts
    Program <- MCProgram
    Written <- MCWritten
    Unfinished <- MCUnfinished
    Meaning <- MCMeaning
    ParseTokens <- do_parse
    CompileTree <- compile_ast
    EmitProgram <- sbEmit_compile_program
    MaxSteps = 500
INVARIANTS
    TypeOK
    BracketsTracked
    ReadAsMeant
    
    CodeFitsMachine
    VariablesThere
    OperandsThere
    RunsAsMeant
CHECK_DEADLOCK FALSE
