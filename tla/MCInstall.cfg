SPECIFICATION Spec
CONSTANT AdminStacks <- Stacks
INVARIANTS AdminLinesKept TessFailsOpen UninstalledWhole
PROPERTY ModuleUnderStack
