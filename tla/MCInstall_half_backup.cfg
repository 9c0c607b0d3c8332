SPECIFICATION Spec
CONSTANT AdminStacks <- Stacks
INVARIANT RollbackPossible
