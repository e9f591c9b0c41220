\* Every program of clang's layout, with the rewriter's optimisation or not.
SPECIFICATION Spec
CONSTANTS
  Programs <- ClangPrograms
  Variables = {"v1", "v2"}
  Optimize = {0, 1}
INVARIANTS
  AccessInSection
  SectionClosed
  SectionRewritten
  OutsideOriginal
